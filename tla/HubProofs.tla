-------------------------- MODULE HubProofs --------------------------------
(***************************************************************************)
(* Proofs about what the hub's workers write.  RowsSound and NoStrays of   *)
(* the inventory, for any boxes, names, plans, number of workers and       *)
(* capacity of the cache; LinkStateTrue and OnlyTrapTurnsOn of the link    *)
(* table and its runner, for any devices, links, number of workers and     *)
(* faults; and RunnerResult of the runner, the correctness of its breadth  *)
(* first search among it, for any networks and links between them.         *)
(***************************************************************************)
EXTENDS Inventory, Topology, SequenceTheorems, FiniteSetTheorems, WellFoundedInduction, TLAPS

-----------------------------------------------------------------------------
(* The inductive invariant.                                                *)

Entry   == [key : Names, id : Ids, late : BOOLEAN]
BusyPcs == {"get", "put", "update", "insert", "again", "by_ip", "write"}
Busy    == [pc : BusyPcs, box : Boxes, name : Names, kind : Kinds, id : Ids \cup {None}, reg : BOOLEAN]

WorldTyped ==
  /\ plan \in Plans /\ name \in [Boxes -> Names]
  /\ owners \in [Names -> SUBSET Boxes] /\ early \subseteq Boxes /\ strays \subseteq SUBSET Boxes
  /\ renames \in 0..Len(plan.renames) /\ wipes \in 0..plan.wipes

TablesTyped ==
  /\ Rows \subseteq Ids /\ \A i \in Rows : rows[i] \in [box : Boxes, host : Names]
  /\ ports \subseteq Rows /\ ifc \subseteq Ids
  /\ dev \in Seq(Entry) /\ Len(dev) <= CacheCap
  /\ w \in [Workers -> Busy \cup {Idle}]

\* The unique index, and the map of the cache.
OneName  == \A i, j \in Rows : rows[i].host = rows[j].host => i = j
OneEntry == \A i, j \in DOMAIN dev : dev[i].key = dev[j].key => i = j

\* Cached interfaces of rows that are gone: every emptying of the table leaves at
\* most one for each name.
GoneBounded == Cardinality(ifc \ Rows) <= Cardinality(Names) * wipes

\* Boxes, rows and packets carry a name their box has had.
NamesOwned ==
  /\ \A b \in Boxes : b \in owners[name[b]]
  /\ \A i \in Rows : rows[i].box \in owners[rows[i].host]

\* What a worker has found.
WorkerOk(s) ==
  /\ s.pc \in {"put", "write"} \/ (s.pc \in {"update", "insert"} /\ ~s.reg) => s.id # None
  /\ s.box \in owners[s.name]
  /\ s.id \in Rows => Linked(rows[s.id].box, s.box)

WorkersOk == \A k \in Workers : w[k] \in Busy => WorkerOk(w[k])

\* What an entry of the cache leads to.
EntryOk(e) == \E b \in owners[e.key] : e.id \in Rows => Linked(rows[e.id].box, b)

EntriesOk == \A i \in DOMAIN dev : EntryOk(dev[i])

\* A box with an address that was never renamed too early and shared no name.
Lone(b) == b \notin early /\ b \notin Addressless /\ \A c \in Boxes \ {b} : ~Shared({b, c})

\* It has one row; and once it was renamed, it has one, and no worker makes another.
OneRow == \A b \in Boxes : Lone(b) => \A i, j \in RowsOf(b) : i = j

RowKept ==
  \A b \in Boxes : \A m, n \in Names :
    Lone(b) /\ m # n /\ b \in owners[m] /\ b \in owners[n] =>
      RowsOf(b) # {} /\ \A k \in Workers : w[k].box = b => w[k].pc # "insert"

Tables == OneName /\ OneEntry /\ GoneBounded
Traces == NamesOwned /\ WorkersOk /\ EntriesOk /\ NoStrays
Lonely == OneRow /\ RowKept

IInv == WorldTyped /\ TablesTyped /\ Tables /\ Traces /\ Lonely

-----------------------------------------------------------------------------
(* Sequences: an element removed, one put in front, the last one dropped.  *)

LEMMA RemoveAtIs ==
  ASSUME NEW S, NEW s \in Seq(S), NEW i \in 1..Len(s)
  PROVE  /\ RemoveAt(s, i) \in Seq(S) /\ Len(RemoveAt(s, i)) = Len(s) - 1
         /\ \A j \in 1..(Len(s) - 1) : RemoveAt(s, i)[j] = IF j < i THEN s[j] ELSE s[j + 1]
<1> DEFINE n == Len(s)
           a == SubSeq(s, 1, i - 1)
           b == SubSeq(s, i + 1, n)
<1>1. n \in Nat /\ i \in Nat /\ 1 <= i /\ i <= n /\ \A j \in 1..n : s[j] \in S
  BY LenProperties
<1> HIDE DEF n
<1>2. a \in Seq(S) /\ Len(a) = i - 1 /\ \A j \in 1..(i - 1) : a[j] = s[j]
  <2>1. \A j \in 1..(i - 1) : s[j] \in S
    BY <1>1
  <2>2. /\ a \in Seq(S) /\ Len(a) = (IF 1 <= i - 1 THEN i - 1 - 1 + 1 ELSE 0)
        /\ \A j \in 1..(i - 1 - 1 + 1) : a[j] = s[1 + j - 1]
    BY <1>1, <2>1, SubSeqProperties
  <2>3. QED
    BY <1>1, <2>2
<1>3. b \in Seq(S) /\ Len(b) = n - i /\ \A j \in 1..(n - i) : b[j] = s[i + j]
  <2>1. \A j \in (i + 1)..n : s[j] \in S
    BY <1>1
  <2>2. /\ b \in Seq(S) /\ Len(b) = (IF i + 1 <= n THEN n - (i + 1) + 1 ELSE 0)
        /\ \A j \in 1..(n - (i + 1) + 1) : b[j] = s[(i + 1) + j - 1]
    BY <1>1, <2>1, SubSeqProperties
  <2>3. QED
    BY <1>1, <2>2
<1> HIDE DEF a, b
<1>4. /\ a \o b \in Seq(S) /\ Len(a \o b) = n - 1
      /\ \A j \in 1..(n - 1) : (a \o b)[j] = IF j <= i - 1 THEN a[j] ELSE b[j - (i - 1)]
  BY <1>1, <1>2, <1>3, ConcatProperties
<1>5. ASSUME NEW j \in 1..(n - 1) PROVE (a \o b)[j] = IF j < i THEN s[j] ELSE s[j + 1]
  <2>1. CASE j < i
    <3>1. j \in 1..(i - 1)
      BY <1>1, <2>1
    <3>2. QED
      BY <1>2, <1>4, <2>1, <3>1
  <2>2. CASE ~(j < i)
    <3>1. j - (i - 1) \in 1..(n - i) /\ i + (j - (i - 1)) = j + 1 /\ ~(j <= i - 1)
      BY <1>1, <2>2
    <3>2. b[j - (i - 1)] = s[j + 1]
      BY <1>3, <3>1
    <3>3. QED
      BY <1>4, <2>2, <3>1, <3>2
  <2>3. QED
    BY <2>1, <2>2
<1>6. QED
  BY <1>4, <1>5 DEF RemoveAt, a, b, n

LEMMA ConsIs ==
  ASSUME NEW S, NEW s \in Seq(S), NEW e \in S
  PROVE  /\ <<e>> \o s \in Seq(S) /\ Len(<<e>> \o s) = Len(s) + 1
         /\ (<<e>> \o s)[1] = e /\ \A j \in 1..Len(s) : (<<e>> \o s)[j + 1] = s[j]
<1>1. <<e>> \in Seq(S) /\ Len(<<e>>) = 1 /\ <<e>>[1] = e /\ Len(s) \in Nat
  BY LenProperties
<1>2. /\ <<e>> \o s \in Seq(S) /\ Len(<<e>> \o s) = 1 + Len(s)
      /\ \A j \in 1..(1 + Len(s)) : (<<e>> \o s)[j] = IF j <= 1 THEN <<e>>[j] ELSE s[j - 1]
  BY <1>1, ConcatProperties
<1>3. QED
  BY <1>1, <1>2

LEMMA FrontIs ==
  ASSUME NEW S, NEW s \in Seq(S), Len(s) > 0
  PROVE  /\ Front(s) \in Seq(S) /\ Len(Front(s)) = Len(s) - 1
         /\ \A j \in 1..(Len(s) - 1) : Front(s)[j] = s[j]
<1> DEFINE n == Len(s) - 1
           f == SubSeq(s, 1, n)
<1>1. n \in Nat /\ \A j \in 1..n : s[j] \in S
  BY LenProperties
<1> HIDE DEF n
<1>2. /\ f \in Seq(S) /\ Len(f) = (IF 1 <= n THEN n - 1 + 1 ELSE 0)
      /\ \A j \in 1..(n - 1 + 1) : f[j] = s[1 + j - 1]
  BY <1>1, SubSeqProperties
<1> HIDE DEF f
<1>3. Len(f) = n /\ \A j \in 1..n : f[j] = s[j]
  BY <1>1, <1>2
<1>4. QED
  BY <1>2, <1>3 DEF Front, f, n

-----------------------------------------------------------------------------
(* The cache.                                                              *)

\* Keys are unique, and the rest is a cache without the key.
LEMMA WithoutIs ==
  ASSUME dev \in Seq(Entry), OneEntry, NEW key \in Names
  PROVE  LET s == Without(key) IN
         /\ s \in Seq(Entry) /\ Len(s) <= Len(dev)
         /\ Entries(key) # {} => Len(s) = Len(dev) - 1
         /\ \A j \in DOMAIN s : s[j].key # key /\ \E i \in DOMAIN dev : s[j] = dev[i]
         /\ \A i, j \in DOMAIN s : s[i].key = s[j].key => i = j
<1> DEFINE s == Without(key)
           n == Len(dev)
<1>1. n \in Nat /\ DOMAIN dev = 1..n
  BY LenProperties
<1>2. CASE Entries(key) = {}
  <2>1. s = dev
    BY <1>2 DEF Without
  <2>2. \A j \in DOMAIN dev : dev[j].key # key
    BY <1>2 DEF Entries
  <2> HIDE DEF s
  <2>3. QED
    BY <1>1, <1>2, <2>1, <2>2 DEF OneEntry, s
<1>3. CASE Entries(key) # {}
  <2>1. PICK i \in Entries(key) : s = RemoveAt(dev, i)
    BY <1>3 DEF Without
  <2>2. i \in 1..n /\ dev[i].key = key
    BY <1>1, <2>1 DEF Entries
  <2>3. /\ s \in Seq(Entry) /\ Len(s) = n - 1
        /\ \A j \in 1..(n - 1) : s[j] = IF j < i THEN dev[j] ELSE dev[j + 1]
    BY <2>1, <2>2, RemoveAtIs
  <2>4. DOMAIN s = 1..(n - 1)
    BY <2>3, LenProperties
  <2> DEFINE at(j) == IF j < i THEN j ELSE j + 1
  <2>5. \A j \in DOMAIN s : at(j) \in DOMAIN dev /\ at(j) # i /\ s[j] = dev[at(j)]
    BY <1>1, <2>2, <2>3, <2>4
  <2>6. \A j, l \in DOMAIN s : at(j) = at(l) => j = l
    BY <1>1, <2>2, <2>4
  <2> HIDE DEF at, s, n
  <2>7. \A j \in DOMAIN s : s[j].key # key /\ \E l \in DOMAIN dev : s[j] = dev[l]
    BY <1>1, <2>2, <2>5 DEF OneEntry
  <2>8. \A j, l \in DOMAIN s : s[j].key = s[l].key => j = l
    BY <2>5, <2>6 DEF OneEntry
  <2>9. QED
    BY <1>1, <2>3, <2>7, <2>8 DEF s, n
<1>4. QED
  BY <1>2, <1>3

\* An entry in front of it.
LEMMA FirstIs ==
  ASSUME dev \in Seq(Entry), OneEntry, NEW key \in Names, NEW e \in Entry, e.key = key
  PROVE  LET s == <<e>> \o Without(key) IN
         /\ s \in Seq(Entry) /\ Len(s) <= Len(dev) + 1
         /\ Entries(key) # {} => Len(s) <= Len(dev)
         /\ \A j \in DOMAIN s : s[j] = e \/ \E i \in DOMAIN dev : s[j] = dev[i]
         /\ \A i, j \in DOMAIN s : s[i].key = s[j].key => i = j
<1> DEFINE r == Without(key)
           s == <<e>> \o r
<1>1. /\ r \in Seq(Entry) /\ Len(r) <= Len(dev)
      /\ Entries(key) # {} => Len(r) = Len(dev) - 1
      /\ \A j \in DOMAIN r : r[j].key # key /\ \E i \in DOMAIN dev : r[j] = dev[i]
      /\ \A i, j \in DOMAIN r : r[i].key = r[j].key => i = j
  BY WithoutIs
<1>2. Len(r) \in Nat /\ DOMAIN r = 1..Len(r) /\ Len(dev) \in Nat
  BY <1>1, LenProperties
<1>3. /\ s \in Seq(Entry) /\ Len(s) = Len(r) + 1
      /\ s[1] = e /\ \A j \in 1..Len(r) : s[j + 1] = r[j]
  BY <1>1, ConsIs
<1>4. DOMAIN s = 1..(Len(r) + 1)
  BY <1>3, LenProperties
<1> HIDE DEF r, s
<1>5. \A j \in DOMAIN s : j = 1 \/ (j - 1 \in DOMAIN r /\ s[j] = r[j - 1])
  BY <1>2, <1>3, <1>4
<1>6. \A j \in DOMAIN s : s[j] = e \/ \E i \in DOMAIN dev : s[j] = dev[i]
  BY <1>1, <1>3, <1>5
<1>7. \A i, j \in DOMAIN s : s[i].key = s[j].key => i = j
  <2> SUFFICES ASSUME NEW i \in DOMAIN s, NEW j \in DOMAIN s, s[i].key = s[j].key PROVE i = j
    OBVIOUS
  <2>1. CASE i = 1 \/ j = 1
    BY <1>1, <1>3, <1>5, <2>1
  <2>2. CASE i # 1 /\ j # 1
    <3>1. i - 1 = j - 1
      BY <1>1, <1>5, <2>2
    <3>2. QED
      BY <1>2, <1>4, <3>1
  <2>3. QED
    BY <2>1, <2>2
<1>8. QED
  BY <1>1, <1>2, <1>3, <1>6, <1>7 DEF r, s

\* Get and Put keep a cache within its capacity, with what it had or was given.
LEMMA PutIs ==
  ASSUME dev \in Seq(Entry), Len(dev) <= CacheCap, OneEntry,
         NEW key \in Names, NEW id \in Ids, dev' = Put(key, id)
  PROVE  /\ dev' \in Seq(Entry) /\ Len(dev') <= CacheCap /\ OneEntry'
         /\ \A j \in DOMAIN dev' : \/ dev'[j] = [key |-> key, id |-> id, late |-> FALSE]
                                   \/ \E i \in DOMAIN dev : dev'[j] = dev[i]
<1> DEFINE e == [key |-> key, id |-> id, late |-> FALSE]
           s == <<e>> \o Without(key)
<1>1. e \in Entry /\ e.key = key
  BY DEF Entry
<1>2. /\ s \in Seq(Entry) /\ Len(s) <= Len(dev) + 1
      /\ \A j \in DOMAIN s : s[j] = e \/ \E i \in DOMAIN dev : s[j] = dev[i]
      /\ \A i, j \in DOMAIN s : s[i].key = s[j].key => i = j
  BY <1>1, FirstIs
<1>3. Len(s) \in Nat /\ DOMAIN s = 1..Len(s) /\ Len(dev) \in Nat /\ CacheCap \in Nat \ {0}
  BY <1>2, LenProperties, InventoryAssumption
<1>4. dev' = IF Len(s) > CacheCap THEN Front(s) ELSE s
  BY DEF Put
<1> HIDE DEF e, s
<1>5. CASE Len(s) > CacheCap
  <2>1. /\ dev' \in Seq(Entry) /\ Len(dev') = Len(s) - 1 /\ \A j \in 1..(Len(s) - 1) : dev'[j] = s[j]
    <3>1. dev' = Front(s) /\ Len(s) > 0
      BY <1>3, <1>4, <1>5
    <3>2. QED
      BY <1>2, <3>1, FrontIs
  <2>2. DOMAIN dev' = 1..(Len(s) - 1)
    BY <2>1, LenProperties
  <2>3. \A j \in DOMAIN dev' : j \in DOMAIN s /\ dev'[j] = s[j]
    BY <1>3, <2>1, <2>2
  <2>4. Len(dev') <= CacheCap
    BY <1>2, <1>3, <2>1
  <2>5. QED
    BY <1>2, <2>1, <2>3, <2>4 DEF OneEntry, e
<1>6. CASE ~(Len(s) > CacheCap)
  <2>1. dev' = s /\ Len(s) <= CacheCap
    BY <1>3, <1>4, <1>6
  <2>2. QED
    BY <1>2, <2>1 DEF OneEntry, e
<1>7. QED
  BY <1>5, <1>6

LEMMA AfterGetIs ==
  ASSUME dev \in Seq(Entry), Len(dev) <= CacheCap, OneEntry,
         NEW key \in Names, dev' = AfterGet(key)
  PROVE  /\ dev' \in Seq(Entry) /\ Len(dev') <= CacheCap /\ OneEntry'
         /\ \A j \in DOMAIN dev' : \E i \in DOMAIN dev : dev'[j] = dev[i]
<1>1. Len(dev) \in Nat /\ CacheCap \in Nat /\ DOMAIN dev = 1..Len(dev) /\ \A i \in DOMAIN dev : dev[i] \in Entry
  BY LenProperties, InventoryAssumption, ElementOfSeq
<1>2. CASE Hits(key) = {}
  <2> DEFINE s == Without(key)
  <2>1. dev' = s
    BY <1>2 DEF AfterGet
  <2>2. /\ s \in Seq(Entry) /\ Len(s) <= Len(dev)
        /\ \A j \in DOMAIN s : \E i \in DOMAIN dev : s[j] = dev[i]
        /\ \A i, j \in DOMAIN s : s[i].key = s[j].key => i = j
    BY WithoutIs
  <2>3. Len(s) \in Nat
    BY <2>2, LenProperties
  <2> HIDE DEF s
  <2>4. QED
    BY <1>1, <2>1, <2>2, <2>3 DEF OneEntry
<1>3. CASE Hits(key) # {}
  <2>1. PICK h \in Hits(key) : dev' = <<dev[h]>> \o Without(key)
    BY <1>3 DEF AfterGet
  <2>2. h \in DOMAIN dev /\ dev[h].key = key /\ Entries(key) # {}
    BY <2>1 DEF Hits, Entries
  <2> DEFINE s == <<dev[h]>> \o Without(key)
  <2>3. /\ s \in Seq(Entry) /\ Len(s) <= Len(dev)
        /\ \A j \in DOMAIN s : s[j] = dev[h] \/ \E i \in DOMAIN dev : s[j] = dev[i]
        /\ \A i, j \in DOMAIN s : s[i].key = s[j].key => i = j
    BY <1>1, <2>2, FirstIs
  <2>4. Len(s) \in Nat
    BY <2>3, LenProperties
  <2>5. dev' = s
    BY <2>1
  <2> HIDE DEF s
  <2>6. QED
    BY <1>1, <2>2, <2>3, <2>4, <2>5 DEF OneEntry
<1>4. QED
  BY <1>2, <1>3

-----------------------------------------------------------------------------
(* Linked is an equivalence that owners of one name are in, and that       *)
(* later owners only make coarser.                                         *)

LEMMA LinkedSame == \A a : Linked(a, a)
  BY DEF Linked

LEMMA LinkedSym == \A a, b : Linked(a, b) => Linked(b, a)
  BY DEF Linked

LEMMA LinkedTrans == \A a, b, c : Linked(a, b) /\ Linked(b, c) => Linked(a, c)
  BY DEF Linked

LEMMA OwnersLinked ==
  ASSUME NEW n \in Names, owners \in [Names -> SUBSET Boxes], NEW a \in owners[n], NEW b \in owners[n]
  PROVE  Linked(a, b)
<1>1. a \in Boxes /\ b \in Boxes /\ Shared({a, b}) /\ Shared({b, a})
  BY DEF Shared
<1>2. QED
  BY <1>1 DEF Linked

LEMMA LinkedGrows ==
  ASSUME \A n \in Names : owners[n] \subseteq owners'[n], NEW a, NEW b, Linked(a, b)
  PROVE  Linked(a, b)'
<1>1. \A c, d : Shared({c, d}) => Shared({c, d})'
  BY DEF Shared
<1>2. QED
  BY <1>1 DEF Linked

LEMMA LinkedStays ==
  ASSUME UNCHANGED owners
  PROVE  \A a, b : Linked(a, b)' <=> Linked(a, b)
  BY DEF Linked, Shared

-----------------------------------------------------------------------------
(* Steps of the workers' frames.                                           *)

LEMMA WorkerSet ==
  ASSUME w \in [Workers -> Busy \cup {Idle}], NEW k \in Workers, NEW s \in Busy \cup {Idle},
         w' = [w EXCEPT ![k] = s]
  PROVE  w' \in [Workers -> Busy \cup {Idle}] /\ w'[k] = s /\ \A h \in Workers : h # k => w'[h] = w[h]
  OBVIOUS

LEMMA IdleIsIdle == Idle \notin Busy /\ Idle.pc = "idle"
  BY DEF Idle, Busy, BusyPcs

\* A worker that is not idle is busy with a packet.
LEMMA AtBusy ==
  ASSUME w \in [Workers -> Busy \cup {Idle}], NEW k \in Workers, w[k].pc # "idle"
  PROVE  w[k] \in Busy
  BY IdleIsIdle

-----------------------------------------------------------------------------
(* Steps that leave the rows and the world alone.                          *)

LEMMA OkStays ==
  ASSUME UNCHANGED <<rows, owners>>
  PROVE  /\ \A s : WorkerOk(s) <=> WorkerOk(s)'
         /\ \A e : EntryOk(e) <=> EntryOk(e)'
<1>1. \A a, b : Linked(a, b)' <=> Linked(a, b)
  BY LinkedStays
<1>2. QED
  BY <1>1 DEF WorkerOk, EntryOk, Rows

LEMMA QuietRows ==
  ASSUME IInv, UNCHANGED <<rows, world>>, TablesTyped', OneEntry', GoneBounded',
         strays' \subseteq SUBSET Boxes, NoStrays',
         \A j \in DOMAIN dev' : EntryOk(dev'[j]),
         \A h \in Workers : \/ w'[h] = w[h]
                            \/ /\ w'[h].pc = "insert" => RowsAt(w'[h].box) = {}
                               /\ w'[h] \in Busy => WorkerOk(w'[h])
  PROVE  IInv'
<1>1. UNCHANGED <<plan, name, owners, early, renames, wipes>>
  BY DEF world
<1>2. WorldTyped' /\ OneName' /\ NamesOwned'
  BY <1>1 DEF IInv, WorldTyped, Tables, Traces, OneName, NamesOwned, Rows
<1>3. EntriesOk'
  BY <1>1, OkStays DEF EntriesOk
<1>4. WorkersOk'
  <2> SUFFICES ASSUME NEW h \in Workers, w'[h] \in Busy PROVE WorkerOk(w[h])'
    BY DEF WorkersOk
  <2>1. WorkerOk(w'[h])
    BY DEF IInv, Traces, WorkersOk
  <2>2. QED
    BY <1>1, <2>1, OkStays
<1>5. \A b : (Lone(b)' <=> Lone(b)) /\ RowsOf(b)' = RowsOf(b)
  BY <1>1 DEF Lone, Shared, RowsOf, Rows
<1>6. OneRow'
  BY <1>5 DEF IInv, Lonely, OneRow
<1>7. RowKept'
  <2> SUFFICES ASSUME NEW b \in Boxes, NEW m \in Names, NEW n \in Names,
                      Lone(b), m # n, b \in owners[m], b \in owners[n]
               PROVE  RowsOf(b) # {} /\ \A k \in Workers : w'[k].box = b => w'[k].pc # "insert"
    BY <1>1, <1>5 DEF RowKept
  <2>1. RowsOf(b) # {} /\ \A k \in Workers : w[k].box = b => w[k].pc # "insert"
    BY DEF IInv, Lonely, RowKept
  <2>2. RowsAt(b) = RowsOf(b)
    BY DEF RowsAt, Lone
  <2>3. QED
    BY <2>1, <2>2
<1>8. QED
  BY <1>2, <1>3, <1>4, <1>6, <1>7 DEF IInv, Tables, Traces, Lonely

\* The rest of a worker's step that leaves the rows, the caches and the world alone.
LEMMA WorkerOnly ==
  ASSUME IInv, UNCHANGED <<rows, ports, dev, ifc, world, strays>>,
         NEW k \in Workers, NEW s \in Busy \cup {Idle}, w' = [w EXCEPT ![k] = s],
         s.pc = "insert" => RowsAt(s.box) = {}, s \in Busy => WorkerOk(s)
  PROVE  IInv'
<1>1. w' \in [Workers -> Busy \cup {Idle}] /\ w'[k] = s /\ \A h \in Workers : h # k => w'[h] = w[h]
  BY WorkerSet DEF IInv, TablesTyped
<1>2. TablesTyped'
  BY <1>1 DEF IInv, TablesTyped, Rows
<1>3. OneEntry' /\ GoneBounded' /\ NoStrays' /\ strays' \subseteq SUBSET Boxes
  <2>1. UNCHANGED owners
    BY DEF world
  <2>2. \A a, b : Linked(a, b)' <=> Linked(a, b)
    BY <2>1, LinkedStays
  <2>3. QED
    BY <2>2 DEF IInv, WorldTyped, Tables, Traces, OneEntry, GoneBounded, NoStrays, Rows, world
<1>4. \A j \in DOMAIN dev' : EntryOk(dev'[j])
  BY DEF IInv, Traces, EntriesOk
<1>5. QED
  BY <1>1, <1>2, <1>3, <1>4, QuietRows

-----------------------------------------------------------------------------
(* The lookup.                                                             *)

\* A busy worker goes on with what it has, or with an id it found.
LEMMA ToOk ==
  ASSUME IInv, NEW k \in Workers, w[k] \in Busy, NEW pc \in BusyPcs, To(k, pc),
         pc \in {"put", "write"} \/ (pc \in {"update", "insert"} /\ ~w[k].reg) => w[k].id # None
  PROVE  \E s \in Busy : /\ w' = [w EXCEPT ![k] = s] /\ s.pc = pc /\ WorkerOk(s)
                         /\ s.box = w[k].box /\ s.id = w[k].id /\ s.name = w[k].name
<1> DEFINE s == [w[k] EXCEPT !.pc = pc]
<1>1. w \in [Workers -> Busy \cup {Idle}] /\ WorkerOk(w[k])
  BY DEF IInv, TablesTyped, Traces, WorkersOk
<1>2. s \in Busy /\ w' = [w EXCEPT ![k] = s]
  BY <1>1 DEF To, Busy
<1>3. s.pc = pc /\ s.id = w[k].id /\ s.box = w[k].box /\ s.name = w[k].name /\ s.reg = w[k].reg
  BY DEF Busy
<1> HIDE DEF s
<1>4. WorkerOk(s)
  BY <1>1, <1>3 DEF WorkerOk
<1>5. QED
  BY <1>2, <1>3, <1>4

LEMMA FoundOk ==
  ASSUME IInv, NEW k \in Workers, w[k] \in Busy, NEW pc \in BusyPcs, NEW id \in Ids, Found(k, pc, id),
         id # None, id \in Rows => Linked(rows[id].box, w[k].box)
  PROVE  \E s \in Busy : w' = [w EXCEPT ![k] = s] /\ s.pc = pc /\ s.box = w[k].box /\ WorkerOk(s)
<1> DEFINE s == [w[k] EXCEPT !.pc = pc, !.id = id]
<1>1. w \in [Workers -> Busy \cup {Idle}] /\ WorkerOk(w[k])
  BY DEF IInv, TablesTyped, Traces, WorkersOk
<1>2. s \in Busy /\ w' = [w EXCEPT ![k] = s]
  BY <1>1 DEF Found, Busy
<1>3. s.pc = pc /\ s.id = id /\ s.box = w[k].box /\ s.name = w[k].name
  BY DEF Busy
<1> HIDE DEF s
<1>4. WorkerOk(s)
  BY <1>1, <1>3 DEF WorkerOk
<1>5. QED
  BY <1>2, <1>3, <1>4

LEMMA TakeStep ==
  ASSUME IInv, NEW k \in Workers, NEW b \in Boxes, NEW kind \in Kinds, Take(k, b, kind)
  PROVE  IInv'
<1> DEFINE s == [pc |-> "get", box |-> b, name |-> name[b], kind |-> kind, id |-> None, reg |-> FALSE]
<1>1. w' = [w EXCEPT ![k] = s] /\ UNCHANGED <<rows, ports, dev, ifc, world, strays>>
  BY DEF Take, tables, caches
<1>2. s \in Busy
  BY DEF IInv, WorldTyped, Busy, BusyPcs
<1>3. WorkerOk(s)
  <2>1. None \notin Rows /\ b \in owners[name[b]]
    BY InventoryAssumption DEF IInv, TablesTyped, Traces, NamesOwned
  <2>2. QED
    BY <2>1 DEF WorkerOk
<1>4. s.pc # "insert"
  OBVIOUS
<1> HIDE DEF s
<1>5. QED
  BY <1>1, <1>2, <1>3, <1>4, WorkerOnly

\* A row with the packet's name belongs to a box linked to the packet's.
LEMMA NamedIsLinked ==
  ASSUME IInv, NEW s \in Busy, s.box \in owners[s.name], NEW i \in RowsNamed(s.name)
  PROVE  i \in Ids /\ i # None /\ Linked(rows[i].box, s.box)
<1>1. i \in Rows /\ rows[i].host = s.name /\ s.name \in Names
  BY DEF RowsNamed, Busy
<1>2. rows[i].box \in owners[s.name] /\ i \in Ids /\ owners \in [Names -> SUBSET Boxes]
  BY <1>1 DEF IInv, WorldTyped, TablesTyped, Traces, NamesOwned
<1>3. QED
  BY <1>1, <1>2, OwnersLinked, InventoryAssumption

\* So does the row a fresh entry of the name leads to.
LEMMA CachedIsLinked ==
  ASSUME IInv, NEW s \in Busy, s.box \in owners[s.name], Hits(s.name) # {}
  PROVE  /\ Cached(s.name) \in Ids /\ Cached(s.name) # None
         /\ Cached(s.name) \in Rows => Linked(rows[Cached(s.name)].box, s.box)
<1>1. PICK i \in Hits(s.name) : Cached(s.name) = dev[i].id
  BY DEF Cached
<1>2. i \in DOMAIN dev /\ dev[i].key = s.name /\ s.name \in Names
  BY <1>1 DEF Hits, Entries, Busy
<1>3. dev[i] \in Entry /\ dev[i].id \in Ids
  <2>1. dev \in Seq(Entry)
    BY DEF IInv, TablesTyped
  <2>2. i \in 1..Len(dev)
    BY <1>2, <2>1, LenProperties
  <2>3. dev[i] \in Entry
    BY <2>1, <2>2, ElementOfSeq
  <2>4. QED
    BY <2>3 DEF Entry
<1>4. PICK b \in owners[s.name] : dev[i].id \in Rows => Linked(rows[dev[i].id].box, b)
  BY <1>2 DEF IInv, Traces, EntriesOk, EntryOk
<1>5. Linked(b, s.box)
  BY <1>2, <1>4, OwnersLinked DEF IInv, WorldTyped
<1>6. QED
  BY <1>1, <1>3, <1>4, <1>5, LinkedTrans, InventoryAssumption

LEMMA GetStep == ASSUME IInv, NEW k \in Workers, Get(k) PROVE IInv'
<1> DEFINE n == w[k].name
<1>1. /\ w[k] \in Busy /\ w[k].pc = "get" /\ dev' = AfterGet(n)
      /\ UNCHANGED <<rows, ports, ifc, world, strays>>
  BY AtBusy DEF Get, At, tables, IInv, TablesTyped
<1>2. WorkerOk(w[k]) /\ n \in Names
  BY <1>1 DEF IInv, Traces, WorkersOk, Busy
<1>3. /\ dev' \in Seq(Entry) /\ Len(dev') <= CacheCap /\ OneEntry'
      /\ \A j \in DOMAIN dev' : \E i \in DOMAIN dev : dev'[j] = dev[i]
  BY <1>1, <1>2, AfterGetIs DEF IInv, TablesTyped, Tables
<1>4. PICK s \in Busy \cup {Idle} :
        w' = [w EXCEPT ![k] = s] /\ s.pc # "insert" /\ (s \in Busy => WorkerOk(s))
  <2> DEFINE goal == \E s \in Busy \cup {Idle} :
                       w' = [w EXCEPT ![k] = s] /\ s.pc # "insert" /\ (s \in Busy => WorkerOk(s))
  <2>1. ASSUME NEW id \in Ids, id # None, id \in Rows => Linked(rows[id].box, w[k].box),
               NEW pc \in {"update", "write", "put"}, Found(k, pc, id)
        PROVE  goal
    <3>1. pc \in BusyPcs /\ pc # "insert"
      BY DEF BusyPcs
    <3>2. QED
      BY <1>1, <2>1, <3>1, FoundOk
  <2>2. AfterLookup(k) \in {"update", "write"}
    BY DEF AfterLookup
  <2>3. CASE Hits(n) # {}
    <3>1. Found(k, AfterLookup(k), Cached(n))
      BY <2>3 DEF Get
    <3>2. w[k].box \in owners[w[k].name]
      BY <1>2 DEF WorkerOk
    <3>3. QED
      BY <1>1, <2>1, <2>2, <2>3, <3>1, <3>2, CachedIsLinked
  <2>4. CASE Hits(n) = {} /\ RowsNamed(n) # {}
    <3>1. PICK i \in RowsNamed(n) : Found(k, "put", i)
      BY <2>4 DEF Get
    <3>2. w[k].box \in owners[w[k].name]
      BY <1>2 DEF WorkerOk
    <3>3. QED
      BY <1>1, <2>1, <3>1, <3>2, NamedIsLinked
  <2>5. CASE w' = [w EXCEPT ![k].pc = "update", ![k].reg = TRUE]
    <3> DEFINE s == [w[k] EXCEPT !.pc = "update", !.reg = TRUE]
    <3>1. s \in Busy /\ w' = [w EXCEPT ![k] = s]
      BY <1>1, <2>5 DEF Busy, BusyPcs, IInv, TablesTyped
    <3>2. s.pc = "update" /\ s.id = w[k].id /\ s.box = w[k].box /\ s.name = n /\ s.reg = TRUE
      BY <1>1 DEF Busy
    <3> HIDE DEF s
    <3>3. WorkerOk(s)
      BY <1>2, <3>2 DEF WorkerOk
    <3>4. QED
      BY <3>1, <3>2, <3>3
  <2>6. CASE To(k, "by_ip")
    <3>1. "by_ip" \in BusyPcs
      BY DEF BusyPcs
    <3>2. QED
      BY <1>1, <2>6, <3>1, ToOk
  <2>7. CASE Finish(k)
    BY <2>7, IdleIsIdle DEF Finish
  <2>8. QED
    BY <2>3, <2>4, <2>5, <2>6, <2>7 DEF Get
<1>5. w' \in [Workers -> Busy \cup {Idle}] /\ w'[k] = s /\ \A h \in Workers : h # k => w'[h] = w[h]
  BY <1>4, WorkerSet DEF IInv, TablesTyped
<1>6. TablesTyped' /\ GoneBounded' /\ strays' \subseteq SUBSET Boxes
  BY <1>1, <1>3, <1>5 DEF IInv, WorldTyped, TablesTyped, Tables, GoneBounded, Rows, world
<1>7. NoStrays'
  BY <1>1, LinkedStays DEF IInv, Traces, NoStrays, world
<1>8. \A j \in DOMAIN dev' : EntryOk(dev'[j])
  BY <1>3 DEF IInv, Traces, EntriesOk
<1>9. QED
  BY <1>1, <1>3, <1>4, <1>5, <1>6, <1>7, <1>8, QuietRows

LEMMA PutIdStep == ASSUME IInv, NEW k \in Workers, PutId(k) PROVE IInv'
<1> DEFINE e == [key |-> w[k].name, id |-> w[k].id, late |-> FALSE]
           pc == IF w[k].reg THEN "write" ELSE AfterLookup(k)
<1>1. /\ w[k] \in Busy /\ w[k].pc = "put" /\ dev' = Put(w[k].name, w[k].id) /\ To(k, pc)
      /\ UNCHANGED <<rows, ports, ifc, world, strays>>
  BY AtBusy DEF PutId, At, tables, IInv, TablesTyped
<1>2. WorkerOk(w[k]) /\ w[k].id # None
  BY <1>1 DEF IInv, Traces, WorkersOk, WorkerOk
<1>3. w[k].name \in Names /\ w[k].id \in Ids
  BY <1>1, <1>2 DEF Busy
<1>4. /\ dev' \in Seq(Entry) /\ Len(dev') <= CacheCap /\ OneEntry'
      /\ \A j \in DOMAIN dev' : dev'[j] = e \/ \E i \in DOMAIN dev : dev'[j] = dev[i]
  BY <1>1, <1>3, PutIs DEF IInv, TablesTyped, Tables
<1>5. pc \in BusyPcs /\ pc # "insert"
  BY DEF AfterLookup, BusyPcs
<1>6. PICK s \in Busy : w' = [w EXCEPT ![k] = s] /\ s.pc = pc /\ WorkerOk(s)
  BY <1>1, <1>2, <1>5, ToOk
<1>7. w' \in [Workers -> Busy \cup {Idle}] /\ w'[k] = s /\ \A h \in Workers : h # k => w'[h] = w[h]
  BY <1>6, WorkerSet DEF IInv, TablesTyped
<1>8. TablesTyped' /\ GoneBounded' /\ strays' \subseteq SUBSET Boxes
  BY <1>1, <1>4, <1>7 DEF IInv, WorldTyped, TablesTyped, Tables, GoneBounded, Rows, world
<1>9. NoStrays'
  BY <1>1, LinkedStays DEF IInv, Traces, NoStrays, world
<1>10. EntryOk(e)
  <2>1. w[k].box \in owners[w[k].name] /\ (w[k].id \in Rows => Linked(rows[w[k].id].box, w[k].box))
    BY <1>2 DEF WorkerOk
  <2>2. e.key = w[k].name /\ e.id = w[k].id
    OBVIOUS
  <2> HIDE DEF e
  <2>3. QED
    BY <2>1, <2>2 DEF EntryOk
<1>11. \A j \in DOMAIN dev' : EntryOk(dev'[j])
  BY <1>4, <1>10 DEF IInv, Traces, EntriesOk
<1> HIDE DEF e, pc
<1>12. QED
  BY <1>1, <1>4, <1>5, <1>6, <1>7, <1>8, <1>9, <1>11, QuietRows

LEMMA AgainStep == ASSUME IInv, NEW k \in Workers, Again(k) PROVE IInv'
<1>1. /\ w[k] \in Busy /\ UNCHANGED <<rows, ports, dev, ifc, world, strays>>
  BY AtBusy DEF Again, At, tables, caches, IInv, TablesTyped
<1>2. WorkerOk(w[k])
  BY <1>1 DEF IInv, Traces, WorkersOk
<1>3. CASE RowsNamed(w[k].name) = {}
  <2>1. w' = [w EXCEPT ![k] = Idle]
    BY <1>3 DEF Again, Finish
  <2>2. QED
    BY <1>1, <2>1, IdleIsIdle, WorkerOnly
<1>4. CASE RowsNamed(w[k].name) # {}
  <2>1. PICK i \in RowsNamed(w[k].name) : Found(k, "put", i)
    BY <1>4 DEF Again
  <2>2. w[k].box \in owners[w[k].name]
    BY <1>2 DEF WorkerOk
  <2>3. i \in Ids /\ i # None /\ Linked(rows[i].box, w[k].box)
    BY <1>1, <2>2, NamedIsLinked
  <2>4. "put" \in BusyPcs
    BY DEF BusyPcs
  <2>5. PICK s \in Busy : w' = [w EXCEPT ![k] = s] /\ s.pc = "put" /\ WorkerOk(s)
    BY <1>1, <2>1, <2>3, <2>4, FoundOk
  <2>6. QED
    BY <1>1, <2>5, WorkerOnly
<1>5. QED
  BY <1>3, <1>4

LEMMA ByIpStep == ASSUME IInv, NEW k \in Workers, ByIp(k) PROVE IInv'
<1>1. /\ w[k] \in Busy /\ UNCHANGED <<rows, ports, dev, ifc, world, strays>>
  BY AtBusy DEF ByIp, At, tables, caches, IInv, TablesTyped
<1>2. CASE RowsAt(w[k].box) = {}
  <2>1. w' = [w EXCEPT ![k] = Idle]
    BY <1>2 DEF ByIp, Finish
  <2>2. QED
    BY <1>1, <2>1, IdleIsIdle, WorkerOnly
<1>3. CASE RowsAt(w[k].box) # {}
  <2>1. PICK i \in RowsAt(w[k].box) : Found(k, "write", i)
    BY <1>3 DEF ByIp
  <2>2. i \in Ids /\ i # None /\ rows[i].box = w[k].box
    BY <2>1, InventoryAssumption DEF RowsAt, RowsOf, IInv, TablesTyped
  <2>3. "write" \in BusyPcs
    BY DEF BusyPcs
  <2>4. PICK s \in Busy : w' = [w EXCEPT ![k] = s] /\ s.pc = "write" /\ WorkerOk(s)
    BY <1>1, <2>1, <2>2, <2>3, FoundOk, LinkedSame
  <2>5. QED
    BY <1>1, <2>4, WorkerOnly
<1>4. QED
  BY <1>2, <1>3

-----------------------------------------------------------------------------
(* What is written, and time.                                              *)

LEMMA GoneShrinks ==
  ASSUME IInv, NEW S, S \subseteq ifc \ Rows
  PROVE  Cardinality(S) <= Cardinality(Names) * wipes
<1>1. IsFiniteSet(ifc \ Rows)
  BY FS_Subset, InventoryAssumption DEF IInv, TablesTyped
<1>2. Cardinality(S) <= Cardinality(ifc \ Rows) /\ Cardinality(S) \in Nat /\ Cardinality(ifc \ Rows) \in Nat
  BY <1>1, FS_Subset, FS_CardinalityType
<1>3. Cardinality(Names) * wipes \in Int
  <2>1. Cardinality(Names) \in Nat /\ wipes \in Int
    BY FS_CardinalityType, InventoryAssumption DEF IInv, WorldTyped
  <2>2. QED
    BY <2>1
<1>4. Cardinality(ifc \ Rows) <= Cardinality(Names) * wipes
  BY DEF IInv, Tables, GoneBounded
<1> DEFINE c == Cardinality(S)
           d == Cardinality(ifc \ Rows)
           m == Cardinality(Names) * wipes
<1> HIDE DEF c, d, m
<1>5. c <= d /\ d <= m /\ c \in Int /\ d \in Int /\ m \in Int => c <= m
  OBVIOUS
<1>6. QED
  BY <1>2, <1>3, <1>4, <1>5 DEF c, d, m

\* What is stored under a row's id comes from a box linked to the row's.
LEMMA StoredOk ==
  ASSUME IInv, NEW k \in Workers, w[k] \in Busy, Filed(k) \/ UNCHANGED strays, UNCHANGED <<rows, owners>>
  PROVE  strays' \subseteq SUBSET Boxes /\ NoStrays'
<1> DEFINE a == w[k].box
           b == rows[w[k].id].box
<1>1. WorkerOk(w[k]) /\ a \in Boxes
  BY DEF IInv, Traces, WorkersOk, Busy
<1>2. w[k].id \in Rows => b \in Boxes /\ Linked(b, a) /\ Linked(a, b)
  BY <1>1, LinkedSym DEF WorkerOk, IInv, TablesTyped
<1> HIDE DEF a, b
<1>3. strays' = strays \/ (w[k].id \in Rows /\ strays' = strays \cup {{a, b}})
  BY DEF Filed, a, b
<1>4. strays' \subseteq SUBSET Boxes
  BY <1>1, <1>2, <1>3 DEF IInv, WorldTyped
<1>5. ASSUME NEW s \in strays', NEW c \in s, NEW d \in s PROVE Linked(c, d)
  <2>1. s \in strays \/ (w[k].id \in Rows /\ s = {a, b})
    BY <1>3
  <2>2. CASE s \in strays
    BY <2>2 DEF IInv, Traces, NoStrays
  <2>3. CASE w[k].id \in Rows /\ s = {a, b}
    BY <1>2, <2>3, LinkedSame
  <2>4. QED
    BY <2>1, <2>2, <2>3
<1>6. QED
  BY <1>4, <1>5, LinkedStays DEF NoStrays

LEMMA WriteStep ==
  ASSUME IInv, NEW k \in Workers, w[k] \in Busy, Filed(k) \/ UNCHANGED strays, Finish(k),
         UNCHANGED <<rows, dev, world>>, ports' \subseteq Rows, ifc' \subseteq ifc \cup Rows
  PROVE  IInv'
<1>1. strays' \subseteq SUBSET Boxes /\ NoStrays'
  BY StoredOk DEF world
<1>2. w' = [w EXCEPT ![k] = Idle]
  BY DEF Finish
<1>3. w' \in [Workers -> Busy \cup {Idle}] /\ w'[k] = Idle /\ \A h \in Workers : h # k => w'[h] = w[h]
  BY <1>2, WorkerSet DEF IInv, TablesTyped
<1>4. TablesTyped'
  BY <1>3 DEF IInv, TablesTyped, Rows
<1>5. GoneBounded'
  <2>1. Cardinality(ifc' \ Rows) <= Cardinality(Names) * wipes
    BY GoneShrinks
  <2>2. QED
    BY <2>1 DEF GoneBounded, Rows, world
<1>6. OneEntry' /\ \A j \in DOMAIN dev' : EntryOk(dev'[j])
  BY DEF IInv, Tables, Traces, OneEntry, EntriesOk
<1>7. QED
  BY <1>1, <1>3, <1>4, <1>5, <1>6, IdleIsIdle, QuietRows

LEMMA WritesStep ==
  ASSUME IInv, NEW k \in Workers,
         WriteMetric(k) \/ WriteThreshold(k) \/ WritePort(k) \/ WriteAddress(k)
  PROVE  IInv'
<1>1. w[k] \in Busy
  BY AtBusy DEF WriteMetric, WriteThreshold, WritePort, WriteAddress, At, IInv, TablesTyped
<1>2. ports \subseteq Rows
  BY DEF IInv, TablesTyped
<1>3. CASE WriteMetric(k)
  <2>1. Filed(k) /\ Finish(k) /\ UNCHANGED <<rows, ports, dev, ifc, world>>
    BY <1>3 DEF WriteMetric, tables, caches
  <2>2. QED
    BY <1>1, <1>2, <2>1, WriteStep
<1>4. CASE WriteThreshold(k)
  <2>1. Filed(k) /\ Finish(k) /\ UNCHANGED <<rows, ports, dev, ifc, world>>
    BY <1>4 DEF WriteThreshold, tables, caches
  <2>2. QED
    BY <1>1, <1>2, <2>1, WriteStep
<1>5. CASE WritePort(k)
  <2>1. (Filed(k) \/ UNCHANGED strays) /\ Finish(k) /\ UNCHANGED <<rows, dev, world>>
    BY <1>5 DEF WritePort
  <2>2. ports' \subseteq Rows /\ ifc' \subseteq ifc \cup Rows
    BY <1>2, <1>5 DEF WritePort
  <2>3. QED
    BY <1>1, <2>1, <2>2, WriteStep
<1>6. CASE WriteAddress(k)
  <2>1. Filed(k) /\ Finish(k) /\ UNCHANGED <<rows, dev, ifc, world>>
    BY <1>6 DEF WriteAddress, caches
  <2>2. ports' \subseteq Rows
    BY <1>2, <1>6 DEF WriteAddress
  <2>3. QED
    BY <1>1, <2>1, <2>2, WriteStep
<1>7. QED
  BY <1>3, <1>4, <1>5, <1>6

LEMMA ExpireStep == ASSUME IInv, NEW n \in Names, Expire(n) PROVE IInv'
<1>1. PICK i \in Hits(n) : dev' = [dev EXCEPT ![i].late = TRUE]
  BY DEF Expire
<1>2. UNCHANGED <<rows, ports, ifc, w, world, strays>>
  BY DEF Expire, tables
<1>3. dev \in Seq(Entry) /\ i \in DOMAIN dev
  BY <1>1 DEF Hits, Entries, IInv, TablesTyped
<1>4. DOMAIN dev = 1..Len(dev) /\ Len(dev) \in Nat /\ \A j \in DOMAIN dev : dev[j] \in Entry
  BY <1>3, LenProperties, ElementOfSeq
<1>5. DOMAIN dev' = DOMAIN dev /\ \A j \in DOMAIN dev :
        dev'[j] \in Entry /\ dev'[j].key = dev[j].key /\ dev'[j].id = dev[j].id
  BY <1>1, <1>4 DEF Entry
<1>6. dev' \in Seq(Entry) /\ Len(dev') = Len(dev)
  <2>1. dev' = [j \in 1..Len(dev) |-> dev'[j]]
    BY <1>1, <1>3, <1>4
  <2>2. dev' \in Seq(Entry)
    BY <1>4, <1>5, <2>1, IsASeq
  <2>3. QED
    BY <1>4, <1>5, <2>2, LenProperties
<1>7. TablesTyped'
  BY <1>2, <1>6 DEF IInv, TablesTyped, Rows
<1>8. OneEntry' /\ GoneBounded' /\ strays' \subseteq SUBSET Boxes
  BY <1>2, <1>5 DEF IInv, WorldTyped, Tables, OneEntry, GoneBounded, Rows, world
<1>9. NoStrays'
  BY <1>2, LinkedStays DEF IInv, Traces, NoStrays, world
<1>10. \A j \in DOMAIN dev' : EntryOk(dev'[j])
  BY <1>5 DEF IInv, Traces, EntriesOk, EntryOk
<1>11. QED
  BY <1>2, <1>7, <1>8, <1>9, <1>10, QuietRows

LEMMA CachesStep ==
  ASSUME IInv, FlushCaches \/ \E i \in Ids : ExpirePort(i)
  PROVE  IInv'
<1>1. UNCHANGED <<rows, ports, w, world, strays>> /\ (UNCHANGED dev \/ dev' = <<>>) /\ ifc' \subseteq ifc
  BY DEF FlushCaches, ExpirePort, tables
<1>2. dev' \in Seq(Entry) /\ Len(dev') <= CacheCap /\ OneEntry' /\ \A j \in DOMAIN dev' : EntryOk(dev'[j])
  <2>1. CASE UNCHANGED dev
    BY <2>1 DEF IInv, TablesTyped, Tables, Traces, OneEntry, EntriesOk
  <2>2. CASE dev' = <<>>
    BY <2>2, InventoryAssumption DEF OneEntry
  <2>3. QED
    BY <1>1, <2>1, <2>2
<1>3. TablesTyped'
  BY <1>1, <1>2 DEF IInv, TablesTyped, Rows
<1>4. GoneBounded'
  <2>1. ifc' \ Rows \subseteq ifc \ Rows
    BY <1>1
  <2>2. QED
    BY <1>1, <2>1, GoneShrinks DEF GoneBounded, Rows, world
<1>5. NoStrays' /\ strays' \subseteq SUBSET Boxes
  BY <1>1, LinkedStays DEF IInv, WorldTyped, Traces, NoStrays, world
<1>6. QED
  BY <1>1, <1>2, <1>3, <1>4, <1>5, QuietRows

-----------------------------------------------------------------------------
(* Sizes: an id no table, cache or worker refers to is always left.        *)

LEMMA AtMostOne ==
  ASSUME NEW S, IsFiniteSet(S)
  PROVE  Cardinality(S) <= 1 <=> \A x, y \in S : x = y
<1>1. Cardinality(S) \in Nat
  BY FS_CardinalityType
<1>2. ASSUME Cardinality(S) <= 1 PROVE \A x, y \in S : x = y
  <2>1. Cardinality(S) = 0 \/ Cardinality(S) = 1
    BY <1>1, <1>2
  <2>2. S = {} \/ \E x : S = {x}
    BY <2>1, FS_EmptySet, FS_Singleton
  <2>3. QED
    BY <2>2
<1>3. ASSUME \A x, y \in S : x = y PROVE Cardinality(S) <= 1
  <2>1. S = {} \/ \E x : S = {x}
    BY <1>3
  <2>2. Cardinality(S) = 0 \/ Cardinality(S) = 1
    BY <2>1, FS_EmptySet, FS_Singleton
  <2>3. QED
    BY <2>2
<1>4. QED
  BY <1>2, <1>3

LEMMA UnionBound ==
  ASSUME NEW S, NEW T, IsFiniteSet(S), IsFiniteSet(T), NEW m \in Nat, NEW n \in Nat,
         Cardinality(S) <= m, Cardinality(T) <= n
  PROVE  IsFiniteSet(S \cup T) /\ Cardinality(S \cup T) <= m + n /\ Cardinality(S \cup T) \in Nat
<1>1. /\ IsFiniteSet(S \cup T)
      /\ Cardinality(S \cup T) = Cardinality(S) + Cardinality(T) - Cardinality(S \cap T)
  BY FS_Union
<1>2. IsFiniteSet(S \cap T)
  BY FS_Subset
<1>3. /\ Cardinality(S) \in Nat /\ Cardinality(T) \in Nat
      /\ Cardinality(S \cap T) \in Nat /\ Cardinality(S \cup T) \in Nat
  BY <1>1, <1>2, FS_CardinalityType
<1>4. QED
  BY <1>1, <1>3

\* The unique index: no more rows than names.
LEMMA RowsFew == ASSUME IInv PROVE IsFiniteSet(Rows) /\ Cardinality(Rows) <= Cardinality(Names)
<1> DEFINE f == [i \in Rows |-> rows[i].host]
<1>1. f \in [Rows -> Names] /\ \A i, j \in Rows : f[i] = f[j] => i = j
  BY DEF IInv, TablesTyped, Tables, OneName
<1> HIDE DEF f
<1>2. f \in Injection(Rows, Names)
  BY <1>1 DEF Injection, IsInjective
<1>3. QED
  BY <1>2, FS_Injection, InventoryAssumption

LEMMA EntriesFew ==
  ASSUME IInv
  PROVE  LET S == {dev[i].id : i \in DOMAIN dev} IN IsFiniteSet(S) /\ Cardinality(S) <= CacheCap
<1> DEFINE S == {dev[i].id : i \in DOMAIN dev}
           f == [i \in 1..Len(dev) |-> dev[i].id]
<1>1. DOMAIN dev = 1..Len(dev) /\ Len(dev) \in Nat /\ Len(dev) <= CacheCap /\ CacheCap \in Nat
  BY LenProperties, InventoryAssumption DEF IInv, TablesTyped
<1>2. f \in Surjection(1..Len(dev), S)
  BY <1>1 DEF Surjection
<1>3. IsFiniteSet(1..Len(dev)) /\ Cardinality(1..Len(dev)) = Len(dev)
  <2> DEFINE n == Len(dev)
  <2>1. n \in Nat
    BY <1>1
  <2> HIDE DEF n
  <2>2. 1 \in Int /\ n \in Int
    BY <2>1
  <2>3. IsFiniteSet(1..n) /\ Cardinality(1..n) = IF 1 > n THEN 0 ELSE n - 1 + 1
    BY <2>2, FS_Interval
  <2>4. QED
    BY <2>1, <2>3 DEF n
<1> HIDE DEF f, S
<1>4. IsFiniteSet(S) /\ Cardinality(S) <= Len(dev) /\ Cardinality(S) \in Nat
  BY <1>2, <1>3, FS_Surjection, FS_CardinalityType
<1>5. QED
  BY <1>1, <1>4 DEF S

LEMMA HeldFew ==
  LET S == {w[k].id : k \in Workers} IN IsFiniteSet(S) /\ Cardinality(S) <= Cardinality(Workers)
<1> DEFINE S == {w[k].id : k \in Workers}
           f == [k \in Workers |-> w[k].id]
<1>1. f \in Surjection(Workers, S)
  BY DEF Surjection
<1> HIDE DEF f, S
<1>2. IsFiniteSet(S) /\ Cardinality(S) <= Cardinality(Workers)
  BY <1>1, FS_Surjection, InventoryAssumption
<1>3. QED
  BY <1>2 DEF S

LEMMA UnusedThere == ASSUME IInv PROVE Unused # {}
<1> DEFINE n == Cardinality(Names)
           c == Cardinality(Workers)
           p == plan.wipes
           D == {dev[i].id : i \in DOMAIN dev}
           H == {w[k].id : k \in Workers}
           U == Rows \cup (ifc \ Rows) \cup D \cup H
<1>1. n \in Nat /\ c \in Nat /\ CacheCap \in Nat /\ IsFiniteSet(Ids)
  BY FS_CardinalityType, InventoryAssumption
<1>2. wipes \in Nat /\ p \in Nat /\ wipes <= p /\ Cardinality(Ids) > n * (p + 1) + CacheCap + c
  <2>1. plan \in Plans /\ wipes \in 0..p
    BY DEF IInv, WorldTyped
  <2>2. p \in Nat /\ Cardinality(Ids) > n * (p + 1) + CacheCap + c
    BY <2>1, InventoryAssumption
  <2> HIDE DEF p, n, c
  <2>3. wipes \in Nat /\ wipes <= p
    BY <2>1, <2>2
  <2>4. QED
    BY <2>2, <2>3
<1>3. n * wipes \in Nat /\ n * wipes <= n * p /\ n * (p + 1) = n * p + n /\ n * p \in Nat
  BY <1>1, <1>2
<1>4. IsFiniteSet(ifc \ Rows) /\ Cardinality(ifc \ Rows) <= n * wipes
  BY <1>1, FS_Subset DEF IInv, TablesTyped, Tables, GoneBounded
<1>5. IsFiniteSet(Rows) /\ Cardinality(Rows) <= n
  BY RowsFew
<1>6. IsFiniteSet(D) /\ Cardinality(D) <= CacheCap
  BY EntriesFew
<1>7. IsFiniteSet(H) /\ Cardinality(H) <= c
  BY HeldFew
<1>8. U = Rows \cup ifc \cup D \cup H
  OBVIOUS
<1> DEFINE m == n * wipes
<1> HIDE DEF n, c, p, D, H, m
<1>9. IsFiniteSet(Rows \cup (ifc \ Rows)) /\ Cardinality(Rows \cup (ifc \ Rows)) <= n + m
  BY <1>1, <1>3, <1>4, <1>5, UnionBound DEF m
<1>10. n + m \in Nat /\ n + m + CacheCap \in Nat
  BY <1>1, <1>3 DEF m
<1>11. IsFiniteSet(Rows \cup (ifc \ Rows) \cup D) /\ Cardinality(Rows \cup (ifc \ Rows) \cup D) <= n + m + CacheCap
  BY <1>1, <1>6, <1>9, <1>10, UnionBound
<1>12. IsFiniteSet(U) /\ Cardinality(U) <= n + m + CacheCap + c /\ Cardinality(U) \in Nat
  BY <1>1, <1>7, <1>10, <1>11, UnionBound
<1>13. ASSUME Ids \subseteq U PROVE FALSE
  <2>1. Cardinality(Ids) <= Cardinality(U) /\ Cardinality(Ids) \in Nat
    BY <1>1, <1>12, <1>13, FS_Subset, FS_CardinalityType
  <2> DEFINE q == n * p
             r == n * (p + 1)
             a == Cardinality(Ids)
             b == Cardinality(U)
  <2>2. m \in Nat /\ q \in Nat /\ m <= q /\ r = q + n
    BY <1>3 DEF m
  <2> HIDE DEF q, r, a, b, U
  <2>3. a > r + CacheCap + c /\ a <= b /\ b <= n + m + CacheCap + c /\ a \in Nat /\ b \in Nat
    BY <1>2, <1>12, <2>1 DEF q, r, a, b
  <2>4. QED
    BY <1>1, <2>2, <2>3
<1>14. QED
  BY <1>8, <1>13 DEF Unused, D, H

-----------------------------------------------------------------------------
(* Statements on the devices table.                                        *)

\* UpsertDevice returned: the worker has what it had.
LEMMA UpsertedOk ==
  ASSUME IInv, NEW k \in Workers, w[k] \in Busy, w[k].pc \in {"update", "insert"}, NEW ok, Upserted(k, ok)
  PROVE  \E s \in Busy \cup {Idle} :
           /\ w' = [w EXCEPT ![k] = s] /\ s.pc # "insert"
           /\ s \in Busy => WorkerOk(s) /\ s.id = w[k].id
<1>1. ~w[k].reg => w[k].id # None
  BY DEF IInv, Traces, WorkersOk, WorkerOk
<1>2. CASE ~w[k].reg
  <2>1. To(k, "write")
    BY <1>2 DEF Upserted
  <2>2. "write" \in BusyPcs
    BY DEF BusyPcs
  <2>3. QED
    BY <1>1, <1>2, <2>1, <2>2, ToOk
<1>3. CASE w[k].reg /\ ok
  <2>1. To(k, "again")
    BY <1>3 DEF Upserted
  <2>2. "again" \in BusyPcs
    BY DEF BusyPcs
  <2>3. QED
    BY <2>1, <2>2, ToOk
<1>4. CASE w[k].reg /\ ~ok
  <2>1. w' = [w EXCEPT ![k] = Idle]
    BY <1>4 DEF Upserted, Finish
  <2>2. QED
    BY <2>1, IdleIsIdle
<1>5. QED
  BY <1>2, <1>3, <1>4

\* Rows stay, with a box linked to the one they had; a new row has a fresh id; and a
\* lone box keeps its rows, or gets its first.
LEMMA RowsChange ==
  ASSUME IInv, UNCHANGED <<ports, dev, ifc, world, strays>>,
         NEW k \in Workers, NEW s \in Busy \cup {Idle}, w' = [w EXCEPT ![k] = s],
         s.pc # "insert", s \in Busy => WorkerOk(s) /\ s.id = w[k].id,
         Rows \subseteq Rows', Rows' \ Rows \subseteq Unused,
         \A i \in Rows' : rows'[i] \in [box : Boxes, host : Names] /\ rows'[i].box \in owners[rows'[i].host],
         \A i \in Rows : Linked(rows'[i].box, rows[i].box),
         OneName',
         \A b \in Boxes : Lone(b) =>
           RowsOf(b)' = RowsOf(b) \/ (RowsOf(b) = {} /\ \A i, j \in RowsOf(b)' : i = j)
  PROVE  IInv'
<1>1. UNCHANGED <<plan, name, owners, early, renames, wipes>>
  BY DEF world
<1>2. w' \in [Workers -> Busy \cup {Idle}] /\ w'[k] = s /\ \A h \in Workers : h # k => w'[h] = w[h]
  BY WorkerSet DEF IInv, TablesTyped
<1>3. WorldTyped'
  BY <1>1 DEF IInv, WorldTyped
<1>4. TablesTyped'
  <2>1. Rows' \subseteq Ids
    BY DEF IInv, TablesTyped, Unused
  <2>2. QED
    BY <1>2, <2>1 DEF IInv, TablesTyped
<1>5. OneEntry' /\ GoneBounded'
  <2>1. Cardinality(ifc \ Rows') <= Cardinality(Names) * wipes
    BY GoneShrinks
  <2>2. QED
    BY <1>1, <2>1 DEF IInv, Tables, OneEntry, GoneBounded
<1>6. NamesOwned' /\ NoStrays'
  BY <1>1, LinkedStays DEF IInv, Traces, NamesOwned, NoStrays
<1>7. ASSUME NEW id, NEW b, id \notin Unused, id \in Rows => Linked(rows[id].box, b)
      PROVE  (id \in Rows => Linked(rows[id].box, b))'
  <2> SUFFICES ASSUME id \in Rows' PROVE Linked(rows[id].box, b)'
    OBVIOUS
  <2>1. PICK c : c = rows'[id].box
    OBVIOUS
  <2>2. Linked(c, b)
    BY <1>7, <2>1, LinkedTrans
  <2>3. Linked(c, b)'
    BY <1>1, <2>2, LinkedStays
  <2>4. QED
    BY <2>1, <2>3
<1>8. WorkersOk'
  <2> SUFFICES ASSUME NEW h \in Workers, w'[h] \in Busy PROVE WorkerOk(w[h])'
    BY DEF WorkersOk
  <2>1. PICK t : t = w'[h]
    OBVIOUS
  <2>2. WorkerOk(t) /\ t.id = w[h].id
    BY <1>2, <2>1 DEF IInv, Traces, WorkersOk
  <2>3. t.id \notin Unused /\ (t.id \in Rows => Linked(rows[t.id].box, t.box))
    BY <2>2 DEF Unused, WorkerOk
  <2>4. (t.id \in Rows => Linked(rows[t.id].box, t.box))'
    BY <1>7, <2>3
  <2>5. WorkerOk(t)'
    BY <1>1, <2>2, <2>4 DEF WorkerOk
  <2>6. QED
    BY <2>1, <2>5
<1>9. EntriesOk'
  <2> SUFFICES ASSUME NEW i \in DOMAIN dev PROVE EntryOk(dev[i])'
    BY DEF EntriesOk
  <2>1. PICK e : e = dev[i]
    OBVIOUS
  <2>2. PICK b \in owners[e.key] : e.id \in Rows => Linked(rows[e.id].box, b)
    BY <2>1 DEF IInv, Traces, EntriesOk, EntryOk
  <2>3. e.id \notin Unused
    BY <2>1 DEF Unused
  <2>4. (e.id \in Rows => Linked(rows[e.id].box, b))'
    BY <1>7, <2>2, <2>3
  <2>5. EntryOk(e)'
    BY <1>1, <2>2, <2>4 DEF EntryOk
  <2>6. QED
    BY <2>1, <2>5
<1>10. \A b : Lone(b)' <=> Lone(b)
  BY <1>1 DEF Lone, Shared
<1>11. OneRow'
  BY <1>10 DEF IInv, Lonely, OneRow
<1>12. RowKept'
  <2> SUFFICES ASSUME NEW b \in Boxes, NEW m \in Names, NEW n \in Names,
                      Lone(b), m # n, b \in owners[m], b \in owners[n]
               PROVE  RowsOf(b)' # {} /\ \A h \in Workers : w'[h].box = b => w'[h].pc # "insert"
    BY <1>1, <1>10 DEF RowKept
  <2>1. RowsOf(b) # {} /\ \A h \in Workers : w[h].box = b => w[h].pc # "insert"
    BY DEF IInv, Lonely, RowKept
  <2>2. QED
    BY <1>2, <2>1
<1>13. QED
  BY <1>3, <1>4, <1>5, <1>6, <1>8, <1>9, <1>11, <1>12 DEF IInv, Tables, Traces, Lonely

LEMMA UpdateStep == ASSUME IInv, NEW k \in Workers, Update(k) PROVE IInv'
<1> DEFINE b == w[k].box
           n == w[k].name
           clash == Cardinality(RowsAt(b) \cup RowsNamed(n)) > 1
<1>1. /\ w[k] \in Busy /\ w[k].pc = "update" /\ UNCHANGED <<ports, dev, ifc, world, strays>>
  BY AtBusy DEF Update, At, caches, IInv, TablesTyped
<1>2. WorkerOk(w[k]) /\ b \in Boxes /\ n \in Names
  BY <1>1 DEF IInv, Traces, WorkersOk, Busy
<1>3. CASE RowsAt(b) = {}
  <2>1. To(k, "insert") /\ UNCHANGED rows
    BY <1>3 DEF Update
  <2>2. "insert" \in BusyPcs
    BY DEF BusyPcs
  <2>3. ~w[k].reg => w[k].id # None
    BY <1>1, <1>2 DEF WorkerOk
  <2>4. PICK s \in Busy : w' = [w EXCEPT ![k] = s] /\ s.box = b /\ WorkerOk(s)
    BY <1>1, <2>1, <2>2, <2>3, ToOk
  <2>5. QED
    BY <1>1, <1>3, <2>1, <2>4, WorkerOnly
<1>4. CASE RowsAt(b) # {} /\ clash
  <2>1. Upserted(k, FALSE) /\ UNCHANGED rows
    BY <1>4 DEF Update
  <2>2. PICK s \in Busy \cup {Idle} : w' = [w EXCEPT ![k] = s] /\ s.pc # "insert" /\ (s \in Busy => WorkerOk(s))
    BY <1>1, <2>1, UpsertedOk
  <2>3. QED
    BY <1>1, <2>1, <2>2, WorkerOnly
<1>5. CASE RowsAt(b) # {} /\ ~clash
  <2>1. Upserted(k, TRUE)
    BY <1>5 DEF Update
  <2>0. RowsAt(b) = RowsOf(b)
    BY <1>5 DEF RowsAt
  <2>2. rows' = [i \in Rows |-> IF i \in RowsOf(b) THEN [rows[i] EXCEPT !.host = n] ELSE rows[i]]
    BY <1>5, <2>0 DEF Update
  <2>3. PICK s \in Busy \cup {Idle} : /\ w' = [w EXCEPT ![k] = s] /\ s.pc # "insert"
                                      /\ s \in Busy => WorkerOk(s) /\ s.id = w[k].id
    BY <1>1, <2>1, UpsertedOk
  <2>4. \A i, j \in RowsOf(b) \cup RowsNamed(n) : i = j
    <3>1. RowsOf(b) \cup RowsNamed(n) \subseteq Ids
      BY DEF RowsOf, RowsNamed, IInv, TablesTyped
    <3>2. IsFiniteSet(RowsOf(b) \cup RowsNamed(n)) /\ Cardinality(RowsOf(b) \cup RowsNamed(n)) \in Nat
      BY <3>1, FS_Subset, FS_CardinalityType, InventoryAssumption
    <3>3. Cardinality(RowsOf(b) \cup RowsNamed(n)) <= 1
      BY <1>5, <2>0, <3>2
    <3>4. QED
      BY <3>2, <3>3, AtMostOne
  <2>5. /\ b \in owners[n]
        /\ \A i \in Rows : rows[i] \in [box : Boxes, host : Names] /\ rows[i].box \in owners[rows[i].host]
    BY <1>2 DEF WorkerOk, IInv, TablesTyped, Traces, NamesOwned
  <2> HIDE DEF b, n
  <2>6. Rows' = Rows /\ \A i \in Rows : rows'[i].box = rows[i].box
    BY <2>2, <2>5 DEF Rows
  <2>7. \A i \in Rows : \/ i \in RowsOf(b) /\ rows'[i] = [rows[i] EXCEPT !.host = n] /\ rows[i].box = b
                        \/ i \notin RowsOf(b) /\ rows'[i] = rows[i]
    BY <2>2 DEF RowsOf
  <2>8. \A i \in Rows : rows'[i] \in [box : Boxes, host : Names] /\ rows'[i].box \in owners[rows'[i].host]
    BY <1>2, <2>5, <2>7
  <2>9. OneName'
    <3> SUFFICES ASSUME NEW i \in Rows, NEW j \in Rows, rows'[i].host = rows'[j].host PROVE i = j
      BY <2>6 DEF OneName
    <3>1. \A l \in Rows : (l \in RowsOf(b) /\ rows'[l].host = n)
            \/ (l \notin RowsOf(b) /\ rows'[l].host = rows[l].host)
      BY <2>5, <2>7
    <3>2. \A l \in Rows : rows[l].host = n => l \in RowsNamed(n)
      BY DEF RowsNamed
    <3>3. QED
      BY <2>4, <3>1, <3>2 DEF IInv, Tables, OneName
  <2>10. \A c : RowsOf(c)' = RowsOf(c)
    BY <2>6 DEF RowsOf
  <2>11. \A i \in Rows : Linked(rows'[i].box, rows[i].box)
    BY <2>6, LinkedSame
  <2>12. QED
    BY <1>1, <2>3, <2>6, <2>8, <2>9, <2>10, <2>11, RowsChange
<1>6. QED
  BY <1>3, <1>4, <1>5

\* The row of the name is taken over; its box had the name, and is not a lone one.
\* A new row is the first of a lone box: one that was never renamed would have had a
\* row with its name, and no worker inserts for one that was.
LEMMA InsertStep == ASSUME IInv, NEW k \in Workers, Insert(k) PROVE IInv'
<1> DEFINE b == w[k].box
           n == w[k].name
           new == [box |-> b, host |-> n]
<1>1. /\ w[k] \in Busy /\ w[k].pc = "insert" /\ Upserted(k, TRUE) /\ UNCHANGED <<ports, dev, ifc, world, strays>>
  BY AtBusy DEF Insert, At, caches, IInv, TablesTyped
<1>2. b \in Boxes /\ n \in Names /\ b \in owners[n] /\ owners \in [Names -> SUBSET Boxes]
  BY <1>1 DEF IInv, WorldTyped, Traces, WorkersOk, WorkerOk, Busy
<1>3. PICK s \in Busy \cup {Idle} : /\ w' = [w EXCEPT ![k] = s] /\ s.pc # "insert"
                                    /\ s \in Busy => WorkerOk(s) /\ s.id = w[k].id
  BY <1>1, UpsertedOk
<1>4. PICK i : /\ rows' = [j \in Rows \cup {i} |-> IF j = i /\ ~Keeps(i, b) THEN new ELSE rows[j]]
               /\ i \in RowsNamed(n) \/ (RowsNamed(n) = {} /\ i \in Unused)
  <2>1. CASE RowsNamed(n) # {}
    <3>1. PICK i : RowsNamed(n) = {i}
      BY <2>1 DEF RowsNamed, IInv, Tables, OneName
    <3>2. rows' = [j \in Rows \cup {i} |-> IF j \in {i} /\ ~Keeps(j, b) THEN new ELSE rows[j]]
      BY <2>1, <3>1 DEF Insert
    <3>3. QED
      BY <3>1, <3>2
  <2>2. CASE RowsNamed(n) = {}
    <3>1. PICK i \in Unused : rows' = [j \in Rows \cup {i} |-> IF j \in {i} /\ ~Keeps(j, b) THEN new ELSE rows[j]]
      BY <2>2, UnusedThere DEF Insert
    <3>2. QED
      BY <2>2, <3>1
  <2>3. QED
    BY <2>1, <2>2
<1>5. CASE Keeps(i, b)
  <2>1. i \in Rows
    BY <1>5 DEF Keeps
  <2>2. Rows' = Rows /\ \A j \in Rows : rows'[j] = rows[j]
    BY <1>4, <1>5, <2>1 DEF Rows
  <2>3. OneName' /\ \A c : RowsOf(c)' = RowsOf(c)
    BY <2>2 DEF IInv, Tables, OneName, RowsOf
  <2>4. \A j \in Rows' : rows'[j] \in [box : Boxes, host : Names] /\ rows'[j].box \in owners[rows'[j].host]
    BY <2>2 DEF IInv, TablesTyped, Traces, NamesOwned
  <2>5. \A j \in Rows : Linked(rows'[j].box, rows[j].box)
    BY <2>2, LinkedSame
  <2>6. QED
    BY <1>1, <1>3, <2>2, <2>3, <2>4, <2>5, RowsChange
<1>6. CASE ~Keeps(i, b)
  <2> HIDE DEF b, n
  <2>1. Rows' = Rows \cup {i} /\ rows'[i] = new /\ \A j \in Rows : j # i => rows'[j] = rows[j]
    BY <1>4, <1>6 DEF Rows
  <2>2. i \notin Rows => i \in Unused
    BY <1>4 DEF RowsNamed
  <2>3. \A j \in Rows : /\ rows[j] \in [box : Boxes, host : Names] /\ rows[j].box \in owners[rows[j].host]
                        /\ rows[j].host = n => j = i
    BY <1>4 DEF IInv, TablesTyped, Tables, Traces, NamesOwned, OneName, RowsNamed
  <2>4. i \in Rows => rows[i].host = n
    BY <1>4 DEF RowsNamed, Unused
  <2>5. \A j \in Rows' : rows'[j] \in [box : Boxes, host : Names] /\ rows'[j].box \in owners[rows'[j].host]
    <3>1. new \in [box : Boxes, host : Names] /\ new.box \in owners[new.host]
      BY <1>2
    <3>2. QED
      BY <2>1, <2>3, <3>1
  <2>6. \A j \in Rows : Linked(rows'[j].box, rows[j].box)
    <3> SUFFICES ASSUME NEW j \in Rows PROVE Linked(rows'[j].box, rows[j].box)
      OBVIOUS
    <3>1. CASE j = i
      <4>1. rows'[j].box = b /\ rows[j].box \in owners[n]
        BY <2>1, <2>3, <2>4, <3>1
      <4>2. Linked(b, rows[j].box)
        BY <1>2, <4>1, OwnersLinked
      <4>3. QED
        BY <4>1, <4>2
    <3>2. CASE j # i
      BY <2>1, <3>2, LinkedSame
    <3>3. QED
      BY <3>1, <3>2
  <2>7. OneName'
    <3> SUFFICES ASSUME NEW j \in Rows', NEW l \in Rows', rows'[j].host = rows'[l].host PROVE j = l
      BY DEF OneName
    <3>1. new.host = n
      OBVIOUS
    <3> HIDE DEF new
    <3>2. CASE j = i
      BY <2>1, <2>3, <3>1, <3>2
    <3>3. CASE l = i
      BY <2>1, <2>3, <3>1, <3>3
    <3>4. CASE j # i /\ l # i
      BY <2>1, <3>4 DEF IInv, Tables, OneName
    <3>5. QED
      BY <3>2, <3>3, <3>4
  <2>8. ASSUME NEW c \in Boxes, Lone(c)
        PROVE  RowsOf(c)' = RowsOf(c) \/ (RowsOf(c) = {} /\ \A j, l \in RowsOf(c)' : j = l)
    <3>0. new.box = b
      OBVIOUS
    <3> HIDE DEF new
    <3>1. RowsOf(c)' = (RowsOf(c) \ {i}) \cup (IF c = b THEN {i} ELSE {})
      BY <2>1, <3>0 DEF RowsOf
    <3>2. CASE i \in Rows
      <4>1. rows[i].box \in owners[n] /\ rows[i].box \in Boxes
        BY <2>3, <2>4, <3>2
      <4>2. Shared({rows[i].box, b}) /\ Shared({b, rows[i].box})
        BY <1>2, <4>1 DEF Shared
      <4>3. c = b => rows[i].box = b
        BY <2>8, <4>1, <4>2 DEF Lone
      <4>4. rows[i].box = c => c = b
        BY <1>2, <2>8, <4>2 DEF Lone
      <4>5. i \in RowsOf(c) <=> c = b
        BY <3>2, <4>3, <4>4 DEF RowsOf
      <4>6. QED
        BY <3>1, <4>5
    <3>3. CASE i \notin Rows /\ c # b
      BY <3>1, <3>3 DEF RowsOf
    <3>4. CASE i \notin Rows /\ c = b
      <4>1. RowsNamed(n) = {}
        BY <1>4, <3>4 DEF RowsNamed
      <4>2. ASSUME NEW j \in RowsOf(c) PROVE FALSE
        <5>1. j \in Rows /\ rows[j].box = b
          BY <3>4, <4>2 DEF RowsOf
        <5>2. rows[j].host # n /\ rows[j].host \in Names /\ b \in owners[rows[j].host]
          BY <2>3, <4>1, <5>1 DEF RowsNamed
        <5>3. w[k].pc # "insert"
          <6>1. Lone(b) /\ b \in Boxes
            BY <2>8, <3>4
          <6>2. \A h \in Workers : w[h].box = b => w[h].pc # "insert"
            BY <1>2, <5>2, <6>1 DEF IInv, Lonely, RowKept
          <6>3. QED
            BY <6>2 DEF b
        <5>4. QED
          BY <1>1, <5>3
      <4>3. RowsOf(c) = {}
        BY <4>2
      <4>4. QED
        BY <3>1, <4>3
    <3>5. QED
      BY <3>2, <3>3, <3>4
  <2>9. Rows \subseteq Rows' /\ Rows' \ Rows \subseteq Unused
    BY <2>1, <2>2
  <2> HIDE DEF new
  <2>10. QED
    BY <1>1, <1>3, <2>5, <2>6, <2>7, <2>8, <2>9, RowsChange
<1>7. QED
  BY <1>5, <1>6

-----------------------------------------------------------------------------
(* The boxes and the operator.                                             *)

\* Names are only added to the owners; a lone box that gets one has its row already.
LEMMA RenameStep == ASSUME IInv, NEW f \in ToSet(plan.renames), Rename(f) PROVE IInv'
<1>1. /\ UNCHANGED <<plan, rows, ports, dev, ifc, w, strays, wipes>>
      /\ renames < Len(plan.renames) /\ renames' = renames + 1
      /\ name' = [b \in Boxes |-> IF b \in DOMAIN f THEN f[b] ELSE name[b]]
      /\ owners' = [n \in Names |-> owners[n] \cup {b \in DOMAIN f : f[b] = n}]
      /\ early' = early \cup {b \in DOMAIN f : RowsOf(b) = {} \/ \E k \in Workers : At(k, "insert") /\ w[k].box = b}
  BY DEF Rename, tables, caches
<1>2. plan \in Plans /\ renames \in 0..Len(plan.renames) /\ owners \in [Names -> SUBSET Boxes]
        /\ name \in [Boxes -> Names]
  BY DEF IInv, WorldTyped
<1>3. PICK bs \in SUBSET Boxes : f \in [bs -> Names]
  <2> DEFINE T == UNION {[bs -> Names] : bs \in SUBSET plan.boxes}
  <2>1. plan.boxes \subseteq Boxes /\ plan.renames \in Seq(T)
    BY <1>2, InventoryAssumption
  <2> HIDE DEF T
  <2>2. PICK j \in DOMAIN plan.renames : f = plan.renames[j]
    BY DEF ToSet
  <2>3. j \in 1..Len(plan.renames)
    BY <2>1, <2>2, LenProperties
  <2>4. f \in T
    BY <2>1, <2>2, <2>3, ElementOfSeq
  <2>5. QED
    BY <2>1, <2>4 DEF T
<1>4. \A n \in Names : owners[n] \subseteq owners'[n] /\ owners'[n] \subseteq owners[n] \cup bs
  BY <1>1, <1>3
<1>5. WorldTyped'
  <2>1. renames' \in 0..Len(plan'.renames)
    <3> DEFINE m == Len(plan.renames)
    <3>1. m \in Nat
      <4>1. plan.renames \in Seq(UNION {[c -> Names] : c \in SUBSET plan.boxes})
        BY <1>2, InventoryAssumption
      <4>2. QED
        BY <4>1, LenProperties
    <3>2. renames \in 0..m /\ renames < m /\ renames' = renames + 1 /\ m = Len(plan'.renames)
      BY <1>1, <1>2
    <3> HIDE DEF m
    <3>3. renames' \in 0..m
      BY <3>1, <3>2
    <3>4. QED
      BY <3>2, <3>3
  <2>2. name' \in [Boxes -> Names]
    BY <1>1, <1>2, <1>3
  <2>3. owners' \in [Names -> SUBSET Boxes]
    BY <1>1, <1>2, <1>3
  <2>4. early' \subseteq Boxes
    BY <1>1, <1>3 DEF IInv, WorldTyped
  <2>5. QED
    BY <1>1, <2>1, <2>2, <2>3, <2>4 DEF IInv, WorldTyped
<1>6. TablesTyped' /\ OneName' /\ OneEntry' /\ GoneBounded'
  BY <1>1 DEF IInv, TablesTyped, Tables, OneName, OneEntry, GoneBounded, Rows
<1>7. NamesOwned'
  <2>1. ASSUME NEW b \in Boxes PROVE b \in owners'[name'[b]]
    <3>1. CASE b \in DOMAIN f
      <4>1. name'[b] = f[b] /\ f[b] \in Names
        BY <1>1, <1>3, <3>1
      <4>2. b \in owners'[f[b]]
        BY <1>1, <3>1, <4>1
      <4>3. QED
        BY <4>1, <4>2
    <3>2. CASE b \notin DOMAIN f
      BY <1>1, <1>2, <1>4, <3>2 DEF IInv, Traces, NamesOwned
    <3>3. QED
      BY <3>1, <3>2
  <2>2. \A i \in Rows : rows[i].box \in owners'[rows[i].host]
    BY <1>4 DEF IInv, TablesTyped, Traces, NamesOwned
  <2>3. QED
    BY <1>1, <2>1, <2>2 DEF NamesOwned, Rows
<1>8. \A a, b : Linked(a, b) => Linked(a, b)'
  BY <1>4, LinkedGrows
<1>9. WorkersOk'
  <2> SUFFICES ASSUME NEW h \in Workers, w[h] \in Busy PROVE WorkerOk(w[h])'
    BY <1>1 DEF WorkersOk
  <2>1. PICK t : t = w[h]
    OBVIOUS
  <2>2. WorkerOk(t) /\ t.name \in Names
    BY <2>1 DEF IInv, Traces, WorkersOk, Busy
  <2>3. WorkerOk(t)'
    BY <1>1, <1>4, <1>8, <2>2 DEF WorkerOk, Rows
  <2>4. QED
    BY <1>1, <2>1, <2>3
<1>10. EntriesOk'
  <2> SUFFICES ASSUME NEW i \in DOMAIN dev PROVE EntryOk(dev[i])'
    BY <1>1 DEF EntriesOk
  <2>1. PICK e : e = dev[i]
    OBVIOUS
  <2>2. e.key \in Names
    <3>1. dev \in Seq(Entry)
      BY DEF IInv, TablesTyped
    <3>2. i \in 1..Len(dev)
      BY <3>1, LenProperties
    <3>3. e \in Entry
      BY <2>1, <3>1, <3>2, ElementOfSeq
    <3>4. QED
      BY <3>3 DEF Entry
  <2>3. PICK b \in owners[e.key] : e.id \in Rows => Linked(rows[e.id].box, b)
    BY <2>1 DEF IInv, Traces, EntriesOk, EntryOk
  <2>4. EntryOk(e)'
    BY <1>1, <1>4, <1>8, <2>2, <2>3 DEF EntryOk, Rows
  <2>5. QED
    BY <1>1, <2>1, <2>4
<1>11. NoStrays'
  BY <1>1, <1>8 DEF IInv, Traces, NoStrays
<1>12. \A b : (Lone(b)' => Lone(b)) /\ RowsOf(b)' = RowsOf(b)
  <2>1. \A c, d : Shared({c, d}) => Shared({c, d})'
    BY <1>4 DEF Shared
  <2>2. QED
    BY <1>1, <2>1 DEF Lone, RowsOf, Rows
<1>13. OneRow'
  BY <1>12 DEF IInv, Lonely, OneRow
<1>14. RowKept'
  <2> SUFFICES ASSUME NEW b \in Boxes, NEW m \in Names, NEW n \in Names,
                      Lone(b)', m # n, b \in owners'[m], b \in owners'[n]
               PROVE  RowsOf(b) # {} /\ \A k \in Workers : w[k].box = b => w[k].pc # "insert"
    BY <1>1, <1>12 DEF RowKept
  <2>1. CASE b \in DOMAIN f
    <3>1. b \notin early'
      BY DEF Lone
    <3>2. QED
      BY <1>1, <2>1, <3>1 DEF At
  <2>2. CASE b \notin DOMAIN f
    <3>1. b \in owners[m] /\ b \in owners[n]
      BY <1>1, <2>2
    <3>2. QED
      BY <1>12, <3>1 DEF IInv, Lonely, RowKept
  <2>3. QED
    BY <2>1, <2>2
<1>15. QED
  BY <1>5, <1>6, <1>7, <1>9, <1>10, <1>11, <1>13, <1>14 DEF IInv, Tables, Traces, Lonely

\* Nothing refers to a row any more, and a box with two names is not a lone one.
LEMMA WipeStep == ASSUME IInv, Wipe PROVE IInv'
<1>1. /\ UNCHANGED <<plan, dev, ifc, w, name, owners, strays, renames>>
      /\ ports' = {} /\ wipes < plan.wipes /\ wipes' = wipes + 1
      /\ early' = early \cup {b \in Boxes : Cardinality({n \in Names : b \in owners[n]}) > 1}
  BY DEF Wipe, caches
<1>2. Rows' = {}
  <2>1. rows' = <<>>
    BY DEF Wipe
  <2>2. QED
    BY <2>1 DEF Rows
<1>3. plan.wipes \in Nat /\ wipes \in Nat
  <2>1. plan \in Plans /\ wipes \in 0..plan.wipes
    BY DEF IInv, WorldTyped
  <2>2. plan.wipes \in Nat
    BY <2>1, InventoryAssumption
  <2>3. QED
    BY <2>1, <2>2
<1>4. WorldTyped'
  <2>1. wipes' \in 0..plan'.wipes
    BY <1>1, <1>3
  <2>2. QED
    BY <1>1, <2>1 DEF IInv, WorldTyped
<1>5. TablesTyped' /\ OneName' /\ OneEntry'
  BY <1>1, <1>2 DEF IInv, TablesTyped, Tables, OneName, OneEntry
<1>6. GoneBounded'
  <2> DEFINE n == Cardinality(Names)
             m == n * wipes
  <2>1. n \in Nat
    BY FS_CardinalityType, InventoryAssumption
  <2>2. m \in Nat /\ m + n = n * (wipes + 1)
    BY <1>3, <2>1
  <2>3. IsFiniteSet(ifc) /\ IsFiniteSet(ifc \ Rows)
    BY FS_Subset, InventoryAssumption DEF IInv, TablesTyped
  <2>4. IsFiniteSet(Rows) /\ Cardinality(Rows) <= n
    BY RowsFew
  <2>5. Cardinality(ifc \ Rows) <= m
    BY DEF IInv, Tables, GoneBounded
  <2> HIDE DEF n, m
  <2>6. IsFiniteSet((ifc \ Rows) \cup Rows) /\ Cardinality((ifc \ Rows) \cup Rows) <= m + n
          /\ Cardinality((ifc \ Rows) \cup Rows) \in Nat
    BY <2>1, <2>2, <2>3, <2>4, <2>5, UnionBound
  <2>7. Cardinality(ifc) <= Cardinality((ifc \ Rows) \cup Rows) /\ Cardinality(ifc) \in Nat
    BY <2>3, <2>6, FS_Subset, FS_CardinalityType
  <2>8. Cardinality(ifc) <= n * (wipes + 1)
    BY <2>1, <2>2, <2>6, <2>7
  <2>9. ifc' \ Rows' = ifc
    BY <1>1, <1>2
  <2>10. QED
    BY <1>1, <2>8, <2>9 DEF GoneBounded, n
<1>7. NamesOwned' /\ NoStrays'
  <2>1. \A b \in Boxes : b \in owners'[name'[b]]
    BY <1>1 DEF IInv, Traces, NamesOwned
  <2>2. NamesOwned'
    BY <1>2, <2>1 DEF NamesOwned
  <2>3. QED
    BY <1>1, <2>2, LinkedStays DEF IInv, Traces, NoStrays
<1>8. WorkersOk' /\ EntriesOk'
  <2>1. \A s : WorkerOk(s) => WorkerOk(s)'
    BY <1>1, <1>2 DEF WorkerOk
  <2>2. \A e : EntryOk(e) => EntryOk(e)'
    BY <1>1, <1>2 DEF EntryOk
  <2>3. WorkersOk'
    <3> SUFFICES ASSUME NEW h \in Workers, w[h] \in Busy PROVE WorkerOk(w[h])'
      BY <1>1 DEF WorkersOk
    <3>1. PICK t : t = w[h] /\ WorkerOk(t)
      BY DEF IInv, Traces, WorkersOk
    <3>2. QED
      BY <1>1, <2>1, <3>1
  <2>4. EntriesOk'
    <3> SUFFICES ASSUME NEW i \in DOMAIN dev PROVE EntryOk(dev[i])'
      BY <1>1 DEF EntriesOk
    <3>1. PICK e : e = dev[i] /\ EntryOk(e)
      BY DEF IInv, Traces, EntriesOk
    <3>2. QED
      BY <1>1, <2>2, <3>1
  <2>5. QED
    BY <2>3, <2>4
<1>9. OneRow'
  BY <1>2 DEF OneRow, RowsOf
<1>10. RowKept'
  <2>1. ASSUME NEW b \in Boxes, NEW m \in Names, NEW n \in Names, m # n, b \in owners[m], b \in owners[n]
        PROVE  b \in early'
    <3> DEFINE S == {l \in Names : b \in owners[l]}
    <3>1. m \in S /\ n \in S
      BY <2>1
    <3>2. IsFiniteSet(S) /\ Cardinality(S) \in Nat
      BY FS_Subset, FS_CardinalityType, InventoryAssumption
    <3>3. ~(Cardinality(S) <= 1)
      BY <2>1, <3>1, <3>2, AtMostOne
    <3>4. Cardinality(S) > 1
      BY <3>2, <3>3
    <3>5. QED
      BY <1>1, <3>4
  <2>2. QED
    BY <1>1, <2>1 DEF RowKept, Lone
<1>11. QED
  BY <1>4, <1>5, <1>6, <1>7, <1>8, <1>9, <1>10 DEF IInv, Tables, Traces, Lonely

-----------------------------------------------------------------------------
(* The theorems.                                                           *)

LEMMA InitHolds == ASSUME Init PROVE IInv
<1>1. /\ plan \in Plans /\ name = FirstName /\ rows = <<>> /\ ports = {} /\ dev = <<>> /\ ifc = {}
      /\ w = [k \in Workers |-> Idle] /\ owners = [n \in Names |-> {b \in Boxes : FirstName[b] = n}]
      /\ early = {} /\ strays = {} /\ renames = 0 /\ wipes = 0
  BY DEF Init
<1>2. Rows = {} /\ DOMAIN dev = {} /\ dev \in Seq(Entry) /\ Len(dev) = 0
  BY <1>1 DEF Rows
<1>3. FirstName \in [Boxes -> Names] /\ CacheCap \in Nat
  BY InventoryAssumption
<1>4. WorldTyped
  <2>1. Len(plan.renames) \in Nat
    <3>1. plan.renames \in Seq(UNION {[c -> Names] : c \in SUBSET plan.boxes})
      BY <1>1, InventoryAssumption
    <3>2. QED
      BY <3>1, LenProperties
  <2>2. plan.wipes \in Nat
    BY <1>1, InventoryAssumption
  <2>3. renames \in 0..Len(plan.renames) /\ wipes \in 0..plan.wipes
    BY <1>1, <2>1, <2>2
  <2>4. owners \in [Names -> SUBSET Boxes]
    BY <1>1
  <2>5. QED
    BY <1>1, <1>3, <2>3, <2>4 DEF WorldTyped
<1>5. TablesTyped
  BY <1>1, <1>2, <1>3 DEF TablesTyped
<1>6. Tables
  <2>1. Cardinality({}) = 0 /\ Cardinality(Names) \in Nat
    BY FS_EmptySet, FS_CardinalityType, InventoryAssumption
  <2>2. GoneBounded
    <3>1. ifc \ Rows = {}
      BY <1>1
    <3>2. Cardinality(Names) * wipes = 0
      BY <1>1, <2>1
    <3>3. Cardinality(ifc \ Rows) = 0
      BY Zenon, <2>1, <3>1
    <3>4. QED
      BY <3>2, <3>3 DEF GoneBounded
  <2>3. QED
    BY <1>2, <2>2 DEF Tables, OneName, OneEntry
<1>7. Traces
  <2>1. \A b \in Boxes : b \in owners[name[b]]
    BY <1>1, <1>3
  <2>2. QED
    BY <1>1, <1>2, <2>1, IdleIsIdle DEF Traces, NamesOwned, WorkersOk, EntriesOk, NoStrays
<1>8. Lonely
  <2>1. \A b \in Boxes : \A m, n \in Names : b \in owners[m] /\ b \in owners[n] => m = n
    BY <1>1
  <2>2. QED
    BY <1>2, <2>1 DEF Lonely, OneRow, RowKept, RowsOf
<1>9. QED
  BY <1>4, <1>5, <1>6, <1>7, <1>8 DEF IInv

LEMMA NextHolds == ASSUME IInv, [Next]_vars PROVE IInv'
<1>1. CASE UNCHANGED vars
  <2>1. UNCHANGED <<rows, ports, dev, ifc, w, world, strays>>
    BY <1>1 DEF vars, world
  <2>2. TablesTyped' /\ OneEntry' /\ GoneBounded' /\ strays' \subseteq SUBSET Boxes
    BY <2>1 DEF IInv, WorldTyped, TablesTyped, Tables, OneEntry, GoneBounded, Rows, world
  <2>3. NoStrays'
    BY <2>1, LinkedStays DEF IInv, Traces, NoStrays, world
  <2>4. \A j \in DOMAIN dev' : EntryOk(dev'[j])
    BY <2>1 DEF IInv, Traces, EntriesOk
  <2>5. QED
    BY <2>1, <2>2, <2>3, <2>4, QuietRows
<1>2. CASE \E k \in Workers : Work(k)
  <2> SUFFICES ASSUME NEW k \in Workers, Work(k) PROVE IInv'
    BY <1>2
  <2>1. CASE Get(k)
    BY <2>1, GetStep
  <2>2. CASE PutId(k)
    BY <2>2, PutIdStep
  <2>3. CASE Update(k)
    BY <2>3, UpdateStep
  <2>4. CASE Insert(k)
    BY <2>4, InsertStep
  <2>5. CASE Again(k)
    BY <2>5, AgainStep
  <2>6. CASE ByIp(k)
    BY <2>6, ByIpStep
  <2>7. CASE WriteMetric(k) \/ WriteThreshold(k) \/ WritePort(k) \/ WriteAddress(k)
    BY <2>7, WritesStep
  <2>8. QED
    BY <2>1, <2>2, <2>3, <2>4, <2>5, <2>6, <2>7 DEF Work
<1>3. CASE \E k \in Workers, b \in Boxes, kind \in Kinds : Take(k, b, kind)
  BY <1>3, TakeStep
<1>4. CASE \E n \in Names : Expire(n)
  BY <1>4, ExpireStep
<1>5. CASE FlushCaches \/ \E i \in Ids : ExpirePort(i)
  BY <1>5, CachesStep
<1>6. CASE \E f \in ToSet(plan.renames) : Rename(f)
  BY <1>6, RenameStep
<1>7. CASE Wipe
  BY <1>7, WipeStep
<1>8. QED
  BY <1>1, <1>2, <1>3, <1>4, <1>5, <1>6, <1>7 DEF Next

LEMMA Inductive == Spec => []IInv
<1>1. Init => IInv
  BY InitHolds
<1>2. IInv /\ [Next]_vars => IInv'
  BY NextHolds
<1>3. QED
  BY <1>1, <1>2, PTL DEF Spec

LEMMA TypeHolds == ASSUME IInv PROVE TypeOK
<1>1. \A n \in Names : Cardinality(RowsNamed(n)) <= 1
  <2> SUFFICES ASSUME NEW n \in Names PROVE Cardinality(RowsNamed(n)) <= 1
    OBVIOUS
  <2>1. IsFiniteSet(RowsNamed(n))
    <3>1. RowsNamed(n) \subseteq Rows
      BY DEF RowsNamed
    <3>2. QED
      BY <3>1, RowsFew, FS_Subset
  <2>2. \A i, j \in RowsNamed(n) : i = j
    BY DEF RowsNamed, IInv, Tables, OneName
  <2>3. QED
    BY <2>1, <2>2, AtMostOne
<1>2. DOMAIN dev = 1..Len(dev) /\ Len(dev) \in Nat /\ \A i \in DOMAIN dev : dev[i] \in Entry
  BY LenProperties, ElementOfSeq DEF IInv, TablesTyped
<1>3. \A n \in Names : Cardinality(Entries(n)) <= 1
  <2> SUFFICES ASSUME NEW n \in Names PROVE Cardinality(Entries(n)) <= 1
    OBVIOUS
  <2>1. IsFiniteSet(Entries(n))
    <3> DEFINE m == Len(dev)
    <3>1. m \in Nat /\ Entries(n) \subseteq 1..m
      BY <1>2 DEF Entries
    <3> HIDE DEF m
    <3>2. 1 \in Int /\ m \in Int
      BY <3>1
    <3>3. IsFiniteSet(1..m)
      BY <3>2, FS_Interval
    <3>4. QED
      BY <3>1, <3>3, FS_Subset
  <2>2. \A i, j \in Entries(n) : i = j
    BY DEF Entries, IInv, Tables, OneEntry
  <2>3. QED
    BY <2>1, <2>2, AtMostOne
<1>4. \A k \in Workers : w[k] = Idle \/ w[k] \in Busy
  BY DEF IInv, TablesTyped
<1>5. \A k \in Workers : w[k].pc \in {"put", "write"} /\ ~w[k].reg => w[k].id # None
  <2> SUFFICES ASSUME NEW k \in Workers, w[k].pc \in {"put", "write"} PROVE w[k].id # None
    OBVIOUS
  <2>1. w[k] \in Busy
    BY <1>4, IdleIsIdle
  <2>2. QED
    BY <2>1 DEF IInv, Traces, WorkersOk, WorkerOk
<1>6. QED
  BY <1>1, <1>2, <1>3, <1>4, <1>5, UnusedThere
  DEF TypeOK, IInv, WorldTyped, TablesTyped, Entry, Busy, BusyPcs

LEMMA OneRowHolds == ASSUME IInv PROVE OneRowPerBox
<1> SUFFICES ASSUME NEW b \in Boxes, Lone(b) \/ (b \in Addressless /\ ~Unknowable(b))
             PROVE  ~(Cardinality(RowsOf(b)) > 1)
  BY DEF OneRowPerBox, Lone
<1>1. RowsOf(b) \subseteq Rows
  BY DEF RowsOf
<1>2. IsFiniteSet(RowsOf(b)) /\ Cardinality(RowsOf(b)) \in Nat
  BY <1>1, RowsFew, FS_Subset, FS_CardinalityType
<1>3. \A i, j \in RowsOf(b) : i = j
  <2>1. CASE Lone(b)
    BY <2>1 DEF IInv, Lonely, OneRow
  <2>2. CASE b \in Addressless /\ ~Unknowable(b)
    <3> SUFFICES ASSUME NEW i \in RowsOf(b), NEW j \in RowsOf(b) PROVE i = j
      OBVIOUS
    <3>1. /\ i \in Rows /\ rows[i].host \in Names /\ b \in owners[rows[i].host]
          /\ j \in Rows /\ rows[j].host \in Names /\ b \in owners[rows[j].host]
      BY DEF RowsOf, IInv, TablesTyped, Traces, NamesOwned
    <3>2. rows[i].host = rows[j].host
      BY <2>2, <3>1 DEF Unknowable
    <3>3. QED
      BY <3>1, <3>2 DEF IInv, Tables, OneName
  <2>3. QED
    BY <2>1, <2>2
<1>4. Cardinality(RowsOf(b)) <= 1
  BY <1>2, <1>3, AtMostOne
<1>5. QED
  BY <1>2, <1>4

\* However many workers interleave their statements on the devices table, whatever the
\* cache returns, evicts or lets expire, and whenever the operator empties the table:
\* the tables and the cache stay well formed, and a box has two rows only if it was
\* renamed before its first row was inserted or shares a name with another box
\* (worker.go lookupOrRegister, cache.go, timescale.go UpsertDevice).
THEOREM InventoryRowsSound == Spec => []RowsSound
<1>1. IInv => RowsSound
  BY TypeHolds, OneRowHolds DEF RowsSound
<1>2. QED
  BY <1>1, Inductive, PTL

\* What a box sends is stored under the row of another box only along a chain of
\* boxes that had a name in common: an id found in the cache or in the table, held
\* for any time by a worker, leads to the packet's box or to one so linked to it
\* (worker.go lookupOrRegister and what its callers write under the id).
THEOREM InventoryNoStrays == Spec => []NoStrays
<1>1. IInv => NoStrays
  BY DEF IInv, Traces
<1>2. QED
  BY <1>1, Inductive, PTL

-----------------------------------------------------------------------------
(* Topology.  The inductive invariant.                                     *)

Trap     == [dev : Devices, port : Port, down : BOOLEAN, nr : 0 .. MaxFaults]
Job      == [trap : Trap, row : Links, step : {"set", "tell"}]
RunSteps == {"idle", "net", "edges", "reset", "up", "down", "classify", "roles"}

TableTyped ==
  /\ known \subseteq Devices /\ cycle \in 0 .. (Warmup + Reassert)
  /\ sent \subseteq Links /\ linkRows \subseteq Links /\ off \subseteq linkRows
  /\ \A l \in linkRows : Pair(l) \subseteq known
  /\ relation \in [Links -> {"peer", "uplink", "downlink"}]
  /\ cut \subseteq Cables /\ reported \subseteq Cables /\ faults \in 0 .. MaxFaults

TrapsTyped ==
  /\ traps \subseteq Trap /\ jobs \subseteq Job /\ IsFiniteSet(jobs) /\ Cardinality(jobs) <= NWorkers
  /\ \A j \in jobs : j.row \in linkRows

\* A trap is on its way or with one worker, and the next cut makes others.
TrapsOnce ==
  /\ \A t \in traps : t.nr < faults /\ \A j \in jobs : j.trap # t
  /\ \A j \in jobs : j.trap.nr < faults
  /\ \A j, k \in jobs : j.trap = k.trap => j = k

\* Traps come from ends of cables that were cut or mended, and the worker's row is a
\* report of that cable.
TrapsReported ==
  /\ \A t \in traps : \E c \in reported : <<t.dev, t.port>> \in c
  /\ \A j \in jobs : j.row.layer = "network" /\ \E c \in reported : Between(c) = Pair(j.row)

\* What the runner does once it has the networks.
RunTyped ==
  /\ run = Stopped \/ ( /\ run = [x \in DOMAIN run |-> run[x]] /\ {"step", "left"} \subseteq DOMAIN run
                        /\ run.step \in RunSteps /\ run.left \subseteq Nets )
  /\ overridden \subseteq Admins /\ fresh \subseteq Nets

LinksInv == TableTyped /\ TrapsTyped /\ TrapsOnce /\ TrapsReported /\ OnlyCutIsOff /\ OneEventPerTurn

TopologyIInv == LinksInv /\ RunTyped

-----------------------------------------------------------------------------
(* Jobs that tell.                                                         *)

Tell(J) == {j \in J : j.step = "tell"}

LEMMA TellAdded ==
  ASSUME NEW J, IsFiniteSet(J), NEW j, j \notin J
  PROVE  /\ IsFiniteSet(J \cup {j}) /\ Cardinality(J \cup {j}) = Cardinality(J) + 1
         /\ Cardinality(Tell(J \cup {j})) = Cardinality(Tell(J)) + (IF j.step = "tell" THEN 1 ELSE 0)
         /\ Cardinality(Tell(J)) \in Nat /\ Cardinality(J) \in Nat
<1>1. IsFiniteSet(J \cup {j}) /\ Cardinality(J \cup {j}) = Cardinality(J) + 1
  BY FS_AddElement
<1>2. IsFiniteSet(Tell(J)) /\ j \notin Tell(J)
  BY FS_Subset DEF Tell
<1>3. Cardinality(Tell(J)) \in Nat /\ Cardinality(J) \in Nat
  BY <1>2, FS_CardinalityType
<1>4. CASE j.step = "tell"
  <2>1. Tell(J \cup {j}) = Tell(J) \cup {j}
    BY <1>4 DEF Tell
  <2>2. Cardinality(Tell(J) \cup {j}) = Cardinality(Tell(J)) + 1
    BY <1>2, FS_AddElement
  <2>3. QED
    BY <1>1, <1>3, <1>4, <2>1, <2>2
<1>5. CASE j.step # "tell"
  <2>1. Tell(J \cup {j}) = Tell(J)
    BY <1>5 DEF Tell
  <2>2. QED
    BY <1>1, <1>3, <1>5, <2>1
<1>6. QED
  BY <1>4, <1>5

LEMMA TellRemoved ==
  ASSUME NEW J, IsFiniteSet(J), NEW j \in J
  PROVE  /\ IsFiniteSet(J \ {j}) /\ Cardinality(J \ {j}) = Cardinality(J) - 1
         /\ Cardinality(Tell(J \ {j})) = Cardinality(Tell(J)) - (IF j.step = "tell" THEN 1 ELSE 0)
         /\ Cardinality(Tell(J)) \in Nat /\ Cardinality(J) \in Nat
<1> DEFINE I == J \ {j}
<1>1. IsFiniteSet(I) /\ j \notin I /\ I \cup {j} = J
  BY FS_RemoveElement
<1> HIDE DEF I
<1>2. /\ Cardinality(J) = Cardinality(I) + 1
      /\ Cardinality(Tell(J)) = Cardinality(Tell(I)) + (IF j.step = "tell" THEN 1 ELSE 0)
      /\ Cardinality(Tell(I)) \in Nat /\ Cardinality(I) \in Nat
  BY <1>1, TellAdded
<1>3. QED
  BY <1>1, <1>2 DEF I

-----------------------------------------------------------------------------
(* Reports.                                                                *)

LEMMA FaultsGrow ==
  ASSUME TableTyped, UNCHANGED faults \/ Fault
  PROVE  faults' \in 0 .. MaxFaults /\ faults \in Nat /\ faults <= faults'
<1>1. faults \in 0 .. MaxFaults /\ MaxFaults \in Nat
  BY LinksAssumption DEF TableTyped
<1>2. QED
  BY <1>1 DEF Fault

\* What changes only the tables of devices and links keeps the rest.
LEMMA TablesOnly ==
  ASSUME LinksInv, TableTyped', linkRows \subseteq linkRows', UNCHANGED faults \/ Fault,
         UNCHANGED <<off, traps, jobs, untold, reported>>
  PROVE  LinksInv'
<1>1. faults' \in 0 .. MaxFaults /\ faults \in Nat /\ faults <= faults' /\ MaxFaults \in Nat
  BY FaultsGrow, LinksAssumption DEF LinksInv
<1>2. TrapsTyped'
  BY DEF LinksInv, TrapsTyped
<1>3. TrapsOnce'
  <2>1. ASSUME NEW t \in Trap, t.nr < faults PROVE t.nr < faults'
    <3>1. t.nr \in Nat
      BY <1>1 DEF Trap
    <3>2. QED
      BY <1>1, <2>1, <3>1
  <2>2. \A j \in jobs : j.trap \in Trap
    BY DEF LinksInv, TrapsTyped, Job
  <2>3. QED
    BY <2>1, <2>2 DEF LinksInv, TrapsTyped, TrapsOnce
<1>4. TrapsReported' /\ OnlyCutIsOff' /\ OneEventPerTurn'
  BY DEF LinksInv, TrapsReported, OnlyCutIsOff, OneEventPerTurn
<1>5. QED
  BY <1>2, <1>3, <1>4 DEF LinksInv

LEMMA RegisterStep == ASSUME LinksInv, NEW d \in Devices, Register(d) PROVE LinksInv'
<1>1. /\ known' = known \cup {d} /\ UNCHANGED <<linkRows, relation, faults, cycle, sent, off, cut, traps, jobs, untold, reported>>
  BY DEF Register, link
<1>2. TableTyped'
  BY <1>1 DEF LinksInv, TableTyped
<1>3. QED
  BY <1>1, <1>2, TablesOnly

LEMMA ReportingStep == ASSUME LinksInv, Reporting PROVE LinksInv'
<1>1. /\ sent' \subseteq Links /\ cycle' = NextCycle
      /\ UNCHANGED <<known, linkRows, relation, faults, off, cut, traps, jobs, untold, reported>>
  BY DEF Reporting, EmitTopologyLinks, SkipCycle, LinksInv, TableTyped
<1>2. cycle' \in 0 .. (Warmup + Reassert)
  <2>1. Warmup \in Nat \ {0} /\ Reassert \in Nat \ {0} /\ cycle \in 0 .. (Warmup + Reassert)
    BY LinksAssumption DEF LinksInv, TableTyped
  <2>2. QED
    BY <1>1, <2>1 DEF NextCycle
<1>3. TableTyped'
  BY <1>1, <1>2 DEF LinksInv, TableTyped
<1>4. QED
  BY <1>1, <1>3, TablesOnly

LEMMA ReportStep ==
  ASSUME LinksInv, NEW l \in Links, WriteTopologyLink(l) \/ WriteTopologyLinkFails(l)
  PROVE  LinksInv'
<1>1. sent' = sent \ {l} /\ (UNCHANGED faults \/ Fault) /\ UNCHANGED <<known, cycle, cut, traps, jobs, untold, reported>>
  BY DEF WriteTopologyLink, WriteTopologyLinkFails
<1>2. CASE Pair(l) \subseteq known /\ UpsertLinks(l)
  <2>1. linkRows' = linkRows \cup {l} /\ off' = off
    BY <1>2 DEF UpsertLinks
  <2>2. relation' \in [Links -> {"peer", "uplink", "downlink"}]
    BY <1>2 DEF UpsertLinks, LinksInv, TableTyped
  <2>3. TableTyped'
    BY <1>1, <1>2, <2>1, <2>2, FaultsGrow DEF LinksInv, TableTyped
  <2>4. QED
    BY <1>1, <2>1, <2>3, TablesOnly
<1>3. CASE UNCHANGED <<linkRows, relation, off>>
  <2>1. TableTyped'
    BY <1>1, <1>3, FaultsGrow DEF LinksInv, TableTyped
  <2>2. QED
    BY <1>1, <1>3, <2>1, TablesOnly
<1>4. QED
  BY <1>2, <1>3 DEF WriteTopologyLink, WriteTopologyLinkFails

-----------------------------------------------------------------------------
(* Cables and traps.                                                       *)

\* The traps of a cut are new ones.
LEMMA FlapStep == ASSUME LinksInv, NEW c \in Loose, Flap(c) PROVE LinksInv'
<1>1. PICK S \in SUBSET c :
        traps' = traps \cup {[dev |-> e[1], port |-> e[2], down |-> c \notin cut, nr |-> faults] : e \in S}
  BY DEF Flap
<1>2. /\ faults' = faults + 1 /\ faults < MaxFaults /\ cut' \subseteq cut \cup {c} /\ reported' = reported \cup {c}
      /\ UNCHANGED <<known, linkRows, relation, cycle, sent, off, jobs, untold>>
  BY DEF Flap, Fault
<1>3. c \in Cables /\ faults \in Nat /\ MaxFaults \in Nat /\ faults \in 0 .. MaxFaults /\ faults' \in 0 .. MaxFaults
  BY <1>2, LinksAssumption DEF LinksInv, TableTyped
<1>4. \A e \in c : e = <<e[1], e[2]>> /\ e[1] \in Devices /\ e[2] \in Port
  <2>1. PICK l \in Links : c = Ends(l)
    BY <1>3 DEF Cables
  <2>2. l.src \in Devices /\ l.dst \in Devices /\ l.sport \in Port /\ l.dport \in Port
    BY LinksAssumption
  <2>3. QED
    BY <2>1, <2>2 DEF Ends
<1>5. \A t \in traps' : \/ t \in traps
                        \/ t \in Trap /\ t.nr = faults /\ <<t.dev, t.port>> \in c
  <2>1. ASSUME NEW e \in S
        PROVE  LET t == [dev |-> e[1], port |-> e[2], down |-> c \notin cut, nr |-> faults]
               IN  t \in Trap /\ t.nr = faults /\ <<t.dev, t.port>> \in c
    <3>1. e = <<e[1], e[2]>> /\ e[1] \in Devices /\ e[2] \in Port /\ e \in c
      BY <1>4
    <3>2. QED
      BY <1>3, <3>1 DEF Trap
  <2>2. QED
    BY <1>1, <2>1
<1>6. TableTyped'
  BY <1>2, <1>3 DEF LinksInv, TableTyped
<1>7. TrapsTyped'
  BY <1>2, <1>5 DEF LinksInv, TrapsTyped
<1>8. TrapsOnce'
  <2>1. \A t \in Trap : t.nr \in Nat
    BY <1>3 DEF Trap
  <2>2. \A j \in jobs : j.trap \in Trap /\ j.trap.nr < faults
    BY DEF LinksInv, TrapsTyped, TrapsOnce, Job
  <2>3. \A t \in traps : t \in Trap /\ t.nr < faults /\ \A j \in jobs : j.trap # t
    BY DEF LinksInv, TrapsTyped, TrapsOnce
  <2>4. ASSUME NEW t \in traps' PROVE t.nr < faults' /\ \A j \in jobs : j.trap # t
    <3>1. CASE t \in traps
      <4>1. t.nr \in Nat /\ t.nr < faults
        BY <2>1, <2>3, <3>1
      <4>2. QED
        BY <1>2, <1>3, <2>3, <3>1, <4>1
    <3>2. CASE t \notin traps
      <4>1. t.nr = faults
        BY <1>5, <3>2
      <4>2. ASSUME NEW j \in jobs PROVE j.trap # t
        <5>1. j.trap.nr < faults
          BY <2>2
        <5>2. QED
          BY <1>3, <4>1, <5>1
      <4>3. QED
        BY <1>2, <1>3, <4>1, <4>2
    <3>3. QED
      BY <3>1, <3>2
  <2>5. \A j \in jobs : j.trap.nr < faults'
    BY <1>2, <1>3, <2>1, <2>2
  <2>6. QED
    BY <1>2, <2>4, <2>5 DEF LinksInv, TrapsOnce
<1>9. TrapsReported'
  BY <1>2, <1>5 DEF LinksInv, TrapsReported
<1>10. OnlyCutIsOff' /\ OneEventPerTurn'
  BY <1>2 DEF LinksInv, OnlyCutIsOff, OneEventPerTurn
<1>11. QED
  BY <1>6, <1>7, <1>8, <1>9, <1>10 DEF LinksInv

\* The row that a trap finds is a report of the cable it came from.
LEMMA CorrelateFinds ==
  ASSUME NEW t \in Trap, NEW l \in CorrelateLinkByPort(t), linkRows \subseteq Links,
         NEW c \in Cables, <<t.dev, t.port>> \in c
  PROVE  l \in linkRows /\ l.layer = "network" /\ Between(c) = Pair(l)
<1>1. l \in Links /\ l \in linkRows /\ l.layer = "network"
  BY DEF CorrelateLinkByPort
<1>2. PICK p \in PortCandidates(t) : <<t.dev, p>> \in Ends(l)
  BY DEF CorrelateLinkByPort
<1>3. p = t.port
  <2>1. t.port \in Nat
    BY DEF Trap, Port
  <2>2. IfIndex(t) - 1 = t.port
    BY <2>1 DEF IfIndex
  <2>3. PortCandidates(t) \subseteq {t.port, IfIndex(t) - 1}
    <3>1. Form[t.dev] \in {"name", "index", "none"}
      BY LinksAssumption DEF Trap
    <3>2. QED
      BY <3>1, SMT DEF PortCandidates
  <2>4. QED
    BY <2>2, <2>3
<1>4. Ends(l) \in Cables
  BY <1>1 DEF Cables
<1>5. <<t.dev, t.port>> \in Ends(l)
  BY <1>2, <1>3
<1>6. c \cap Ends(l) # {}
  BY <1>5
<1>7. c = Ends(l)
  BY <1>4, <1>6, LinksAssumption
<1>8. Between(Ends(l)) = Pair(l)
  BY DEF Between, Ends, Pair
<1>9. QED
  BY <1>1, <1>7, <1>8

LEMMA CorrelateStep == ASSUME LinksInv, NEW t \in traps, Correlate(t) PROVE LinksInv'
<1>1. PICK l \in CorrelateLinkByPort(t) : jobs' = jobs \cup {[trap |-> t, row |-> l, step |-> "set"]}
  BY DEF Correlate
<1>2. /\ traps' = traps \ {t} /\ Cardinality(jobs) < NWorkers
      /\ UNCHANGED <<known, linkRows, relation, cycle, sent, off, cut, untold, reported, faults>>
  BY DEF Correlate
<1> DEFINE j == [trap |-> t, row |-> l, step |-> "set"]
<1>3. t \in Trap /\ t.nr < faults /\ \A k \in jobs : k.trap # t
  BY DEF LinksInv, TrapsTyped, TrapsOnce
<1>4. PICK c \in reported : <<t.dev, t.port>> \in c
  BY DEF LinksInv, TrapsReported
<1>5. l \in linkRows /\ l \in Links /\ l.layer = "network" /\ Between(c) = Pair(l)
  BY <1>3, <1>4, CorrelateFinds DEF LinksInv, TableTyped
<1>6. j \in Job /\ j.trap = t /\ j.row = l /\ j.step = "set" /\ j \notin jobs
  BY <1>3, <1>5 DEF Job
<1> HIDE DEF j
<1>7. jobs' = jobs \cup {j}
  BY <1>1 DEF j
<1>8. /\ IsFiniteSet(jobs \cup {j}) /\ Cardinality(jobs \cup {j}) = Cardinality(jobs) + 1
      /\ Cardinality(Tell(jobs \cup {j})) = Cardinality(Tell(jobs)) + 0
      /\ Cardinality(Tell(jobs)) \in Nat /\ Cardinality(jobs) \in Nat
  <2>1. IsFiniteSet(jobs)
    BY DEF LinksInv, TrapsTyped
  <2>2. QED
    BY <1>6, <2>1, TellAdded
<1>9. TableTyped'
  BY <1>2 DEF LinksInv, TableTyped
<1>10. TrapsTyped'
  <2>1. NWorkers \in Nat
    BY LinksAssumption
  <2>2. IsFiniteSet(jobs') /\ Cardinality(jobs') <= NWorkers
    BY <1>2, <1>7, <1>8, <2>1
  <2>3. QED
    BY <1>2, <1>5, <1>6, <1>7, <2>2 DEF LinksInv, TrapsTyped
<1>11. TrapsOnce'
  BY <1>2, <1>3, <1>6, <1>7 DEF LinksInv, TrapsOnce
<1>12. TrapsReported'
  BY <1>2, <1>4, <1>5, <1>6, <1>7 DEF LinksInv, TrapsReported
<1>13. OnlyCutIsOff'
  BY <1>2 DEF LinksInv, OnlyCutIsOff
<1>14. OneEventPerTurn'
  <2>1. untold = Cardinality(Tell(jobs))
    BY DEF LinksInv, OneEventPerTurn, Tell
  <2>2. untold' = Cardinality(Tell(jobs \cup {j}))
    BY <1>2, <1>8, <2>1
  <2>3. QED
    BY <1>7, <2>2 DEF OneEventPerTurn, Tell
<1>15. QED
  BY <1>9, <1>10, <1>11, <1>12, <1>13, <1>14 DEF LinksInv

LEMMA PlainEventStep == ASSUME LinksInv, NEW t \in traps, PlainEvent(t) PROVE LinksInv'
<1>1. /\ traps' = traps \ {t} /\ (UNCHANGED faults \/ Fault)
      /\ UNCHANGED <<known, linkRows, relation, cycle, sent, off, cut, jobs, untold, reported>>
  BY DEF PlainEvent
<1>2. faults' \in 0 .. MaxFaults /\ faults \in Nat /\ faults <= faults' /\ MaxFaults \in Nat
  BY <1>1, FaultsGrow, LinksAssumption DEF LinksInv
<1>3. TableTyped' /\ TrapsTyped'
  BY <1>1, <1>2 DEF LinksInv, TableTyped, TrapsTyped
<1>4. TrapsOnce'
  <2>1. ASSUME NEW u \in Trap, u.nr < faults PROVE u.nr < faults'
    <3>1. u.nr \in Nat
      BY <1>2 DEF Trap
    <3>2. QED
      BY <1>2, <2>1, <3>1
  <2>2. \A j \in jobs : j.trap \in Trap
    BY DEF LinksInv, TrapsTyped, Job
  <2>3. QED
    BY <1>1, <2>1, <2>2 DEF LinksInv, TrapsTyped, TrapsOnce
<1>5. TrapsReported' /\ OnlyCutIsOff' /\ OneEventPerTurn'
  BY <1>1 DEF LinksInv, TrapsReported, OnlyCutIsOff, OneEventPerTurn
<1>6. QED
  BY <1>3, <1>4, <1>5 DEF LinksInv

\* A worker that is done with its trap leaves the rest.
LEMMA JobEnds ==
  ASSUME LinksInv, NEW j \in jobs, jobs' = jobs \ {j}, UNCHANGED faults \/ Fault,
         untold' = untold - (IF j.step = "tell" THEN 1 ELSE 0),
         UNCHANGED <<known, linkRows, relation, cycle, sent, off, cut, traps, reported>>
  PROVE  LinksInv'
<1>1. faults' \in 0 .. MaxFaults /\ faults \in Nat /\ faults <= faults' /\ MaxFaults \in Nat
  BY FaultsGrow, LinksAssumption DEF LinksInv
<1>2. /\ IsFiniteSet(jobs \ {j}) /\ Cardinality(jobs \ {j}) = Cardinality(jobs) - 1
      /\ Cardinality(Tell(jobs \ {j})) = Cardinality(Tell(jobs)) - (IF j.step = "tell" THEN 1 ELSE 0)
      /\ Cardinality(jobs) \in Nat
  <2>1. IsFiniteSet(jobs)
    BY DEF LinksInv, TrapsTyped
  <2>2. QED
    BY <2>1, TellRemoved
<1>3. TableTyped'
  BY <1>1 DEF LinksInv, TableTyped
<1>4. TrapsTyped'
  <2>1. NWorkers \in Nat /\ Cardinality(jobs) <= NWorkers
    BY LinksAssumption DEF LinksInv, TrapsTyped
  <2>2. IsFiniteSet(jobs') /\ Cardinality(jobs') <= NWorkers
    BY <1>2, <2>1
  <2>3. QED
    BY <2>2 DEF LinksInv, TrapsTyped
<1>5. TrapsOnce'
  <2>1. ASSUME NEW u \in Trap, u.nr < faults PROVE u.nr < faults'
    <3>1. u.nr \in Nat
      BY <1>1 DEF Trap
    <3>2. QED
      BY <1>1, <2>1, <3>1
  <2>2. \A k \in jobs : k.trap \in Trap
    BY DEF LinksInv, TrapsTyped, Job
  <2>3. traps \subseteq Trap /\ TrapsOnce
    BY DEF LinksInv, TrapsTyped
  <2>4. \A k \in jobs' : k \in jobs
    OBVIOUS
  <2>5. \A t \in traps' : t.nr < faults' /\ \A k \in jobs' : k.trap # t
    BY <2>1, <2>3, <2>4 DEF TrapsOnce
  <2>6. \A k \in jobs' : k.trap.nr < faults'
    BY <2>1, <2>2, <2>3, <2>4 DEF TrapsOnce
  <2>7. \A k, m \in jobs' : k.trap = m.trap => k = m
    BY <2>3, <2>4 DEF TrapsOnce
  <2>8. QED
    BY <2>5, <2>6, <2>7 DEF TrapsOnce
<1>6. TrapsReported' /\ OnlyCutIsOff'
  BY DEF LinksInv, TrapsReported, OnlyCutIsOff
<1>7. OneEventPerTurn'
  <2>1. untold = Cardinality(Tell(jobs))
    BY DEF LinksInv, OneEventPerTurn, Tell
  <2>2. untold' = Cardinality(Tell(jobs \ {j}))
    BY <1>2, <2>1
  <2>3. QED
    BY <2>2 DEF OneEventPerTurn, Tell
<1>8. QED
  BY <1>3, <1>4, <1>5, <1>6, <1>7 DEF LinksInv

LEMMA SetActiveFailsStep ==
  ASSUME LinksInv, NEW j \in jobs, SetActiveFails(j) \/ WriteLinkEvent(j)
  PROVE  LinksInv'
<1>1. CASE SetActiveFails(j)
  <2>1. untold \in Int
    <3>1. IsFiniteSet(jobs)
      BY DEF LinksInv, TrapsTyped
    <3>2. Cardinality(Tell(jobs)) \in Nat
      BY <3>1, TellRemoved
    <3>3. QED
      BY <3>2 DEF LinksInv, OneEventPerTurn, Tell
  <2>2. j.step # "tell" /\ untold' = untold /\ jobs' = jobs \ {j} /\ Fault
        /\ UNCHANGED <<known, linkRows, relation, cycle, sent, off, cut, traps, reported>>
    BY <1>1 DEF SetActiveFails
  <2>3. untold' = untold - (IF j.step = "tell" THEN 1 ELSE 0)
    BY <2>1, <2>2
  <2>4. QED
    BY <2>2, <2>3, JobEnds
<1>2. CASE WriteLinkEvent(j)
  <2>1. j.step = "tell" /\ untold' = untold - 1 /\ jobs' = jobs \ {j} /\ UNCHANGED faults
        /\ UNCHANGED <<known, linkRows, relation, cycle, sent, off, cut, traps, reported>>
    BY <1>2 DEF WriteLinkEvent
  <2>2. QED
    BY <2>1, JobEnds
<1>3. QED
  BY <1>1, <1>2

\* What a statement changes is turned, and nothing is when it hits nothing.
LEMMA HitTurns ==
  ASSUME NEW l, NEW down \in BOOLEAN, off \subseteq linkRows, NEW hit, hit = SetLinkActive(l, down),
         NEW o, o = IF down THEN off \cup hit ELSE off \ hit
  PROVE  /\ hit \subseteq {m \in linkRows : m.layer = l.layer /\ Pair(m) = Pair(l)}
         /\ o \subseteq off \cup hit /\ o \subseteq linkRows /\ (o = off <=> hit = {})
<1>1. \A m : m \in hit <=> m \in linkRows /\ m.layer = l.layer /\ Pair(m) = Pair(l) /\ (m \in off) # down
  BY DEF SetLinkActive
<1>2. CASE down
  <2>1. \A m \in hit : m \notin off
    BY <1>1, <1>2
  <2>2. QED
    BY <1>1, <1>2, <2>1
<1>3. CASE ~down
  <2>1. \A m \in hit : m \in off
    BY <1>1, <1>3
  <2>2. QED
    BY <1>1, <1>3, <2>1
<1>4. QED
  BY <1>2, <1>3

LEMMA SetActiveStep == ASSUME LinksInv, NEW j \in jobs, SetActive(j) PROVE LinksInv'
<1> DEFINE hit == SetLinkActive(j.row, j.trap.down)
           k   == [j EXCEPT !.step = "tell"]
<1>1. /\ j.step = "set"
      /\ off' = IF j.trap.down THEN off \cup hit ELSE off \ hit
      /\ jobs' = (jobs \ {j}) \cup (IF hit = {} THEN {} ELSE {k})
      /\ untold' = untold + (IF off' # off THEN 1 ELSE 0)
      /\ UNCHANGED <<known, linkRows, relation, cycle, sent, cut, traps, reported, faults>>
  BY DEF SetActive
<1>2. j \in Job /\ j.trap \in Trap /\ j.row \in Links /\ j.trap.down \in BOOLEAN /\ off \subseteq linkRows
  <2>1. j \in Job /\ off \subseteq linkRows
    BY DEF LinksInv, TableTyped, TrapsTyped
  <2>2. QED
    BY <2>1 DEF Job, Trap
<1>3. /\ hit \subseteq {m \in linkRows : m.layer = j.row.layer /\ Pair(m) = Pair(j.row)}
      /\ off' \subseteq off \cup hit /\ off' \subseteq linkRows /\ (off' = off <=> hit = {})
  <2>1. hit = SetLinkActive(j.row, j.trap.down)
    OBVIOUS
  <2> HIDE DEF hit
  <2>2. off' = IF j.trap.down THEN off \cup hit ELSE off \ hit
    BY <1>1
  <2>3. QED
    BY <1>2, <2>1, <2>2, HitTurns
<1>4. k \in Job /\ k.trap = j.trap /\ k.row = j.row /\ k.step = "tell" /\ k # j /\ k \notin jobs
  <2>1. k \in Job /\ k.trap = j.trap /\ k.row = j.row /\ k.step = "tell" /\ k # j
    BY <1>1, <1>2 DEF Job
  <2>2. \A i \in jobs : i.trap = j.trap => i = j
    BY DEF LinksInv, TrapsOnce
  <2>3. QED
    BY <2>1, <2>2
<1> HIDE DEF hit, k
<1>5. /\ IsFiniteSet(jobs) /\ Cardinality(jobs) <= NWorkers /\ untold = Cardinality(Tell(jobs))
      /\ NWorkers \in Nat
  BY LinksAssumption DEF LinksInv, TrapsTyped, OneEventPerTurn, Tell
<1>6. /\ IsFiniteSet(jobs \ {j}) /\ Cardinality(jobs \ {j}) = Cardinality(jobs) - 1
      /\ Cardinality(Tell(jobs \ {j})) = Cardinality(Tell(jobs)) - (IF j.step = "tell" THEN 1 ELSE 0)
      /\ Cardinality(jobs) \in Nat /\ Cardinality(Tell(jobs)) \in Nat
  BY <1>5, TellRemoved
<1>7. /\ IsFiniteSet(jobs') /\ Cardinality(jobs') <= NWorkers /\ untold' = Cardinality(Tell(jobs'))
      /\ \A i \in jobs' : i = k \/ (i \in jobs /\ i # j)
  <2>1. CASE hit = {}
    <3>1. jobs' = jobs \ {j} /\ untold' = untold + 0
      BY <1>1, <1>3, <2>1
    <3>2. Cardinality(jobs') = Cardinality(jobs) - 1 /\ Cardinality(Tell(jobs')) = Cardinality(Tell(jobs)) - 0
      BY <1>1, <1>6, <3>1
    <3>3. QED
      BY <1>5, <1>6, <3>1, <3>2
  <2>2. CASE hit # {}
    <3>1. jobs' = (jobs \ {j}) \cup {k} /\ untold' = untold + 1
      BY <1>1, <1>3, <2>2
    <3>2. /\ IsFiniteSet((jobs \ {j}) \cup {k})
          /\ Cardinality((jobs \ {j}) \cup {k}) = Cardinality(jobs \ {j}) + 1
          /\ Cardinality(Tell((jobs \ {j}) \cup {k})) = Cardinality(Tell(jobs \ {j})) + 1
      <4>1. k \notin jobs \ {j}
        BY <1>4
      <4>2. QED
        BY <1>4, <1>6, <4>1, TellAdded
    <3>3. Cardinality(jobs') = Cardinality(jobs) /\ Cardinality(Tell(jobs')) = Cardinality(Tell(jobs)) + 1
      <4>1. Cardinality(Tell(jobs \ {j})) = Cardinality(Tell(jobs)) - 0
        BY <1>1, <1>6
      <4>2. QED
        BY <1>6, <3>1, <3>2, <4>1
    <3>4. QED
      BY <1>5, <3>1, <3>2, <3>3
  <2>3. QED
    BY <2>1, <2>2
<1>8. TableTyped'
  BY <1>1, <1>3 DEF LinksInv, TableTyped
<1>9. TrapsTyped'
  BY <1>1, <1>4, <1>7 DEF LinksInv, TrapsTyped
<1>10. TrapsOnce'
  <2>1. \A i \in jobs' : \E m \in jobs : i.trap = m.trap
    BY <1>4, <1>7
  <2>2. \A t \in traps' : t.nr < faults' /\ \A i \in jobs' : i.trap # t
    BY <1>1, <2>1 DEF LinksInv, TrapsOnce
  <2>3. \A i \in jobs' : i.trap.nr < faults'
    BY <1>1, <2>1 DEF LinksInv, TrapsOnce
  <2>4. \A i, m \in jobs' : i.trap = m.trap => i = m
    BY <1>4, <1>7 DEF LinksInv, TrapsOnce
  <2>5. QED
    BY <2>2, <2>3, <2>4 DEF TrapsOnce
<1>11. TrapsReported'
  BY <1>1, <1>4, <1>7 DEF LinksInv, TrapsReported
<1>12. OnlyCutIsOff'
  <2>1. PICK c \in reported : Between(c) = Pair(j.row)
    BY DEF LinksInv, TrapsReported
  <2>2. \A l \in hit : Between(c) = Pair(l)
    BY <1>3, <2>1
  <2>3. QED
    BY <1>1, <1>3, <2>2 DEF LinksInv, OnlyCutIsOff
<1>13. OneEventPerTurn'
  BY <1>7 DEF OneEventPerTurn, Tell
<1>14. QED
  BY <1>8, <1>9, <1>10, <1>11, <1>12, <1>13 DEF LinksInv

LEMMA LinksNextStep == ASSUME LinksInv, LinksNext PROVE LinksInv'
<1>1. ASSUME NEW d \in Devices, Register(d) PROVE LinksInv'
  BY <1>1, RegisterStep
<1>2. CASE Reporting
  BY <1>2, ReportingStep
<1>3. ASSUME NEW l \in Links, WriteTopologyLink(l) \/ WriteTopologyLinkFails(l) PROVE LinksInv'
  BY <1>3, ReportStep
<1>4. ASSUME NEW c \in Loose, Flap(c) PROVE LinksInv'
  BY <1>4, FlapStep
<1>5. ASSUME NEW t \in traps, Correlate(t) \/ PlainEvent(t) PROVE LinksInv'
  BY <1>5, CorrelateStep, PlainEventStep
<1>6. ASSUME NEW j \in jobs, SetActive(j) \/ SetActiveFails(j) \/ WriteLinkEvent(j) PROVE LinksInv'
  BY <1>6, SetActiveStep, SetActiveFailsStep
<1>7. QED
  BY <1>1, <1>2, <1>3, <1>4, <1>5, <1>6 DEF LinksNext, Working

-----------------------------------------------------------------------------
(* The runner.                                                             *)

LEMMA NextNetTyped ==
  ASSUME NEW L \in SUBSET Nets, run' = NextNet(L) PROVE
     run' = Stopped \/ ( /\ run' = [x \in DOMAIN run' |-> run'[x]] /\ {"step", "left"} \subseteq DOMAIN run'
                         /\ run'.step \in RunSteps /\ run'.left \subseteq Nets )
<1>1. CASE L = {}
  BY <1>1 DEF NextNet
<1>2. CASE L # {}
  <2>1. run' = [step |-> "net", left |-> L]
    BY <1>2 DEF NextNet
  <2>2. QED
    BY <2>1 DEF RunSteps
<1>3. QED
  BY <1>1, <1>2

\* Only the relations of the links change.
LEMMA RelationsOnly ==
  ASSUME LinksInv, UNCHANGED faults \/ Fault, UNCHANGED <<known, linkRows, link>>,
         UNCHANGED relation \/ \E S, r : r \in {"peer", "uplink", "downlink"} /\ Relate(S, r)
  PROVE  LinksInv'
<1>1. relation \in [Links -> {"peer", "uplink", "downlink"}]
  BY DEF LinksInv, TableTyped
<1>2. relation' \in [Links -> {"peer", "uplink", "downlink"}]
  BY <1>1 DEF Relate
<1>3. TableTyped'
  BY <1>2, FaultsGrow DEF LinksInv, TableTyped, link
<1>4. QED
  BY <1>3, TablesOnly DEF link

LEMMA RunnerLinks == ASSUME LinksInv, Runner PROVE LinksInv'
<1>1. UNCHANGED <<known, linkRows, link, faults>>
  BY DEF Runner, StartRun, LoadDevices, LoadEdges, ResetRelation, MarkUplinks, MarkDownlinks, LoadRoles, PersistRoles
<1>2. UNCHANGED relation \/ \E S, r : r \in {"peer", "uplink", "downlink"} /\ Relate(S, r)
  BY DEF Runner, StartRun, LoadDevices, LoadEdges, ResetRelation, MarkUplinks, MarkDownlinks, LoadRoles, PersistRoles
<1>3. QED
  BY <1>1, <1>2, RelationsOnly

LEMMA RunnerTyped == ASSUME LinksInv, RunTyped, Runner PROVE RunTyped'
<1>1. known \subseteq Devices
  BY DEF LinksInv, TableTyped
<1>2. CASE StartRun
  <2>1. run' = [step |-> "net", left |-> {NetOf[d] : d \in known}] /\ UNCHANGED <<overridden, fresh>>
    BY <1>2 DEF StartRun
  <2>2. {NetOf[d] : d \in known} \subseteq Nets
    BY <1>1 DEF Nets
  <2>3. QED
    BY <2>1, <2>2 DEF RunTyped, RunSteps
<1>3. CASE ~StartRun
  <2>1. run.step # "idle"
    BY <1>3 DEF Runner, LoadDevices, LoadEdges, ResetRelation, MarkUplinks, MarkDownlinks, LoadRoles, PersistRoles
  <2>2. /\ run = [x \in DOMAIN run |-> run[x]] /\ {"step", "left"} \subseteq DOMAIN run
        /\ run.left \subseteq Nets
    BY <2>1 DEF RunTyped, Stopped
  <2>3. CASE LoadDevices
    BY <2>2, <2>3 DEF LoadDevices, RunTyped, RunSteps
  <2>4. CASE LoadEdges
    BY <2>2, <2>4 DEF LoadEdges, RunTyped, RunSteps
  <2>5. CASE ResetRelation
    <3>1. run' = [run EXCEPT !.step = "up"] /\ UNCHANGED <<overridden, fresh>>
      BY <2>5 DEF ResetRelation
    <3>2. run'.step = "up" /\ run'.left = run.left /\ DOMAIN run' = DOMAIN run /\ run' = [x \in DOMAIN run' |-> run'[x]]
      BY <2>2, <3>1
    <3>3. QED
      BY <2>2, <3>1, <3>2 DEF RunTyped, RunSteps
  <2>6. CASE MarkUplinks
    <3>1. run' = [run EXCEPT !.step = "down"] /\ UNCHANGED <<overridden, fresh>>
      BY <2>6 DEF MarkUplinks
    <3>2. run'.step = "down" /\ run'.left = run.left /\ DOMAIN run' = DOMAIN run /\ run' = [x \in DOMAIN run' |-> run'[x]]
      BY <2>2, <3>1
    <3>3. QED
      BY <2>2, <3>1, <3>2 DEF RunTyped, RunSteps
  <2>7. CASE MarkDownlinks
    BY <2>2, <2>7 DEF MarkDownlinks, RunTyped, RunSteps
  <2>8. CASE LoadRoles
    <3>1. PICK R : run' = [step |-> "roles", left |-> run.left, net |-> run.net, roles |-> R]
      BY <2>8 DEF LoadRoles
    <3>2. UNCHANGED <<overridden, fresh>>
      BY <2>8 DEF LoadRoles
    <3>3. QED
      BY <2>2, <3>1, <3>2 DEF RunTyped, RunSteps
  <2>9. CASE PersistRoles
    <3>1. run' = NextNet(run.left) /\ UNCHANGED <<overridden, fresh>>
      BY <2>9 DEF PersistRoles
    <3>2. QED
      BY <2>2, <3>1, NextNetTyped DEF RunTyped
  <2>10. QED
    BY <1>3, <2>3, <2>4, <2>5, <2>6, <2>7, <2>8, <2>9 DEF Runner
<1>4. QED
  BY <1>2, <1>3

LEMMA FailureStep == ASSUME TopologyIInv, RunFails \/ StartFails PROVE TopologyIInv'
<1>1. LinksInv /\ RunTyped
  BY DEF TopologyIInv
<1>2. Fault /\ UNCHANGED <<known, linkRows, relation, link, overridden>>
  BY DEF RunFails, StartFails
<1>3. LinksInv'
  BY <1>1, <1>2, RelationsOnly
<1>4. CASE RunFails
  <2>1. run # Stopped /\ run' = NextNet(run.left) /\ fresh' \subseteq fresh
    BY <1>4 DEF RunFails, AfterFailure
  <2>2. run.left \subseteq Nets
    BY <1>1, <2>1 DEF RunTyped
  <2>3. QED
    BY <1>1, <1>2, <1>3, <2>1, <2>2, NextNetTyped DEF RunTyped, TopologyIInv
<1>5. CASE StartFails
  BY <1>1, <1>2, <1>3, <1>5 DEF StartFails, RunTyped, TopologyIInv
<1>6. QED
  BY <1>4, <1>5

LEMMA OverrideStep == ASSUME TopologyIInv, NEW d \in Admins, Override(d) PROVE TopologyIInv'
<1>1. LinksInv /\ RunTyped
  BY DEF TopologyIInv
<1>2. Fault /\ UNCHANGED <<known, linkRows, relation, link, run, fresh>> /\ overridden' = overridden \cup {d}
  BY DEF Override
<1>3. LinksInv'
  BY <1>1, <1>2, RelationsOnly
<1>4. RunTyped'
  BY <1>1, <1>2 DEF RunTyped
<1>5. QED
  BY <1>3, <1>4 DEF TopologyIInv

-----------------------------------------------------------------------------
LEMMA TopologyIInvInit == TopologyInit => TopologyIInv
<1> SUFFICES ASSUME TopologyInit PROVE TopologyIInv
  OBVIOUS
<1>1. /\ cut \subseteq Loose /\ reported = cut
      /\ off = {l \in Stored : l.layer = "network" /\ \E c \in cut : Between(c) = Pair(l)}
      /\ known = Early /\ cycle = 0 /\ sent = {} /\ linkRows = Stored
      /\ relation = [l \in Links |-> "peer"]
      /\ traps = {} /\ jobs = {} /\ untold = 0 /\ faults = 0
  BY DEF TopologyInit, LinksInit
<1>2. /\ Early \subseteq Devices /\ Loose \subseteq Cables /\ Stored \subseteq Links
      /\ \A l \in Stored : Pair(l) \subseteq Early
  BY LinksAssumption
<1>3. Warmup \in Nat /\ Reassert \in Nat /\ MaxFaults \in Nat /\ NWorkers \in Nat
  BY LinksAssumption
<1>4. cycle \in 0 .. (Warmup + Reassert) /\ faults \in 0 .. MaxFaults
  BY <1>1, <1>3
<1>5. TableTyped
  BY <1>1, <1>2, <1>4 DEF TableTyped
<1>6. IsFiniteSet({}) /\ Cardinality({}) = 0
  BY FS_EmptySet
<1>7. TrapsTyped
  BY <1>1, <1>3, <1>6 DEF TrapsTyped
<1>8. TrapsOnce /\ TrapsReported
  BY <1>1 DEF TrapsOnce, TrapsReported
<1>9. OnlyCutIsOff
  BY <1>1 DEF OnlyCutIsOff
<1>10. OneEventPerTurn
  <2>1. {j \in jobs : j.step = "tell"} = {}
    BY <1>1
  <2>2. QED
    BY <1>1, <1>6, <2>1 DEF OneEventPerTurn
<1>11. RunTyped
  BY DEF TopologyInit, RunTyped
<1>12. QED
  BY <1>5, <1>7, <1>8, <1>9, <1>10, <1>11 DEF TopologyIInv, LinksInv

LEMMA TopologyIInvStep == TopologyIInv /\ [TopologyNext]_topologyVars => TopologyIInv'
<1> SUFFICES ASSUME TopologyIInv, [TopologyNext]_topologyVars PROVE TopologyIInv'
  OBVIOUS
<1>1. LinksInv /\ RunTyped
  BY DEF TopologyIInv
<1>2. CASE LinksNext /\ Notice
  <2>1. LinksInv'
    BY <1>1, <1>2, LinksNextStep
  <2>2. RunTyped'
    BY <1>1, <1>2 DEF Notice, RunTyped
  <2>3. QED
    BY <2>1, <2>2 DEF TopologyIInv
<1>3. CASE Runner
  BY <1>1, <1>3, RunnerLinks, RunnerTyped DEF TopologyIInv
<1>4. CASE RunFails \/ StartFails
  BY <1>4, FailureStep
<1>5. ASSUME NEW d \in Admins, Override(d) PROVE TopologyIInv'
  BY <1>5, OverrideStep
<1>6. CASE UNCHANGED topologyVars
  <2>1. LinksInv'
    <3>1. UNCHANGED <<known, linkRows, relation, link, faults>>
      BY <1>6 DEF topologyVars
    <3>2. QED
      BY <1>1, <3>1, RelationsOnly
  <2>2. RunTyped'
    BY <1>1, <1>6 DEF RunTyped, topologyVars, tvars
  <2>3. QED
    BY <2>1, <2>2 DEF TopologyIInv
<1>7. QED
  BY <1>2, <1>3, <1>4, <1>5, <1>6 DEF TopologyNext

LEMMA TopologyIInvImplies == TopologyIInv => LinkStateTrue
<1> SUFFICES ASSUME TopologyIInv PROVE LinkStateTrue
  OBVIOUS
<1>1. TableTyped /\ TrapsTyped /\ OnlyCutIsOff /\ OneEventPerTurn /\ RunTyped
  BY DEF TopologyIInv, LinksInv
<1>2. untold \in Int
  <2>1. IsFiniteSet(Tell(jobs))
    BY <1>1, FS_Subset DEF TrapsTyped, Tell
  <2>2. Cardinality(Tell(jobs)) \in Nat
    BY <2>1, FS_CardinalityType
  <2>3. QED
    BY <1>1, <2>2 DEF OneEventPerTurn, Tell
<1>3. LinksTypeOK
  BY <1>1, <1>2 DEF LinksTypeOK, TableTyped, TrapsTyped, Job, Trap
<1>4. QED
  BY <1>1, <1>3 DEF LinkStateTrue, TopologyTypeOK, RunTyped, RunSteps, Stopped

\* One event per change of a link's state, and a link is off only for its own
\* devices' cable, whatever the workers and the runner do meanwhile.
THEOREM TopologyLinkStateTrue == TopologySpec => []LinkStateTrue
<1>1. TopologySpec => []TopologyIInv
  BY TopologyIInvInit, TopologyIInvStep, PTL DEF TopologySpec
<1>2. QED
  BY <1>1, TopologyIInvImplies, PTL

LEMMA TurnsOnStep ==
  ASSUME [TopologyNext]_topologyVars
  PROVE  [\A l \in off \ off' : \E j \in jobs : j.step = "set" /\ ~j.trap.down /\ Pair(j.row) = Pair(l)]_<<off, jobs>>
<1>1. ASSUME NEW j \in jobs, SetActive(j), NEW l \in off \ off'
      PROVE  j.step = "set" /\ ~j.trap.down /\ Pair(j.row) = Pair(l)
  BY <1>1 DEF SetActive, SetLinkActive
<1>2. UNCHANGED off \/ \E j \in jobs : SetActive(j)
  <2>1. CASE Runner \/ RunFails \/ StartFails \/ (\E d \in Admins : Override(d)) \/ UNCHANGED topologyVars
    BY <2>1 DEF Runner, StartRun, LoadDevices, LoadEdges, ResetRelation, MarkUplinks, MarkDownlinks, LoadRoles,
                PersistRoles, RunFails, StartFails, Override, topologyVars, link
  <2>2. CASE LinksNext
    BY <2>2 DEF LinksNext, Working, Reporting, EmitTopologyLinks, SkipCycle, Register, WriteTopologyLink, UpsertLinks,
                WriteTopologyLinkFails, Flap, Correlate, PlainEvent, SetActiveFails, WriteLinkEvent, link
  <2>3. QED
    BY <2>1, <2>2 DEF TopologyNext
<1>3. QED
  BY <1>1, <1>2

\* A report never turns a broken link on: only a linkUp for its two devices does.
THEOREM TopologyOnlyTrapTurnsOn == TopologySpec => OnlyTrapTurnsOn
BY TurnsOnStep, PTL DEF TopologySpec, OnlyTrapTurnsOn

-----------------------------------------------------------------------------
(* Numbers and finite sets of them.                                        *)

LEMMA Least == ASSUME NEW S \in SUBSET Nat, S # {} PROVE \E m \in S : \A n \in S : m <= n
<1> DEFINE R == OpToRel(<, Nat)
<1>1. IsWellFoundedOn(R, Nat)
  BY NatLessThanWellFounded
<1>2. \A a, b \in Nat : a < b => <<a, b>> \in R
  BY DEF OpToRel
<1> HIDE DEF R
<1>3. PICK m \in S : \A n \in S : ~(<<n, m>> \in R)
  BY <1>1, WFMin
<1>4. ASSUME NEW n \in S PROVE m <= n
  <2>1. m \in Nat /\ n \in Nat /\ ~(n < m)
    BY <1>2, <1>3
  <2>2. QED
    BY <2>1
<1>5. QED
  BY <1>4

\* What holds of 0 and goes from each number to the next holds of all up to the bound.
LEMMA UpTo ==
  ASSUME NEW N \in Nat, NEW S, 0 \in S, \A n \in 0 .. (N - 1) : n \in S => n + 1 \in S
  PROVE  \A n \in 0 .. N : n \in S
<1> SUFFICES ASSUME NEW n \in 0 .. N, n \notin S PROVE FALSE
  OBVIOUS
<1> DEFINE T == {k \in Nat : k <= N /\ k \notin S}
<1>1. T \in SUBSET Nat /\ T # {}
  OBVIOUS
<1>2. PICK m \in T : \A k \in T : m <= k
  BY <1>1, Least
<1>3. m # 0 /\ m \in Nat /\ m <= N /\ m \notin S
  BY <1>2
<1>4. m - 1 \in 0 .. (N - 1) /\ m - 1 + 1 = m /\ ~(m <= m - 1)
  BY <1>3
<1>5. m - 1 \in S
  BY <1>2, <1>4
<1>6. QED
  BY <1>3, <1>4, <1>5

\* A function on a finite set that gives naturals up to a bound has its greatest value
\* somewhere.
LEMMA Highest ==
  ASSUME NEW S, S # {}, NEW f \in [S -> Nat], NEW b \in Nat, \A x \in S : f[x] <= b
  PROVE  \E x \in S : \A y \in S : f[y] <= f[x]
<1> DEFINE T == {b - f[x] : x \in S}
<1>1. T \in SUBSET Nat /\ T # {}
  OBVIOUS
<1>2. PICK m \in T : \A k \in T : m <= k
  BY <1>1, Least
<1>3. PICK x \in S : m = b - f[x]
  BY <1>2
<1>4. ASSUME NEW y \in S PROVE f[y] <= f[x]
  <2>1. b - f[x] <= b - f[y]
    BY <1>2, <1>3
  <2>2. QED
    BY <2>1
<1>5. QED
  BY <1>4

\* The k-th device in order exists for every k, and every device is one of them.
LEMMA InOrderLists ==
  ASSUME NEW S \in SUBSET Nat, IsFiniteSet(S)
  PROVE  /\ InOrder(S) \in Seq(S) /\ Len(InOrder(S)) = Cardinality(S) /\ Cardinality(S) \in Nat
         /\ \A x \in S : \E i \in 1 .. Cardinality(S) : InOrder(S)[i] = x
<1> DEFINE Below(d) == {e \in S : e <= d}
           n        == Cardinality(S)
           rk       == [d \in S |-> Cardinality(Below(d))]
<1>1. n \in Nat
  BY FS_CardinalityType
<1>2. ASSUME NEW d \in S PROVE IsFiniteSet(Below(d)) /\ Cardinality(Below(d)) \in 1 .. n
  <2>1. Below(d) \in SUBSET S /\ d \in Below(d)
    OBVIOUS
  <2>2. IsFiniteSet(Below(d)) /\ Cardinality(Below(d)) <= n
    BY <2>1, FS_Subset
  <2>3. Cardinality(Below(d)) \in Nat /\ Cardinality(Below(d)) # 0
    BY <2>1, <2>2, FS_CardinalityType, FS_EmptySet
  <2>4. QED
    BY <1>1, <2>2, <2>3
<1>3. ASSUME NEW d \in S, NEW e \in S, d < e PROVE Cardinality(Below(d)) # Cardinality(Below(e))
  <2>1. \A x \in S : x <= d => x <= e
    BY <1>3
  <2>2. e <= e /\ ~(e <= d)
    BY <1>3
  <2>3. Below(d) \in SUBSET Below(e) /\ e \in Below(e) /\ e \notin Below(d)
    BY <2>1, <2>2
  <2>4. QED
    BY <1>2, <2>3, FS_Subset
<1> HIDE DEF Below
<1>4. ASSUME NEW d \in S, NEW e \in S, Cardinality(Below(d)) = Cardinality(Below(e)) PROVE d = e
  BY <1>3, <1>4
<1>5. rk \in Injection(S, 1 .. n)
  <2>1. rk \in [S -> 1 .. n]
    BY <1>2
  <2>2. QED
    BY <1>4, <2>1 DEF Injection, IsInjective
<1>6. rk \in Surjection(S, 1 .. n)
  <2>1. IsFiniteSet(1 .. n) /\ Cardinality(1 .. n) = n
    BY <1>1, FS_Interval
  <2>2. QED
    BY <1>5, <2>1, FS_Injection
<1>7. ASSUME NEW k \in 1 .. n PROVE \E d \in S : Cardinality(Below(d)) = k
  BY <1>6 DEF Surjection
<1> DEFINE f == [k \in 1 .. n |-> CHOOSE d \in S : Cardinality(Below(d)) = k]
<1>8. InOrder(S) = f
  BY Zenon DEF InOrder, Below
<1>9. ASSUME NEW k \in 1 .. n PROVE f[k] \in S /\ Cardinality(Below(f[k])) = k
  BY <1>7
<1>10. ASSUME NEW x \in S PROVE \E i \in 1 .. n : f[i] = x
  BY <1>2, <1>4, <1>9
<1> HIDE DEF n
<1>11. f \in Seq(S) /\ Len(f) = n
  BY <1>1, <1>9
<1> HIDE DEF f
<1>12. QED
  BY <1>1, <1>8, <1>10, <1>11 DEF n

-----------------------------------------------------------------------------
(* The search.  Each device it has met has a level, the number of steps to *)
(* its root, which grows along the queue by one at most.                   *)

GraphOk(g) == g \subseteq Devices \X Devices /\ \A e \in g : <<e[2], e[1]>> \in g

In(q) == {q[i] : i \in 1 .. Len(q)}

\* Devices hang from their root at their level.
Hung(g, ids, par, lev, top) ==
  /\ DOMAIN par \subseteq Devices /\ par \in [DOMAIN par -> Devices \cup {0}]
  /\ lev \in [DOMAIN par -> Nat] /\ top \in [DOMAIN par -> DOMAIN par \cap ids]
  /\ \A d \in DOMAIN par :
       /\ lev[d] < Cardinality(DOMAIN par) /\ par[top[d]] = 0
       /\ par[d] = 0 => lev[d] = 0 /\ top[d] = d
       /\ par[d] # 0 => /\ par[d] \in DOMAIN par /\ <<d, par[d]>> \in g
                        /\ lev[d] = lev[par[d]] + 1 /\ top[d] = top[par[d]]

\* The queue holds devices of one part in the order of their levels.
Ordered(par, q, lev, top) ==
  /\ q \in Seq(DOMAIN par)
  /\ \A i \in 1 .. Len(q) : top[q[i]] = top[q[1]] /\ lev[q[i]] <= lev[q[1]] + 1
  /\ \A i, j \in 1 .. Len(q) : i <= j => lev[q[i]] <= lev[q[j]]

\* The neighbours of a device that was visited are there, one level down at most, and
\* no device of the part was visited before one of a lower level.
Visited(g, par, q, lev, top) ==
  \A d \in DOMAIN par \ In(q) :
    /\ \A n \in Neighbours(g, d) : n \in DOMAIN par /\ top[n] = top[d] /\ lev[n] <= lev[d] + 1
    /\ q # <<>> /\ top[d] = top[q[1]] => lev[d] <= lev[q[1]]

\* A root is the configured one, or none that was left then had more neighbours.
Chosen(g, ids, par, top) ==
  \A d \in DOMAIN par :
    \/ top[d] = Root
    \/ \A e \in ids : (e \notin DOMAIN par \/ top[e] = top[d]) => Degree(g, top[d]) >= Degree(g, e)

Search(g, ids, par, q, lev, top) ==
  /\ Hung(g, ids, par, lev, top) /\ Ordered(par, q, lev, top)
  /\ Visited(g, par, q, lev, top) /\ Chosen(g, ids, par, top)

\* The configured root is one.
RootMet(ids, par) == Root \in ids => Root \in DOMAIN par /\ par[Root] = 0

\* What is left to do: two for each device not met, one for each in the queue.
Todo(s) == 2 * (Cardinality(Devices) - Cardinality(DOMAIN s.parent)) + Len(s.queue)

LEMMA DevicesFinite == IsFiniteSet(Devices) /\ Devices \subseteq Nat \ {0} /\ Cardinality(Devices) \in Nat
BY LinksAssumption, FS_CardinalityType

LEMMA NeighboursOk ==
  ASSUME NEW g, GraphOk(g), NEW d
  PROVE  /\ Neighbours(g, d) \subseteq Devices /\ IsFiniteSet(Neighbours(g, d)) /\ Degree(g, d) \in Nat
         /\ Degree(g, d) <= Cardinality(Devices)
         /\ \A n : n \in Neighbours(g, d) <=> <<d, n>> \in g
         /\ \A n : n \in Neighbours(g, d) => d \in Neighbours(g, n)
<1>1. \A x, n : n \in Neighbours(g, x) <=> <<x, n>> \in g
  <2> SUFFICES ASSUME NEW x, NEW n PROVE n \in Neighbours(g, x) <=> <<x, n>> \in g
    OBVIOUS
  <2>1. ASSUME <<x, n>> \in g PROVE n \in Neighbours(g, x)
    <3>1. <<x, n>>[1] = x /\ <<x, n>>[2] = n
      OBVIOUS
    <3>2. QED
      BY <2>1, <3>1 DEF Neighbours
  <2>2. ASSUME n \in Neighbours(g, x) PROVE <<x, n>> \in g
    <3>1. PICK e \in g : e[1] = x /\ n = e[2]
      BY <2>2 DEF Neighbours
    <3>2. e \in Devices \X Devices
      BY DEF GraphOk
    <3>3. e = <<e[1], e[2]>>
      BY <3>2
    <3>4. QED
      BY <3>1, <3>3
  <2>3. QED
    BY <2>1, <2>2
<1>2. \A x, n : <<x, n>> \in g => <<n, x>> \in g /\ n \in Devices
  <2> SUFFICES ASSUME NEW x, NEW n, <<x, n>> \in g PROVE <<n, x>> \in g /\ n \in Devices
    OBVIOUS
  <2>1. <<x, n>>[1] = x /\ <<x, n>>[2] = n
    OBVIOUS
  <2>2. QED
    BY <2>1 DEF GraphOk
<1>3. Neighbours(g, d) \subseteq Devices
  BY <1>1, <1>2
<1>4. IsFiniteSet(Neighbours(g, d)) /\ Cardinality(Neighbours(g, d)) \in Nat /\ Cardinality(Neighbours(g, d)) <= Cardinality(Devices)
  BY <1>3, DevicesFinite, FS_Subset, FS_CardinalityType
<1>5. QED
  BY <1>1, <1>2, <1>3, <1>4 DEF Degree

LEMMA SizeGrows ==
  ASSUME NEW P \in SUBSET Devices, NEW S \in SUBSET Devices, P \cap S = {}
  PROVE  /\ Cardinality(P) \in Nat /\ Cardinality(S) \in Nat
         /\ Cardinality(P \cup S) = Cardinality(P) + Cardinality(S)
         /\ S # {} => Cardinality(S) > 0
         /\ Cardinality(P \cup S) <= Cardinality(Devices)
<1>1. IsFiniteSet(P) /\ IsFiniteSet(S) /\ IsFiniteSet(P \cup S) /\ Cardinality(P \cup S) <= Cardinality(Devices)
  BY DevicesFinite, FS_Subset
<1>2. Cardinality(P) \in Nat /\ Cardinality(S) \in Nat /\ (S # {} => Cardinality(S) # 0)
  BY <1>1, FS_CardinalityType, FS_EmptySet
<1>3. Cardinality(P \cup S) = Cardinality(P) + Cardinality(S) - Cardinality(P \cap S) /\ Cardinality(P \cap S) = 0
  BY <1>1, FS_Union, FS_EmptySet
<1>4. QED
  BY <1>1, <1>2, <1>3

-----------------------------------------------------------------------------
(* A new root.                                                             *)

LEMMA RootHung ==
  ASSUME NEW g, NEW ids, NEW par, NEW lev, NEW top, Hung(g, ids, par, lev, top),
         NEW r \in ids \ DOMAIN par, r \in Devices
  PROVE  Hung(g, ids, Hang(par, {r}, 0), [d \in DOMAIN par \cup {r} |-> IF d = r THEN 0 ELSE lev[d]],
              [d \in DOMAIN par \cup {r} |-> IF d = r THEN r ELSE top[d]])
<1>0. PICK lev2, top2 : /\ lev2 = [d \in DOMAIN par \cup {r} |-> IF d = r THEN 0 ELSE lev[d]]
                        /\ top2 = [d \in DOMAIN par \cup {r} |-> IF d = r THEN r ELSE top[d]]
  OBVIOUS
<1> DEFINE P == DOMAIN par
           Q == P \cup {r}
<1>1. PICK h : h = Hang(par, {r}, 0)
  OBVIOUS
<1>2. /\ DOMAIN h = Q /\ h = [d \in Q |-> h[d]] /\ h[r] = 0
      /\ \A d \in P : h[d] = par[d]
  <2>1. /\ DOMAIN h = DOMAIN par \cup {r} /\ h = [d \in DOMAIN par \cup {r} |-> h[d]]
        /\ \A d \in DOMAIN par \cup {r} : h[d] = IF d \in {r} THEN 0 ELSE par[d]
    BY <1>1 DEF Hang
  <2>2. QED
    BY <2>1
<1>3. /\ P \subseteq Devices /\ par \in [P -> Devices \cup {0}]
      /\ lev \in [P -> Nat] /\ top \in [P -> P \cap ids]
  BY DEF Hung
<1>4. Cardinality(P) \in Nat /\ Cardinality(Q) = Cardinality(P) + Cardinality({r}) /\ Cardinality({r}) \in Nat /\ Cardinality({r}) > 0
  <2>1. P \in SUBSET Devices /\ {r} \in SUBSET Devices /\ P \cap {r} = {} /\ {r} # {}
    BY <1>3
  <2> HIDE DEF P
  <2>2. QED
    BY <2>1, SizeGrows
<1>41. PICK k \in Nat, m \in Nat : k = Cardinality(P) /\ m = Cardinality(Q) /\ k < m
  BY <1>4
<1>5. Q \subseteq Devices /\ h \in [Q -> Devices \cup {0}] /\ lev2 \in [Q -> Nat] /\ top2 \in [Q -> Q \cap ids]
  <2>1. \A d \in Q : h[d] \in Devices \cup {0}
    BY <1>2, <1>3
  <2>2. h \in [Q -> Devices \cup {0}]
    BY <1>2, <2>1
  <2>3. QED
    BY <1>0, <1>3, <2>2
<1>6. lev2[r] = 0 /\ top2[r] = r /\ \A d \in P : lev2[d] = lev[d] /\ top2[d] = top[d]
  BY <1>0
<1>7. ASSUME NEW d \in P
      PROVE  /\ lev[d] < Cardinality(P) /\ par[top[d]] = 0 /\ top[d] \in P /\ lev[d] \in Nat
             /\ par[d] = 0 => lev[d] = 0 /\ top[d] = d
             /\ par[d] # 0 => /\ par[d] \in P /\ <<d, par[d]>> \in g
                              /\ lev[d] = lev[par[d]] + 1 /\ top[d] = top[par[d]]
  BY <1>3 DEF Hung
<1> HIDE DEF P, Q
<1>8. ASSUME NEW d \in Q
      PROVE  /\ lev2[d] < Cardinality(Q) /\ h[top2[d]] = 0
             /\ h[d] = 0 => lev2[d] = 0 /\ top2[d] = d
             /\ h[d] # 0 => /\ h[d] \in Q /\ <<d, h[d]>> \in g
                            /\ lev2[d] = lev2[h[d]] + 1 /\ top2[d] = top2[h[d]]
  <2>1. CASE d = r
    <3>1. h[r] = 0 /\ lev2[r] = 0 /\ top2[r] = r /\ 0 < Cardinality(Q)
      BY <1>2, <1>4, <1>6
    <3>2. QED
      BY <2>1, <3>1
  <2>2. CASE d \in P
    <3>1. h[d] = par[d] /\ lev2[d] = lev[d] /\ top2[d] = top[d] /\ h[top[d]] = par[top[d]]
      BY <1>2, <1>6, <1>7, <2>2
    <3>0. lev[d] \in Nat /\ lev[d] < Cardinality(P)
      BY <1>7, <2>2
    <3>5. lev[d] < Cardinality(Q) /\ 0 < Cardinality(Q)
      BY <1>41, <3>0
    <3>2. CASE par[d] = 0
      <4>1. h[d] = 0 /\ lev2[d] = 0 /\ top2[d] = d /\ h[top2[d]] = 0
        BY <1>7, <2>2, <3>1, <3>2
      <4>2. QED
        BY <3>5, <4>1
    <3>3. CASE par[d] # 0
      <4>1. par[d] \in P /\ par[d] \in Q /\ lev2[par[d]] = lev[par[d]] /\ top2[par[d]] = top[par[d]]
        BY <1>6, <1>7, <2>2, <3>3 DEF Q
      <4>2. QED
        BY <1>7, <2>2, <3>1, <3>3, <3>5, <4>1
    <3>4. QED
      BY <3>2, <3>3
  <2>3. QED
    BY <2>1, <2>2 DEF Q
<1>9. Hung(g, ids, h, lev2, top2)
  BY <1>2, <1>5, <1>8 DEF Hung
<1>10. QED
  BY <1>0, <1>1, <1>9, Zenon

LEMMA RootSearch ==
  ASSUME NEW g, GraphOk(g), NEW ids \in SUBSET Devices, NEW par, NEW lev, NEW top,
         Search(g, ids, par, <<>>, lev, top), NEW r \in ids \ DOMAIN par,
         r = Root \/ \A e \in ids \ DOMAIN par : Degree(g, r) >= Degree(g, e)
  PROVE  \E lev2, top2 : Search(g, ids, Hang(par, {r}, 0), <<r>>, lev2, top2)
<1> PICK P : P = DOMAIN par
  OBVIOUS
<1> PICK Q : Q = P \cup {r}
  OBVIOUS
<1> PICK lev2 : lev2 = [d \in P \cup {r} |-> IF d = r THEN 0 ELSE lev[d]]
  OBVIOUS
<1> PICK top2 : top2 = [d \in P \cup {r} |-> IF d = r THEN r ELSE top[d]]
  OBVIOUS
<1> PICK h : h = Hang(par, {r}, 0)
  OBVIOUS
<1>1. r \in Devices /\ r \notin P /\ r \in ids
  OBVIOUS
<1>2. Hung(g, ids, h, lev2, top2)
  <2>1. /\ lev2 = [d \in DOMAIN par \cup {r} |-> IF d = r THEN 0 ELSE lev[d]]
        /\ top2 = [d \in DOMAIN par \cup {r} |-> IF d = r THEN r ELSE top[d]]
    OBVIOUS
  <2>2. Hung(g, ids, par, lev, top)
    BY DEF Search
  <2>3. r \in ids \ DOMAIN par
    OBVIOUS
  <2>4. Hung(g, ids, Hang(par, {r}, 0), [d \in DOMAIN par \cup {r} |-> IF d = r THEN 0 ELSE lev[d]],
             [d \in DOMAIN par \cup {r} |-> IF d = r THEN r ELSE top[d]])
    BY <1>1, <2>2, <2>3, RootHung
  <2>5. QED
    BY <2>1, <2>4, Zenon
<1>3. DOMAIN h = Q
  BY DEF Hang
<1>4. lev2[r] = 0 /\ top2[r] = r /\ \A d \in P : lev2[d] = lev[d] /\ top2[d] = top[d]
  BY <1>1
<1>5. \A d \in P : top[d] \in P /\ top[d] # r
  BY <1>1 DEF Search, Hung
<1>6. Ordered(h, <<r>>, lev2, top2)
  <2>1. <<r>> \in Seq(DOMAIN h) /\ Len(<<r>>) = 1 /\ <<r>>[1] = r
    BY <1>3
  <2>2. \A i \in 1 .. Len(<<r>>) : i = 1
    BY <2>1
  <2> PICK q : q = <<r>>
    OBVIOUS
  <2>3. \A i \in 1 .. Len(q) : q[i] = r
    BY <2>1, <2>2
  <2>4. Ordered(h, q, lev2, top2)
    BY <1>4, <2>1, <2>3 DEF Ordered
  <2>5. QED
    BY <2>4
<1>7. Visited(g, h, <<r>>, lev2, top2)
  <2>1. \A d \in P : \A n \in Neighbours(g, d) : n \in P /\ top[n] = top[d] /\ lev[n] <= lev[d] + 1
    BY DEF Search, Visited, In
  <2>2. r \in In(<<r>>) /\ <<r>>[1] = r
    <3>1. Len(<<r>>) = 1 /\ <<r>>[1] = r
      OBVIOUS
    <3>2. QED
      BY <3>1 DEF In
  <2> PICK q : q = <<r>>
    OBVIOUS
  <2>3. ASSUME NEW d \in Q \ In(q)
        PROVE  /\ \A n \in Neighbours(g, d) : n \in Q /\ top2[n] = top2[d] /\ lev2[n] <= lev2[d] + 1
               /\ top2[d] # top2[q[1]]
    <3>1. d \in P
      BY <2>2, <2>3
    <3>2. lev2[d] = lev[d] /\ top2[d] = top[d] /\ top2[q[1]] = r
      BY <1>4, <2>2, <3>1
    <3>3. ASSUME NEW n \in Neighbours(g, d) PROVE n \in Q /\ top2[n] = top2[d] /\ lev2[n] <= lev2[d] + 1
      <4>1. n \in P /\ top[n] = top[d] /\ lev[n] <= lev[d] + 1
        BY <2>1, <3>1
      <4>2. QED
        BY <1>4, <3>2, <4>1
    <3>4. QED
      BY <1>5, <3>1, <3>2, <3>3
  <2>4. Visited(g, h, q, lev2, top2)
    BY <1>3, <2>3 DEF Visited
  <2>5. QED
    BY <2>4
<1>8. Chosen(g, ids, h, top2)
  <2>1. ASSUME NEW d \in Q, top2[d] # Root, NEW e \in ids, e \notin Q \/ top2[e] = top2[d]
        PROVE  Degree(g, top2[d]) >= Degree(g, e)
    <3>1. CASE d = r
      <4>1. top2[d] = r /\ r # Root
        BY <1>4, <2>1, <3>1
      <4>2. CASE e \in ids \ P
        BY <4>1, <4>2
      <4>3. CASE e \in P
        BY <1>4, <1>5, <2>1, <4>1, <4>3
      <4>4. QED
        BY <4>2, <4>3
    <3>2. CASE d \in P
      <4>1. top2[d] = top[d]
        BY <1>4, <3>2
      <4>2. e \notin P \/ top[e] = top[d]
        BY <1>4, <2>1, <4>1
      <4>3. QED
        BY <2>1, <3>2, <4>1, <4>2 DEF Search, Chosen
    <3>3. QED
      BY <3>1, <3>2
  <2>2. QED
    BY <1>3, <2>1 DEF Chosen
<1>9. Search(g, ids, h, <<r>>, lev2, top2)
  BY <1>2, <1>6, <1>7, <1>8 DEF Search
<1>10. QED
  BY <1>9

-----------------------------------------------------------------------------
(* A visit.                                                                *)

\* A visit of the head cur: the new ones are met and go behind.
VisitOf(g, par, q, h, r, lev, top, lev2, top2, cur, new, ins) ==
  /\ q \in Seq(DOMAIN par) /\ q # <<>> /\ cur = q[1] /\ cur \in DOMAIN par
  /\ new = Neighbours(g, cur) \ DOMAIN par /\ new \cap DOMAIN par = {}
  /\ ins \in Seq(new) /\ r = Tail(q) \o ins
  /\ lev \in [DOMAIN par -> Nat] /\ DOMAIN h = DOMAIN par \cup new
  /\ h = Hang(par, new, cur)
  /\ lev2 = [d \in DOMAIN par \cup new |-> lev2[d]] /\ top2 = [d \in DOMAIN par \cup new |-> top2[d]]
  /\ \A d \in new : lev2[d] = lev[cur] + 1 /\ top2[d] = top[cur]
  /\ \A d \in DOMAIN par : lev2[d] = lev[d] /\ top2[d] = top[d]

LEMMA VisitHung ==
  ASSUME NEW g, GraphOk(g), NEW ids,
         NEW par, NEW q, NEW h, NEW r, NEW lev, NEW top, NEW lev2, NEW top2, NEW cur, NEW new, NEW ins,
         VisitOf(g, par, q, h, r, lev, top, lev2, top2, cur, new, ins), Hung(g, ids, par, lev, top)
  PROVE  Hung(g, ids, h, lev2, top2)
<1> PICK P : P = DOMAIN par
  OBVIOUS
<1> PICK Q : Q = P \cup new
  OBVIOUS
<1>0. /\ cur \in P /\ new = Neighbours(g, cur) \ P /\ h = Hang(par, new, cur)
      /\ lev2 = [d \in Q |-> lev2[d]] /\ top2 = [d \in Q |-> top2[d]]
      /\ \A d \in new : lev2[d] = lev[cur] + 1 /\ top2[d] = top[cur]
      /\ \A d \in P : lev2[d] = lev[d] /\ top2[d] = top[d]
  BY DEF VisitOf
<1>1. new \subseteq Devices /\ new \cap P = {} /\ \A d \in new : <<d, cur>> \in g
  BY <1>0, NeighboursOk
<1>2. /\ DOMAIN h = Q /\ h = [d \in Q |-> h[d]]
      /\ \A d \in new : h[d] = cur
      /\ \A d \in P : h[d] = par[d]
  BY <1>0, <1>1 DEF Hang
<1>3. /\ P \subseteq Devices /\ par \in [P -> Devices \cup {0}]
      /\ lev \in [P -> Nat] /\ top \in [P -> P \cap ids] /\ cur \in P /\ cur \in Devices /\ cur # 0
  BY <1>0, DevicesFinite DEF Hung
<1>4. PICK k \in Nat, m \in Nat : /\ k = Cardinality(P) /\ m = Cardinality(Q)
                                  /\ k <= m /\ (new # {} => k < m)
  <2>1. P \in SUBSET Devices /\ new \in SUBSET Devices /\ P \cap new = {}
    BY <1>1, <1>3
  <2>2. /\ Cardinality(P) \in Nat /\ Cardinality(new) \in Nat /\ (new # {} => Cardinality(new) > 0)
        /\ Cardinality(Q) = Cardinality(P) + Cardinality(new)
    BY <2>1, SizeGrows
  <2>3. QED
    BY <2>2
<1>5. Q \subseteq Devices /\ h \in [Q -> Devices \cup {0}] /\ lev2 \in [Q -> Nat] /\ top2 \in [Q -> Q \cap ids]
  <2>1. \A d \in Q : h[d] \in Devices \cup {0}
    BY <1>2, <1>3
  <2>2. h \in [Q -> Devices \cup {0}]
    BY <1>2, <2>1
  <2>3. ASSUME NEW d \in Q PROVE lev2[d] \in Nat /\ top2[d] \in Q \cap ids
    <3>0. lev[cur] + 1 \in Nat /\ top[cur] \in Q \cap ids
      BY <1>3
    <3>1. CASE d \in new
      BY <1>0, <3>0, <3>1
    <3>2. CASE d \in P
      BY <1>0, <1>3, <3>2
    <3>3. QED
      BY <3>1, <3>2
  <2>4. lev2 \in [Q -> Nat] /\ top2 \in [Q -> Q \cap ids]
    BY <1>0, <2>3
  <2>5. QED
    BY <1>1, <1>3, <2>2, <2>4
<1>6. /\ \A d \in new : lev2[d] = lev[cur] + 1 /\ top2[d] = top[cur]
      /\ \A d \in P : lev2[d] = lev[d] /\ top2[d] = top[d]
  BY <1>0
<1>7. ASSUME NEW d \in P
      PROVE  /\ lev[d] < Cardinality(P) /\ par[top[d]] = 0 /\ top[d] \in P /\ lev[d] \in Nat
             /\ par[d] = 0 => lev[d] = 0 /\ top[d] = d
             /\ par[d] # 0 => /\ par[d] \in P /\ <<d, par[d]>> \in g
                              /\ lev[d] = lev[par[d]] + 1 /\ top[d] = top[par[d]]
  BY <1>3 DEF Hung
<1>8. ASSUME NEW d \in Q
      PROVE  /\ lev2[d] < Cardinality(Q) /\ h[top2[d]] = 0
             /\ h[d] = 0 => lev2[d] = 0 /\ top2[d] = d
             /\ h[d] # 0 => /\ h[d] \in Q /\ <<d, h[d]>> \in g
                            /\ lev2[d] = lev2[h[d]] + 1 /\ top2[d] = top2[h[d]]
  <2>1. CASE d \in new
    <3>1. h[d] = cur /\ lev2[d] = lev[cur] + 1 /\ top2[d] = top[cur] /\ lev2[cur] = lev[cur] /\ top2[cur] = top[cur]
      BY <1>2, <1>3, <1>6, <2>1
    <3>2. lev[cur] \in Nat /\ lev[cur] < Cardinality(P) /\ top[cur] \in P /\ par[top[cur]] = 0
      BY <1>3, <1>7
    <3>3. lev[cur] + 1 < Cardinality(Q)
      BY <1>4, <2>1, <3>2
    <3>4. h[top[cur]] = 0 /\ cur \in Q /\ <<d, cur>> \in g
      BY <1>1, <1>2, <1>3, <2>1, <3>2
    <3>5. QED
      BY <1>3, <3>1, <3>3, <3>4
  <2>2. CASE d \in P
    <3>1. h[d] = par[d] /\ lev2[d] = lev[d] /\ top2[d] = top[d] /\ h[top[d]] = par[top[d]]
      BY <1>2, <1>6, <1>7, <2>2
    <3>2. lev[d] \in Nat /\ lev[d] < Cardinality(P)
      BY <1>7, <2>2
    <3>3. lev[d] < Cardinality(Q)
      BY <1>4, <3>2
    <3>4. CASE par[d] = 0
      <4>1. h[d] = 0 /\ lev2[d] = 0 /\ top2[d] = d /\ h[top2[d]] = 0
        BY <1>7, <2>2, <3>1, <3>4
      <4>2. QED
        BY <3>1, <3>3, <4>1
    <3>5. CASE par[d] # 0
      <4>1. par[d] \in P /\ par[d] \in Q /\ lev2[par[d]] = lev[par[d]] /\ top2[par[d]] = top[par[d]]
        BY <1>6, <1>7, <2>2, <3>5
      <4>2. QED
        BY <1>7, <2>2, <3>1, <3>5, <3>3, <4>1
    <3>6. QED
      BY <3>4, <3>5
  <2>3. QED
    BY <2>1, <2>2
<1>9. Hung(g, ids, h, lev2, top2)
  BY <1>2, <1>5, <1>8 DEF Hung
<1>10. QED
  BY <1>9

\* The queue without its head and with the new ones behind.
LEMMA QueueIs ==
  ASSUME NEW P, NEW q \in Seq(P), q # <<>>, NEW ins \in Seq(P), NEW r, r = Tail(q) \o ins
  PROVE  /\ Len(q) \in Nat \ {0} /\ r \in Seq(P) /\ Len(r) = Len(q) - 1 + Len(ins)
         /\ \A i \in 1 .. Len(r) : IF i < Len(q) THEN r[i] = q[i + 1] /\ i + 1 \in 1 .. Len(q)
                                   ELSE r[i] = ins[i - (Len(q) - 1)] /\ i - (Len(q) - 1) \in 1 .. Len(ins)
         /\ \A i \in 2 .. Len(q) : q[i] \in In(r)
         /\ \A i \in 1 .. Len(ins) : ins[i] \in In(r)
<1>1. Len(q) \in Nat \ {0} /\ Len(ins) \in Nat
  BY EmptySeq
<1>2. PICK t : t = Tail(q)
  OBVIOUS
<1>3. t \in Seq(P) /\ Len(t) = Len(q) - 1 /\ \A i \in 1 .. Len(t) : t[i] = q[i + 1]
  BY <1>2, HeadTailProperties
<1>4. r \in Seq(P) /\ Len(r) = Len(t) + Len(ins)
      /\ \A i \in 1 .. Len(r) : r[i] = IF i <= Len(t) THEN t[i] ELSE ins[i - Len(t)]
  BY <1>2, <1>3, ConcatProperties
<1>5. ASSUME NEW i \in 1 .. Len(r)
      PROVE  IF i < Len(q) THEN r[i] = q[i + 1] /\ i + 1 \in 1 .. Len(q)
             ELSE r[i] = ins[i - (Len(q) - 1)] /\ i - (Len(q) - 1) \in 1 .. Len(ins)
  BY <1>1, <1>3, <1>4
<1>6. ASSUME NEW i \in 2 .. Len(q) PROVE q[i] \in In(r)
  <2>1. i - 1 \in 1 .. Len(r) /\ i - 1 < Len(q) /\ i - 1 + 1 = i
    BY <1>1, <1>3, <1>4
  <2>2. r[i - 1] = q[i]
    BY <1>5, <2>1
  <2>3. QED
    BY <2>1, <2>2 DEF In
<1>7. ASSUME NEW i \in 1 .. Len(ins) PROVE ins[i] \in In(r)
  <2>1. i + (Len(q) - 1) \in 1 .. Len(r) /\ ~(i + (Len(q) - 1) < Len(q)) /\ i + (Len(q) - 1) - (Len(q) - 1) = i
    BY <1>1, <1>3, <1>4
  <2>2. r[i + (Len(q) - 1)] = ins[i]
    BY <1>5, <2>1
  <2>3. QED
    BY <2>1, <2>2 DEF In
<1>8. QED
  BY <1>1, <1>3, <1>4, <1>5, <1>6, <1>7

LEMMA VisitOrdered ==
  ASSUME NEW g, NEW par, NEW q, NEW h, NEW r, NEW lev, NEW top, NEW lev2, NEW top2, NEW cur, NEW new, NEW ins,
         VisitOf(g, par, q, h, r, lev, top, lev2, top2, cur, new, ins), Ordered(par, q, lev, top)
  PROVE  /\ Ordered(h, r, lev2, top2)
         /\ \A i \in 1 .. Len(r) : /\ top2[r[i]] = top[cur] /\ lev[cur] <= lev2[r[i]]
                                   /\ lev2[r[i]] <= lev[cur] + 1
<1> PICK P : P = DOMAIN par
  OBVIOUS
<1> PICK Q : Q = P \cup new
  OBVIOUS
<1>0. /\ P \cap new = {} /\ DOMAIN h = Q /\ lev \in [P -> Nat] /\ q \in Seq(P) /\ q # <<>> /\ cur = q[1]
      /\ cur \in P /\ new = Neighbours(g, cur) \ P
      /\ \A d \in new : lev2[d] = lev[cur] + 1 /\ top2[d] = top[cur]
      /\ \A d \in P : lev2[d] = lev[d] /\ top2[d] = top[d]
      /\ ins \in Seq(new) /\ r = Tail(q) \o ins
  BY DEF VisitOf
<1> USE <1>0
<1> PICK n : n = Len(q)
  OBVIOUS
<1>1. q \in Seq(Q) /\ ins \in Seq(Q)
  OBVIOUS
<1>2. /\ n \in Nat \ {0} /\ r \in Seq(Q)
      /\ \A i \in 1 .. Len(r) : IF i < n THEN r[i] = q[i + 1] /\ i + 1 \in 1 .. n
                                ELSE r[i] = ins[i - (n - 1)] /\ i - (n - 1) \in 1 .. Len(ins)
  BY <1>1, QueueIs
<1>3. 1 \in 1 .. n /\ cur \in P /\ lev[cur] \in Nat
  BY <1>2
<1>4. ASSUME NEW i \in 1 .. n
      PROVE  /\ q[i] \in P /\ lev[q[i]] \in Nat /\ top[q[i]] = top[cur]
             /\ lev[cur] <= lev[q[i]] /\ lev[q[i]] <= lev[cur] + 1
  <2>1. i \in 1 .. Len(q) /\ 1 \in 1 .. Len(q) /\ 1 <= i
    BY <1>3
  <2>2. q[i] \in P /\ cur = q[1]
    BY <2>1
  <2>3. /\ \A j \in 1 .. Len(q) : top[q[j]] = top[q[1]] /\ lev[q[j]] <= lev[q[1]] + 1
        /\ \A j, k \in 1 .. Len(q) : j <= k => lev[q[j]] <= lev[q[k]]
    BY DEF Ordered
  <2> PICK x : x = q[i]
    OBVIOUS
  <2>4. top[x] = top[cur] /\ lev[x] <= lev[cur] + 1 /\ lev[cur] <= lev[x]
    BY <2>1, <2>2, <2>3
  <2>5. QED
    BY <2>2, <2>4
<1>5. ASSUME NEW i \in 1 .. Len(r)
      PROVE  /\ top2[r[i]] = top[cur] /\ lev2[r[i]] \in Nat /\ lev[cur] <= lev2[r[i]]
             /\ lev2[r[i]] <= lev[cur] + 1 /\ (~(i < n) => lev2[r[i]] = lev[cur] + 1)
             /\ i < n => r[i] = q[i + 1] /\ i + 1 \in 1 .. n /\ lev2[r[i]] = lev[q[i + 1]]
  <2>1. CASE i < n
    <3>1. r[i] = q[i + 1] /\ i + 1 \in 1 .. n
      BY <1>2, <2>1
    <3>2. lev2[r[i]] = lev[q[i + 1]] /\ top2[r[i]] = top[q[i + 1]]
      BY <1>4, <3>1
    <3>3. QED
      BY <1>4, <2>1, <3>1, <3>2
  <2>2. CASE ~(i < n)
    <3>1. r[i] \in new
      BY <1>2, <2>2
    <3>2. QED
      BY <1>3, <2>2, <3>1
  <2>3. QED
    BY <2>1, <2>2
<1>6. ASSUME NEW i \in 1 .. Len(r), NEW j \in 1 .. Len(r), i <= j PROVE lev2[r[i]] <= lev2[r[j]]
  <2>1. i \in Nat /\ j \in Nat
    BY <1>2
  <2>2. CASE j < n
    <3>1. i < n /\ i + 1 <= j + 1 /\ i + 1 \in 1 .. n /\ j + 1 \in 1 .. n
      BY <1>2, <1>6, <2>1, <2>2
    <3>2. lev[q[i + 1]] <= lev[q[j + 1]]
      BY <3>1 DEF Ordered
    <3>3. QED
      BY <1>5, <2>2, <3>1, <3>2
  <2>3. CASE ~(j < n)
    <3>1. lev2[r[i]] <= lev[cur] + 1 /\ lev2[r[j]] = lev[cur] + 1
      <4> HIDE <1>0
      <4>1. QED
        BY <1>5, <2>3
    <3>2. QED
      BY <3>1
  <2>4. QED
    BY <2>2, <2>3
<1>7. ASSUME NEW i \in 1 .. Len(r) PROVE top2[r[i]] = top2[r[1]] /\ lev2[r[i]] <= lev2[r[1]] + 1
  <2>1. 1 \in 1 .. Len(r)
    <3>1. Len(r) \in Nat
      BY <1>2
    <3> HIDE <1>0
    <3>2. QED
      BY <3>1
  <2>2. lev2[r[i]] \in Nat /\ lev2[r[1]] \in Nat /\ lev[cur] <= lev2[r[1]] /\ lev2[r[i]] <= lev[cur] + 1
    BY <1>5, <2>1
  <2>3. top2[r[i]] = top2[r[1]]
    <3> HIDE <1>0
    <3>1. top2[r[i]] = top[cur] /\ top2[r[1]] = top[cur]
      BY <1>5, <2>1
    <3>2. QED
      BY <3>1
  <2>4. lev2[r[i]] <= lev2[r[1]] + 1
    <3>1. PICK a, b, c : a = lev2[r[i]] /\ b = lev2[r[1]] /\ c = lev[cur]
      OBVIOUS
    <3> HIDE <1>0
    <3>2. a \in Nat /\ b \in Nat /\ c \in Nat /\ c <= b /\ a <= c + 1
      BY <1>3, <2>2, <3>1
    <3>3. a <= b + 1
      BY <3>2
    <3>4. QED
      BY <3>1, <3>3
  <2>5. QED
    BY <2>3, <2>4
<1>8. Ordered(h, r, lev2, top2)
  BY <1>2, <1>6, <1>7 DEF Ordered
<1>9. QED
  BY <1>5, <1>8

LEMMA VisitVisited ==
  ASSUME NEW g, GraphOk(g),
         NEW par, NEW q, NEW h, NEW r, NEW lev, NEW top, NEW lev2, NEW top2, NEW cur, NEW new, NEW ins,
         VisitOf(g, par, q, h, r, lev, top, lev2, top2, cur, new, ins),
         Ordered(par, q, lev, top), Visited(g, par, q, lev, top),
         In(q) \subseteq In(r) \cup {cur}, new \subseteq In(r),
         \A i \in 1 .. Len(r) : top2[r[i]] = top[cur] /\ lev[cur] <= lev2[r[i]] /\ lev2[r[i]] \in Nat,
         r # <<>> => 1 \in 1 .. Len(r)
  PROVE  Visited(g, h, r, lev2, top2)
<1> PICK P : P = DOMAIN par
  OBVIOUS
<1> PICK Q : Q = P \cup new
  OBVIOUS
<1>0. /\ P \cap new = {} /\ DOMAIN h = Q /\ lev \in [P -> Nat] /\ q \in Seq(P) /\ q # <<>> /\ cur = q[1]
      /\ cur \in P /\ new = Neighbours(g, cur) \ P
      /\ \A d \in new : lev2[d] = lev[cur] + 1 /\ top2[d] = top[cur]
      /\ \A d \in P : lev2[d] = lev[d] /\ top2[d] = top[d]
      /\ ins \in Seq(new) /\ r = Tail(q) \o ins
  BY DEF VisitOf
<1> USE <1>0
<1>1. ASSUME NEW d \in P \ In(q)
      PROVE  /\ \A n \in Neighbours(g, d) : n \in P /\ top[n] = top[d] /\ lev[n] <= lev[d] + 1
             /\ top[d] = top[cur] => lev[d] <= lev[cur]
  BY DEF Visited
<1>2. ASSUME NEW d \in In(q) PROVE d \in P /\ top[d] = top[cur] /\ lev[d] <= lev[cur] + 1
  <2>1. PICK i \in 1 .. Len(q) : d = q[i]
    BY <1>2 DEF In
  <2>2. \A j \in 1 .. Len(q) : top[q[j]] = top[q[1]] /\ lev[q[j]] <= lev[q[1]] + 1
    BY DEF Ordered
  <2>3. d \in P
    BY <2>1
  <2>4. QED
    BY <2>1, <2>2, <2>3
<1>3. ASSUME NEW d \in Q \ In(r)
      PROVE  /\ \A n \in Neighbours(g, d) : n \in Q /\ top2[n] = top2[d] /\ lev2[n] <= lev2[d] + 1
             /\ top2[d] = top[cur] => lev2[d] <= lev[cur]
  <2>1. d \in P /\ (d = cur \/ d \notin In(q))
    BY <1>3
  <2>2. lev2[d] = lev[d] /\ top2[d] = top[d] /\ lev[d] \in Nat
    BY <2>1
  <2>3. CASE d \notin In(q)
    <3>1. ASSUME NEW n \in Neighbours(g, d) PROVE n \in Q /\ top2[n] = top2[d] /\ lev2[n] <= lev2[d] + 1
      <4>1. n \in P /\ top[n] = top[d] /\ lev[n] <= lev[d] + 1
        BY <1>1, <2>1, <2>3
      <4>2. QED
        BY <2>2, <4>1
    <3>2. QED
      BY <1>1, <2>1, <2>2, <2>3, <3>1
  <2>4. CASE d = cur
    <3>1. ASSUME NEW n \in Neighbours(g, cur) PROVE n \in Q /\ top2[n] = top[cur] /\ lev2[n] <= lev[cur] + 1
      <4>1. CASE n \in new
        <5>1. lev[cur] + 1 <= lev[cur] + 1
          BY <2>2, <2>4
        <5>2. QED
          BY <4>1, <5>1
      <4>2. CASE n \in In(q)
        BY <1>2, <4>2
      <4>3. CASE n \in P \ In(q)
        <5>1. cur \in Neighbours(g, n)
          BY NeighboursOk
        <5>2. top[cur] = top[n] /\ lev[n] <= lev[cur] /\ lev[n] \in Nat /\ lev[cur] \in Nat
          BY <1>1, <4>3, <5>1
        <5>3. lev[n] <= lev[cur] + 1
          BY <5>2
        <5>4. QED
          BY <4>3, <5>2, <5>3
      <4>4. QED
        BY <4>1, <4>2, <4>3
    <3>2. lev[cur] <= lev[cur]
      BY <2>2, <2>4
    <3>3. QED
      BY <2>2, <2>4, <3>1, <3>2
  <2>5. QED
    BY <2>1, <2>3, <2>4
<1>4. ASSUME NEW d \in Q \ In(r), r # <<>>, top2[d] = top2[r[1]] PROVE lev2[d] <= lev2[r[1]]
  <2>1. top2[r[1]] = top[cur] /\ lev[cur] <= lev2[r[1]] /\ lev2[r[1]] \in Nat /\ lev[cur] \in Nat
    BY <1>4
  <2>2. lev2[d] <= lev[cur]
    BY <1>3, <1>4, <2>1
  <2>3. lev2[d] \in Nat
    BY <1>4
  <2>4. PICK a, b, c : a = lev2[d] /\ b = lev2[r[1]] /\ c = lev[cur]
    OBVIOUS
  <2>5. a <= b
    <3>1. a \in Nat /\ b \in Nat /\ c \in Nat /\ c <= b /\ a <= c
      BY <2>1, <2>2, <2>3, <2>4
    <3> HIDE <1>0
    <3>2. QED
      BY <3>1
  <2>6. QED
    BY <2>4, <2>5
<1>5. QED
  BY <1>3, <1>4 DEF Visited

LEMMA VisitChosen ==
  ASSUME NEW g, NEW ids,
         NEW par, NEW q, NEW h, NEW r, NEW lev, NEW top, NEW lev2, NEW top2, NEW cur, NEW new, NEW ins,
         VisitOf(g, par, q, h, r, lev, top, lev2, top2, cur, new, ins), Chosen(g, ids, par, top)
  PROVE  Chosen(g, ids, h, top2)
<1> PICK P : P = DOMAIN par
  OBVIOUS
<1> PICK Q : Q = P \cup new
  OBVIOUS
<1>0. /\ P \cap new = {} /\ DOMAIN h = Q /\ lev \in [P -> Nat] /\ q \in Seq(P) /\ q # <<>> /\ cur = q[1]
      /\ cur \in P /\ new = Neighbours(g, cur) \ P
      /\ \A d \in new : lev2[d] = lev[cur] + 1 /\ top2[d] = top[cur]
      /\ \A d \in P : lev2[d] = lev[d] /\ top2[d] = top[d]
      /\ ins \in Seq(new) /\ r = Tail(q) \o ins
  BY DEF VisitOf
<1> USE <1>0
<1>1. ASSUME NEW d \in Q, top2[d] # Root, NEW e \in ids, e \notin Q \/ top2[e] = top2[d]
      PROVE  Degree(g, top2[d]) >= Degree(g, e)
  <2>1. PICK x \in P : top2[d] = top[x]
    OBVIOUS
  <2>2. e \notin P \/ top[e] = top[x]
    BY <1>1, <2>1
  <2>3. QED
    BY <1>1, <2>1, <2>2 DEF Chosen
<1>2. QED
  BY <1>1 DEF Chosen

LEMMA VisitKeeps ==
  ASSUME NEW g, GraphOk(g), NEW ids,
         NEW par, NEW q, NEW h, NEW r, NEW lev, NEW top, NEW lev2, NEW top2, NEW cur, NEW new, NEW ins,
         VisitOf(g, par, q, h, r, lev, top, lev2, top2, cur, new, ins), Search(g, ids, par, q, lev, top),
         \A x \in new : \E i \in 1 .. Len(ins) : ins[i] = x
  PROVE  Search(g, ids, h, r, lev2, top2)
<1>1. /\ Hung(g, ids, par, lev, top) /\ Ordered(par, q, lev, top)
      /\ Visited(g, par, q, lev, top) /\ Chosen(g, ids, par, top)
  BY DEF Search
<1>2. Hung(g, ids, h, lev2, top2)
  BY <1>1, VisitHung
<1>3. /\ Ordered(h, r, lev2, top2)
      /\ \A i \in 1 .. Len(r) : top2[r[i]] = top[cur] /\ lev[cur] <= lev2[r[i]]
  BY <1>1, VisitOrdered
<1>4. Chosen(g, ids, h, top2)
  BY <1>1, VisitChosen
<1>5. PICK Q : Q = DOMAIN h
  OBVIOUS
<1>6. q \in Seq(Q) /\ q # <<>> /\ ins \in Seq(Q) /\ r = Tail(q) \o ins /\ cur = q[1] /\ lev2 \in [Q -> Nat]
  <2>1. /\ q \in Seq(DOMAIN par) /\ q # <<>> /\ ins \in Seq(new) /\ r = Tail(q) \o ins /\ cur = q[1]
        /\ DOMAIN h = DOMAIN par \cup new
    BY DEF VisitOf
  <2>2. lev2 \in [DOMAIN h -> Nat]
    BY <1>2 DEF Hung
  <2>3. DOMAIN par \subseteq Q /\ new \subseteq Q
    BY <1>5, <2>1
  <2>4. q \in Seq(Q) /\ ins \in Seq(Q)
    BY <2>1, <2>3
  <2>5. QED
    BY <1>5, <2>1, <2>2, <2>4
<1>7. /\ Len(q) \in Nat \ {0} /\ r \in Seq(Q)
      /\ \A i \in 2 .. Len(q) : q[i] \in In(r)
      /\ \A i \in 1 .. Len(ins) : ins[i] \in In(r)
  BY <1>6, QueueIs
<1>8. ASSUME NEW x \in In(q) PROVE x \in In(r) \/ x = cur
  <2>1. PICK i \in 1 .. Len(q) : x = q[i]
    BY <1>8 DEF In
  <2>2. i = 1 \/ i \in 2 .. Len(q)
    BY <1>7
  <2>3. QED
    BY <1>6, <1>7, <2>1, <2>2
<1>9. ASSUME NEW x \in new PROVE x \in In(r)
  BY <1>7
<1>10. \A i \in 1 .. Len(r) : lev2[r[i]] \in Nat
  BY <1>6, <1>7
<1>11. r # <<>> => 1 \in 1 .. Len(r)
  <2>1. r # <<>> => Len(r) \in Nat \ {0}
    BY <1>7, EmptySeq
  <2>2. QED
    BY <2>1
<1>12. Visited(g, h, r, lev2, top2)
  <2>1. In(q) \subseteq In(r) \cup {cur} /\ new \subseteq In(r)
    BY <1>8, <1>9
  <2>2. \A i \in 1 .. Len(r) : top2[r[i]] = top[cur] /\ lev[cur] <= lev2[r[i]] /\ lev2[r[i]] \in Nat
    BY <1>3, <1>10
  <2>3. QED
    BY <1>1, <1>11, <2>1, <2>2, VisitVisited
<1>13. QED
  BY <1>2, <1>3, <1>4, <1>12 DEF Search

\* What the head's visit adds to the queue: its neighbours that were not met, in some order.
Adds(g, par, q, new, ins) ==
  /\ q # <<>> /\ new = Neighbours(g, q[1]) \ DOMAIN par
  /\ ins \in Seq(new) /\ \A x \in new : \E i \in 1 .. Len(ins) : ins[i] = x

LEMMA VisitSearch ==
  ASSUME NEW g, GraphOk(g), NEW ids \in SUBSET Devices, NEW par, NEW q, NEW lev, NEW top,
         Search(g, ids, par, q, lev, top), NEW new, NEW ins, Adds(g, par, q, new, ins)
  PROVE  \E lev2, top2 : Search(g, ids, Hang(par, new, q[1]), Tail(q) \o ins, lev2, top2)
<1>0. /\ q # <<>> /\ new = Neighbours(g, q[1]) \ DOMAIN par
      /\ ins \in Seq(new) /\ \A x \in new : \E i \in 1 .. Len(ins) : ins[i] = x
  BY DEF Adds
<1> USE <1>0
<1> PICK cur, r, h : cur = q[1] /\ r = Tail(q) \o ins /\ h = Hang(par, new, cur)
  OBVIOUS
<1> PICK lev2, top2 : /\ lev2 = [d \in DOMAIN par \cup new |-> IF d \in new THEN lev[cur] + 1 ELSE lev[d]]
                      /\ top2 = [d \in DOMAIN par \cup new |-> IF d \in new THEN top[cur] ELSE top[d]]
  OBVIOUS
<1>1. q \in Seq(DOMAIN par) /\ lev \in [DOMAIN par -> Nat]
  BY DEF Search, Ordered, Hung
<1>2. cur \in DOMAIN par
  <2>1. Len(q) \in Nat \ {0}
    BY <1>1, EmptySeq
  <2>2. 1 \in 1 .. Len(q)
    BY <2>1
  <2>3. QED
    BY <1>1, <2>1, <2>2
<1>3. DOMAIN h = DOMAIN par \cup new /\ new \cap DOMAIN par = {}
  BY DEF Hang
<1>4. /\ \A d \in new : lev2[d] = lev[cur] + 1 /\ top2[d] = top[cur]
      /\ \A d \in DOMAIN par : lev2[d] = lev[d] /\ top2[d] = top[d]
      /\ lev2 = [d \in DOMAIN par \cup new |-> lev2[d]] /\ top2 = [d \in DOMAIN par \cup new |-> top2[d]]
  BY <1>3
<1>5. VisitOf(g, par, q, h, r, lev, top, lev2, top2, cur, new, ins)
  BY <1>1, <1>2, <1>3, <1>4 DEF VisitOf
<1>6. Search(g, ids, h, r, lev2, top2)
  BY <1>5, VisitKeeps
<1>7. QED
  BY <1>6

\* What the search has built after some steps.
Sought(g, ids, s) ==
  /\ s = [queue |-> s.queue, parent |-> s.parent]
  /\ \E lev, top : Search(g, ids, s.parent, s.queue, lev, top)
  /\ RootMet(ids, s.parent)

Done(ids, s) == s.queue = <<>> /\ ids \subseteq DOMAIN s.parent

LEMMA HighestIsLeft ==
  ASSUME NEW g, GraphOk(g), NEW left \in SUBSET Devices, left # {}
  PROVE  /\ HighestDegreeUnvisited(g, left) \in left
         /\ \A e \in left : Degree(g, HighestDegreeUnvisited(g, left)) >= Degree(g, e)
<1> DEFINE f == [d \in left |-> Degree(g, d)]
<1>1. f \in [left -> Nat] /\ Cardinality(Devices) \in Nat /\ \A x \in left : f[x] <= Cardinality(Devices)
  BY NeighboursOk, DevicesFinite
<1>2. PICK x \in left : \A y \in left : f[y] <= f[x]
  <2> HIDE DEF f
  <2>1. QED
    BY <1>1, Highest
<1> DEFINE T == {d \in left : Degree(g, d) = Degree(g, x)}
<1>3. T \in SUBSET Nat /\ T # {}
  BY DevicesFinite
<1>4. PICK m \in T : \A n \in T : m <= n
  BY <1>3, Least
<1>5. \A d \in left : Degree(g, d) \in Nat /\ Degree(g, d) <= Degree(g, x)
  BY <1>1, <1>2, NeighboursOk
<1>6. m \in left /\ Degree(g, m) = Degree(g, x)
  BY <1>4
<1>7. ASSUME NEW e \in left
      PROVE  Degree(g, m) > Degree(g, e) \/ (Degree(g, m) = Degree(g, e) /\ m <= e)
  <2>1. CASE e \in T
    BY <1>4, <2>1
  <2>2. CASE e \notin T
    BY <1>5, <1>6, <2>2
  <2>3. QED
    BY <2>1, <2>2
<1> DEFINE Is(d) == \A e \in left : Degree(g, d) > Degree(g, e) \/ (Degree(g, d) = Degree(g, e) /\ d <= e)
<1>8. Is(m) /\ m \in left
  BY <1>6, <1>7
<1>9. PICK r : r = CHOOSE d \in left : Is(d)
  OBVIOUS
<1>10. r \in left /\ Is(r)
  <2> HIDE DEF Is
  <2>1. QED
    BY <1>8, <1>9
<1>11. r = HighestDegreeUnvisited(g, left)
  BY <1>9 DEF HighestDegreeUnvisited
<1>12. \A e \in left : Degree(g, r) >= Degree(g, e)
  BY <1>5, <1>10
<1>13. QED
  BY <1>10, <1>11, <1>12

LEMMA RootSought ==
  ASSUME NEW g, GraphOk(g), NEW ids \in SUBSET Devices, NEW s, s.queue = <<>>,
         NEW lev, NEW top, Search(g, ids, s.parent, s.queue, lev, top),
         NEW r \in ids \ DOMAIN s.parent,
         r = Root \/ (RootMet(ids, s.parent) /\ \A e \in ids \ DOMAIN s.parent : Degree(g, r) >= Degree(g, e))
  PROVE  Sought(g, ids, BfsRoot(s, r)) /\ Todo(BfsRoot(s, r)) < Todo(s) /\ Todo(s) \in Nat
<1> PICK par : par = s.parent
  OBVIOUS
<1> PICK h : h = Hang(par, {r}, 0)
  OBVIOUS
<1>1. \E lev2, top2 : Search(g, ids, h, <<r>>, lev2, top2)
  <2>1. Search(g, ids, par, <<>>, lev, top)
    OBVIOUS
  <2>2. QED
    BY <2>1, RootSearch
<1>2. PICK t : t = BfsRoot(s, r)
  OBVIOUS
<1>3. t = [queue |-> <<r>>, parent |-> h]
  BY <1>2 DEF BfsRoot
<1>4. t.queue = <<r>> /\ t.parent = h /\ t = [queue |-> t.queue, parent |-> t.parent]
  BY <1>3
<1>5. RootMet(ids, h)
  <2>1. DOMAIN h = DOMAIN par \cup {r} /\ h[r] = 0 /\ \A d \in DOMAIN par : h[d] = par[d]
    BY DEF Hang
  <2>2. QED
    BY <2>1 DEF RootMet
<1>6. Sought(g, ids, t)
  BY <1>1, <1>4, <1>5 DEF Sought
<1>7. Todo(t) < Todo(s) /\ Todo(s) \in Nat
  <2>1. DOMAIN par \in SUBSET Devices /\ {r} \in SUBSET Devices /\ DOMAIN par \cap {r} = {} /\ {r} # {}
    BY DEF Search, Hung
  <2>2. PICK P, R : P = DOMAIN par /\ R = {r}
    OBVIOUS
  <2>3. /\ Cardinality(P) \in Nat /\ Cardinality(R) \in Nat /\ Cardinality(R) > 0
        /\ Cardinality(P \cup R) = Cardinality(P) + Cardinality(R) /\ Cardinality(P \cup R) <= Cardinality(Devices)
    BY <2>1, <2>2, SizeGrows
  <2>4. DOMAIN t.parent = P \cup R
    BY <1>4, <2>2 DEF Hang
  <2>5. Len(t.queue) = 1 /\ Len(s.queue) = 0
    BY <1>4
  <2>6. PICK a, b, c, n : a = Cardinality(P) /\ b = Cardinality(R) /\ c = Cardinality(P \cup R) /\ n = Cardinality(Devices)
    OBVIOUS
  <2>7. a \in Nat /\ b \in Nat /\ b > 0 /\ n \in Nat /\ c = a + b /\ c <= n
    BY <2>3, <2>6, DevicesFinite
  <2>8. Todo(t) = 2 * (n - c) + 1 /\ Todo(s) = 2 * (n - a) + 0
    BY <2>2, <2>4, <2>5, <2>6 DEF Todo
  <2>9. 2 * (n - c) + 1 < 2 * (n - a) + 0 /\ 2 * (n - a) + 0 \in Nat
    BY <2>7
  <2>10. QED
    BY <2>8, <2>9
<1>8. QED
  BY <1>2, <1>6, <1>7

LEMMA VisitSought ==
  ASSUME NEW g, GraphOk(g), NEW ids \in SUBSET Devices, NEW s, s.queue # <<>>,
         NEW lev, NEW top, Search(g, ids, s.parent, s.queue, lev, top), RootMet(ids, s.parent)
  PROVE  Sought(g, ids, BfsVisit(g, s)) /\ Todo(BfsVisit(g, s)) < Todo(s) /\ Todo(s) \in Nat
<1> PICK par, q : par = s.parent /\ q = s.queue
  OBVIOUS
<1> PICK new : new = Neighbours(g, q[1]) \ DOMAIN par
  OBVIOUS
<1> PICK ins : ins = InOrder(new)
  OBVIOUS
<1> PICK h : h = Hang(par, new, q[1])
  OBVIOUS
<1>1. new \in SUBSET Devices /\ new \in SUBSET Nat /\ IsFiniteSet(new) /\ DOMAIN par \in SUBSET Devices /\ new \cap DOMAIN par = {}
  <2>1. new \subseteq Devices
    BY NeighboursOk
  <2>2. IsFiniteSet(new) /\ new \subseteq Nat
    BY <2>1, DevicesFinite, FS_Subset
  <2>3. QED
    BY <2>1, <2>2 DEF Search, Hung
<1>2. /\ ins \in Seq(new) /\ Len(ins) = Cardinality(new) /\ Cardinality(new) \in Nat
      /\ \A x \in new : \E i \in 1 .. Len(ins) : ins[i] = x
  <2>1. /\ InOrder(new) \in Seq(new) /\ Len(InOrder(new)) = Cardinality(new) /\ Cardinality(new) \in Nat
        /\ \A x \in new : \E i \in 1 .. Cardinality(new) : InOrder(new)[i] = x
    BY <1>1, InOrderLists
  <2>2. QED
    BY <2>1
<1>3. \E lev2, top2 : Search(g, ids, h, Tail(q) \o ins, lev2, top2)
  <2>1. Search(g, ids, par, q, lev, top) /\ q # <<>>
    OBVIOUS
  <2>2. Adds(g, par, q, new, ins)
    BY <1>2, <2>1 DEF Adds
  <2>3. \E lev2, top2 : Search(g, ids, Hang(par, new, q[1]), Tail(q) \o ins, lev2, top2)
    BY <2>1, <2>2, VisitSearch
  <2>4. QED
    BY <2>3
<1>4. PICK t : t = BfsVisit(g, s)
  OBVIOUS
<1>5. t = [queue |-> Tail(q) \o ins, parent |-> h]
  <2>1. q \in Seq(DOMAIN par) /\ Head(q) = q[1]
    BY DEF Search, Ordered
  <2>2. QED
    BY <1>4, <2>1 DEF BfsVisit
<1>6. t.queue = Tail(q) \o ins /\ t.parent = h /\ t = [queue |-> t.queue, parent |-> t.parent]
  BY <1>5
<1>7. DOMAIN h = DOMAIN par \cup new /\ \A d \in DOMAIN par : h[d] = par[d]
  BY <1>1 DEF Hang
<1>8. RootMet(ids, h)
  BY <1>7 DEF RootMet
<1>9. Sought(g, ids, t)
  BY <1>3, <1>6, <1>8 DEF Sought
<1>10. Todo(t) < Todo(s) /\ Todo(s) \in Nat
  <2>1. PICK P : P = DOMAIN par
    OBVIOUS
  <2>2. /\ Cardinality(P) \in Nat /\ Cardinality(new) \in Nat
        /\ Cardinality(P \cup new) = Cardinality(P) + Cardinality(new) /\ Cardinality(P \cup new) <= Cardinality(Devices)
    <3>1. P \in SUBSET Devices /\ new \in SUBSET Devices /\ P \cap new = {}
      BY <1>1, <2>1
    <3>2. QED
      BY <3>1, SizeGrows
  <2>3. q \in Seq(P \cup new) /\ ins \in Seq(P \cup new) /\ q # <<>>
    <3>1. q \in Seq(P) /\ q # <<>>
      BY <2>1 DEF Search, Ordered
    <3>2. ins \in Seq(new)
      BY <1>2
    <3>3. \A S : q \in Seq(P) /\ ins \in Seq(S) => q \in Seq(P \cup S) /\ ins \in Seq(P \cup S)
      OBVIOUS
    <3>4. QED
      BY <3>1, <3>2, <3>3
  <2>4. Len(q) \in Nat \ {0} /\ Len(t.queue) = Len(q) - 1 + Cardinality(new)
    <3>1. PICK r : r = Tail(q) \o ins
      OBVIOUS
    <3>2. Len(q) \in Nat \ {0} /\ Len(r) = Len(q) - 1 + Len(ins)
      BY <2>3, <3>1, QueueIs
    <3>3. QED
      BY <1>2, <1>6, <3>1, <3>2
  <2>5. DOMAIN t.parent = P \cup new
    BY <1>6, <1>7, <2>1
  <2>6. PICK a, b, c, n, l : /\ a = Cardinality(P) /\ b = Cardinality(new) /\ c = Cardinality(P \cup new)
                             /\ n = Cardinality(Devices) /\ l = Len(q)
    OBVIOUS
  <2>7. a \in Nat /\ b \in Nat /\ n \in Nat /\ l \in Nat \ {0} /\ c = a + b /\ c <= n
    BY <2>2, <2>4, <2>6, DevicesFinite
  <2>8. Todo(t) = 2 * (n - c) + (l - 1 + b) /\ Todo(s) = 2 * (n - a) + l
    BY <2>1, <2>4, <2>5, <2>6 DEF Todo
  <2>9. 2 * (n - c) + (l - 1 + b) < 2 * (n - a) + l /\ 2 * (n - a) + l \in Nat
    BY <2>7
  <2>10. QED
    BY <2>8, <2>9
<1>11. QED
  BY <1>4, <1>9, <1>10

LEMMA StepSought ==
  ASSUME NEW g, GraphOk(g), NEW ids \in SUBSET Devices, NEW s, Sought(g, ids, s)
  PROVE  /\ Sought(g, ids, BfsStep(g, ids, s))
         /\ \/ Todo(s) \in Nat /\ Todo(BfsStep(g, ids, s)) < Todo(s)
            \/ BfsStep(g, ids, s) = s /\ Done(ids, s)
<1>1. PICK lev, top : Search(g, ids, s.parent, s.queue, lev, top)
  BY DEF Sought
<1>2. RootMet(ids, s.parent)
  BY DEF Sought
<1>3. CASE s.queue # <<>>
  <2>1. BfsStep(g, ids, s) = BfsVisit(g, s)
    BY <1>3 DEF BfsStep
  <2>2. QED
    BY <1>1, <1>2, <1>3, <2>1, VisitSought
<1>4. CASE s.queue = <<>> /\ ids \ DOMAIN s.parent = {}
  <2>1. BfsStep(g, ids, s) = s
    BY <1>4 DEF BfsStep
  <2>2. QED
    BY <1>4, <2>1 DEF Done
<1>5. CASE s.queue = <<>> /\ ids \ DOMAIN s.parent # {}
  <2>1. PICK left : left = ids \ DOMAIN s.parent
    OBVIOUS
  <2>2. PICK r : r = HighestDegreeUnvisited(g, left)
    OBVIOUS
  <2>3. BfsStep(g, ids, s) = BfsRoot(s, r)
    BY <1>5, <2>1, <2>2 DEF BfsStep
  <2>4. left \in SUBSET Devices /\ left # {}
    BY <1>5, <2>1
  <2>5. r \in left /\ \A e \in left : Degree(g, r) >= Degree(g, e)
    BY <2>2, <2>4, HighestIsLeft
  <2>6. r \in ids \ DOMAIN s.parent /\ \A e \in ids \ DOMAIN s.parent : Degree(g, r) >= Degree(g, e)
    BY <2>1, <2>5
  <2>7. QED
    BY <1>1, <1>2, <1>5, <2>3, <2>6, RootSought
<1>6. QED
  BY <1>3, <1>4, <1>5

-----------------------------------------------------------------------------
(* The whole search.                                                       *)

NoneMet == [queue |-> <<>>, parent |-> [d \in {} |-> 0]]

FirstMet(ids) == IF Root \in ids THEN BfsRoot(NoneMet, Root) ELSE NoneMet

LEMMA BfsSteps ==
  ASSUME NEW g, NEW ids
  PROVE  \E f : /\ f = [k \in 0 .. 2 * Cardinality(Devices) |->
                         IF k = 0 THEN {FirstMet(ids)} ELSE {BfsStep(g, ids, s) : s \in f[k - 1]}]
                /\ Bfs(g, ids) = (CHOOSE s \in f[2 * Cardinality(Devices)] : TRUE).parent
<1> DEFINE A == {n \in Nat : \E f : f = [k \in 0 .. n |->
                         IF k = 0 THEN {FirstMet(ids)} ELSE {BfsStep(g, ids, s) : s \in f[k - 1]}]}
           M == 2 * Cardinality(Devices)
<1>0. M \in Nat
  BY DevicesFinite
<1>1. 0 \in A
  <2>1. \A f : [k \in 0 .. 0 |-> {FirstMet(ids)}] = [k \in 0 .. 0 |->
             IF k = 0 THEN {FirstMet(ids)} ELSE {BfsStep(g, ids, s) : s \in f[k - 1]}]
    OBVIOUS
  <2>2. QED
    BY <2>1
<1>2. ASSUME NEW n \in 0 .. (M - 1), n \in A PROVE n + 1 \in A
  <2>1. PICK f : f = [k \in 0 .. n |-> IF k = 0 THEN {FirstMet(ids)} ELSE {BfsStep(g, ids, s) : s \in f[k - 1]}]
    BY <1>2
  <2> DEFINE h == [k \in 0 .. (n + 1) |-> IF k = n + 1 THEN {BfsStep(g, ids, s) : s \in f[n]} ELSE f[k]]
  <2>0. n \in Nat
    BY <1>0
  <2>2. ASSUME NEW k \in 0 .. (n + 1)
        PROVE  h[k] = IF k = 0 THEN {FirstMet(ids)} ELSE {BfsStep(g, ids, s) : s \in h[k - 1]}
    <3>1. CASE k = n + 1
      <4>1. k - 1 = n /\ k # 0 /\ n \in 0 .. (n + 1) /\ n # n + 1
        BY <2>0, <3>1
      <4>2. h[k - 1] = f[n] /\ h[k] = {BfsStep(g, ids, s) : s \in f[n]}
        BY <3>1, <4>1
      <4>3. QED
        BY <4>1, <4>2
    <3>2. CASE k # n + 1
      <4>1. k \in 0 .. n /\ (k # 0 => k - 1 \in 0 .. n /\ k - 1 \in 0 .. (n + 1) /\ k - 1 # n + 1)
        BY <2>0, <3>2
      <4>2. h[k] = f[k] /\ (k # 0 => h[k - 1] = f[k - 1])
        BY <3>2, <4>1
      <4>3. QED
        BY <2>1, <4>1, <4>2
    <3>3. QED
      BY <3>1, <3>2
  <2>3. h = [k \in 0 .. (n + 1) |-> IF k = 0 THEN {FirstMet(ids)} ELSE {BfsStep(g, ids, s) : s \in h[k - 1]}]
    BY <2>2
  <2>4. n + 1 \in Nat
    BY <2>0
  <2>5. QED
    BY <2>3, <2>4, Zenon
<1>3. M \in A
  <2> HIDE DEF A, M
  <2>1. \A n \in 0 .. M : n \in A
    BY <1>0, <1>1, <1>2, UpTo
  <2>2. QED
    BY <1>0, <2>1
<1>4. \E f : f = [k \in 0 .. M |-> IF k = 0 THEN {FirstMet(ids)} ELSE {BfsStep(g, ids, s) : s \in f[k - 1]}]
  BY <1>3
<1> DEFINE h == CHOOSE f : f = [k \in 0 .. M |->
                  IF k = 0 THEN {FirstMet(ids)} ELSE {BfsStep(g, ids, s) : s \in f[k - 1]}]
<1>5. h = [k \in 0 .. M |-> IF k = 0 THEN {FirstMet(ids)} ELSE {BfsStep(g, ids, s) : s \in h[k - 1]}]
  BY <1>4, Zenon
<1>6. Bfs(g, ids) = (CHOOSE s \in h[M] : TRUE).parent
  BY Zenon DEF Bfs, FirstMet, NoneMet
<1>7. QED
  BY <1>5, <1>6

LEMMA NoneSought ==
  ASSUME NEW g, NEW ids \in SUBSET Devices
  PROVE  /\ \E lev, top : Search(g, ids, NoneMet.parent, NoneMet.queue, lev, top)
         /\ NoneMet = [queue |-> NoneMet.queue, parent |-> NoneMet.parent]
         /\ NoneMet.queue = <<>> /\ DOMAIN NoneMet.parent = {}
         /\ Todo(NoneMet) = 2 * Cardinality(Devices)
<1> PICK e : e = [d \in {} |-> 0]
  OBVIOUS
<1>1. DOMAIN e = {} /\ e = [d \in {} |-> e[d]]
  OBVIOUS
<1>2. Hung(g, ids, e, e, e)
  <2>1. /\ e \in [{} -> Devices \cup {0}] /\ e \in [{} -> Nat] /\ e \in [{} -> {} \cap ids]
    BY <1>1
  <2>2. QED
    BY <1>1, <2>1 DEF Hung
<1>3. Ordered(e, <<>>, e, e)
  BY <1>1 DEF Ordered
<1>4. Visited(g, e, <<>>, e, e) /\ Chosen(g, ids, e, e)
  BY <1>1 DEF Visited, Chosen
<1>5. Search(g, ids, e, <<>>, e, e)
  BY <1>2, <1>3, <1>4 DEF Search
<1>6. NoneMet.parent = e /\ NoneMet.queue = <<>> /\ NoneMet = [queue |-> <<>>, parent |-> e]
  BY DEF NoneMet
<1>7. Todo(NoneMet) = 2 * Cardinality(Devices)
  <2>1. Cardinality(DOMAIN e) = 0 /\ Cardinality(Devices) \in Nat /\ Len(<<>>) = 0
    BY <1>1, FS_EmptySet, DevicesFinite
  <2>2. QED
    BY <1>6, <2>1 DEF Todo
<1>8. QED
  BY <1>1, <1>5, <1>6, <1>7

LEMMA FirstSought ==
  ASSUME NEW g, GraphOk(g), NEW ids \in SUBSET Devices
  PROVE  /\ Sought(g, ids, FirstMet(ids)) /\ Todo(FirstMet(ids)) <= 2 * Cardinality(Devices)
         /\ Todo(FirstMet(ids)) \in Nat
<1>1. PICK lev, top : Search(g, ids, NoneMet.parent, NoneMet.queue, lev, top)
  BY NoneSought
<1>2. NoneMet.queue = <<>> /\ DOMAIN NoneMet.parent = {} /\ Todo(NoneMet) = 2 * Cardinality(Devices)
  BY NoneSought
<1>3. Cardinality(Devices) \in Nat
  BY DevicesFinite
<1>4. CASE Root \in ids
  <2>1. FirstMet(ids) = BfsRoot(NoneMet, Root)
    BY <1>4 DEF FirstMet
  <2>2. Sought(g, ids, BfsRoot(NoneMet, Root)) /\ Todo(BfsRoot(NoneMet, Root)) < Todo(NoneMet)
    BY <1>1, <1>2, <1>4, RootSought
  <2>3. Todo(BfsRoot(NoneMet, Root)) \in Nat
    <3>1. PICK t : t = BfsRoot(NoneMet, Root)
      OBVIOUS
    <3>2. DOMAIN t.parent \subseteq Devices /\ Len(t.queue) = 1
      BY <1>2, <1>4, <3>1 DEF BfsRoot, Hang
    <3>3. Cardinality(DOMAIN t.parent) \in Nat /\ Cardinality(DOMAIN t.parent) <= Cardinality(Devices)
      BY <3>2, DevicesFinite, FS_Subset, FS_CardinalityType
    <3>4. PICK a, b : a = Cardinality(DOMAIN t.parent) /\ b = Cardinality(Devices)
      OBVIOUS
    <3>5. Todo(t) = 2 * (b - a) + 1
      BY <3>2, <3>4 DEF Todo
    <3>6. 2 * (b - a) + 1 \in Nat
      BY <1>3, <3>3, <3>4
    <3>7. QED
      BY <3>1, <3>5, <3>6
  <2>4. PICK x, b : x = Todo(BfsRoot(NoneMet, Root)) /\ b = Cardinality(Devices)
    OBVIOUS
  <2>5. x <= 2 * b
    BY <1>2, <1>3, <2>2, <2>3, <2>4
  <2>6. QED
    BY <2>1, <2>2, <2>3, <2>4, <2>5
<1>5. CASE Root \notin ids
  <2>1. FirstMet(ids) = NoneMet
    BY <1>5 DEF FirstMet
  <2>2. RootMet(ids, NoneMet.parent)
    BY <1>5 DEF RootMet
  <2>3. Sought(g, ids, NoneMet)
    BY <2>2, NoneSought DEF Sought
  <2>4. QED
    BY <1>2, <1>3, <2>1, <2>3
<1>6. QED
  BY <1>4, <1>5

\* Nothing left to do: all were met.
LEMMA NothingTodo ==
  ASSUME NEW g, NEW ids \in SUBSET Devices, NEW s, Sought(g, ids, s)
  PROVE  Todo(s) \in Nat /\ (Todo(s) = 0 => Done(ids, s))
<1>1. PICK lev, top : Search(g, ids, s.parent, s.queue, lev, top)
  BY DEF Sought
<1> PICK P, q : P = DOMAIN s.parent /\ q = s.queue
  OBVIOUS
<1>2. P \in SUBSET Devices /\ q \in Seq(P)
  BY <1>1 DEF Search, Hung, Ordered
<1>3. Cardinality(P) \in Nat /\ Cardinality(P) <= Cardinality(Devices) /\ Cardinality(Devices) \in Nat
  BY <1>2, DevicesFinite, FS_Subset, FS_CardinalityType
<1>4. Len(q) \in Nat
  BY <1>2
<1>5. PICK a, b, l : a = Cardinality(P) /\ b = Cardinality(Devices) /\ l = Len(q)
  OBVIOUS
<1>6. Todo(s) = 2 * (b - a) + l
  BY <1>5 DEF Todo
<1>7. a \in Nat /\ b \in Nat /\ l \in Nat /\ a <= b
  BY <1>3, <1>4, <1>5
<1>8. 2 * (b - a) + l \in Nat /\ (2 * (b - a) + l = 0 => a = b /\ l = 0)
  BY <1>7
<1>9. ASSUME Todo(s) = 0 PROVE Done(ids, s)
  <2>1. Cardinality(P) = Cardinality(Devices) /\ Len(q) = 0
    BY <1>5, <1>6, <1>8, <1>9
  <2>2. P = Devices
    BY <1>2, <2>1, DevicesFinite, FS_Subset
  <2>3. q = <<>>
    BY <1>2, <2>1
  <2>4. QED
    BY <2>2, <2>3 DEF Done
<1>10. QED
  BY <1>6, <1>8, <1>9

\* The search meets all devices of the network and leaves nothing to visit.
LEMMA BfsFinds ==
  ASSUME NEW g, GraphOk(g), NEW ids \in SUBSET Devices
  PROVE  /\ \E lev, top : Search(g, ids, Bfs(g, ids), <<>>, lev, top)
         /\ RootMet(ids, Bfs(g, ids)) /\ ids \subseteq DOMAIN Bfs(g, ids)
<1> DEFINE M == 2 * Cardinality(Devices)
<1>0. M \in Nat
  BY DevicesFinite
<1>1. PICK f : /\ f = [k \in 0 .. M |->
                         IF k = 0 THEN {FirstMet(ids)} ELSE {BfsStep(g, ids, s) : s \in f[k - 1]}]
               /\ Bfs(g, ids) = (CHOOSE s \in f[M] : TRUE).parent
  BY BfsSteps
<1> HIDE DEF M
<1> DEFINE Left(k, s) == Done(ids, s) \/ (Todo(s) \in Nat /\ Todo(s) + k <= M)
           B == {k \in 0 .. M : \E s : f[k] = {s} /\ Sought(g, ids, s) /\ Left(k, s)}
<1>2. 0 \in B
  <2>1. f[0] = {FirstMet(ids)} /\ 0 \in 0 .. M
    BY <1>0, <1>1
  <2>2. Sought(g, ids, FirstMet(ids)) /\ Todo(FirstMet(ids)) <= M /\ Todo(FirstMet(ids)) \in Nat
    BY FirstSought DEF M
  <2>3. Left(0, FirstMet(ids))
    BY <2>2
  <2>4. QED
    BY <2>1, <2>2, <2>3
<1>3. ASSUME NEW k \in 0 .. (M - 1), k \in B PROVE k + 1 \in B
  <2>1. PICK s : f[k] = {s} /\ Sought(g, ids, s) /\ Left(k, s)
    BY <1>3
  <2>2. k \in Nat /\ k + 1 \in 0 .. M /\ k + 1 # 0 /\ k + 1 - 1 = k
    BY <1>0
  <2>3. PICK t : t = BfsStep(g, ids, s)
    OBVIOUS
  <2>4. f[k + 1] = {BfsStep(g, ids, u) : u \in f[k]}
    <3> DEFINE G(j) == IF j = 0 THEN {FirstMet(ids)} ELSE {BfsStep(g, ids, u) : u \in f[j - 1]}
    <3>3. f = [j \in 0 .. M |-> G(j)]
      BY <1>1
    <3>4. f[k + 1] = G(k + 1)
      <4> HIDE DEF G
      <4>1. QED
        BY <2>2, <3>3
    <3>1. f[k + 1] = {BfsStep(g, ids, u) : u \in f[k + 1 - 1]}
      <4>1. k + 1 # 0
        BY <2>2
      <4>2. PICK j : j = k + 1
        OBVIOUS
      <4>3. G(j) = {BfsStep(g, ids, u) : u \in f[j - 1]}
        <5>1. j # 0
          BY <4>1, <4>2
        <5>2. QED
          BY <5>1, Zenon
      <4>4. QED
        <5> HIDE DEF G
        <5>1. f[j] = G(j)
          BY <3>4, <4>2
        <5>2. f[j] = {BfsStep(g, ids, u) : u \in f[j - 1]}
          BY <4>3, <5>1
        <5>3. QED
          BY <4>2, <5>2
    <3>2. QED
      BY <2>2, <3>1
  <2>5. f[k + 1] = {t}
    BY <2>1, <2>3, <2>4
  <2>6. Sought(g, ids, t) /\ ((Todo(s) \in Nat /\ Todo(t) < Todo(s)) \/ (t = s /\ Done(ids, s)))
    BY <2>1, <2>3, StepSought
  <2>7. Todo(t) \in Nat
    BY <2>6, NothingTodo
  <2>8. Left(k + 1, t)
    <3>1. CASE t = s /\ Done(ids, s)
      BY <3>1
    <3>2. CASE Todo(s) \in Nat /\ Todo(t) < Todo(s) /\ ~Done(ids, s)
      <4>1. PICK a, b : a = Todo(s) /\ b = Todo(t)
        OBVIOUS
      <4>2. a \in Nat /\ b \in Nat /\ b < a /\ a + k <= M
        BY <2>1, <2>7, <3>2, <4>1
      <4>3. b + (k + 1) <= M
        BY <1>0, <2>2, <4>2
      <4>4. QED
        BY <2>7, <4>1, <4>3
    <3>3. CASE Todo(s) \in Nat /\ Todo(t) < Todo(s) /\ Done(ids, s)
      <4>1. t = s
        <5>1. ids \ DOMAIN s.parent = {} /\ s.queue = <<>>
          BY <3>3 DEF Done
        <5>2. QED
          BY <2>3, <5>1 DEF BfsStep
      <4>2. QED
        BY <3>3, <4>1
    <3>4. QED
      BY <2>6, <3>1, <3>2, <3>3
  <2>9. QED
    BY <2>2, <2>5, <2>6, <2>8
<1>4. M \in B
  <2> HIDE DEF B
  <2>1. \A n \in 0 .. M : n \in B
    BY <1>0, <1>2, <1>3, UpTo
  <2>2. QED
    BY <1>0, <2>1
<1>5. PICK s : f[M] = {s} /\ Sought(g, ids, s) /\ Left(M, s)
  BY <1>4
<1>6. Bfs(g, ids) = s.parent
  <2>1. (CHOOSE u \in {s} : TRUE) = s
    OBVIOUS
  <2>2. QED
    BY <1>1, <1>5, <2>1
<1>7. Done(ids, s)
  <2>1. CASE Todo(s) \in Nat /\ Todo(s) + M <= M
    <3>1. PICK a : a = Todo(s)
      OBVIOUS
    <3>2. a = 0
      BY <1>0, <2>1, <3>1
    <3>3. QED
      BY <1>5, <3>1, <3>2, NothingTodo
  <2>2. QED
    BY <1>5, <2>1
<1>8. QED
  BY <1>5, <1>6, <1>7 DEF Sought, Done

-----------------------------------------------------------------------------
(* Distances.                                                              *)

\* The devices within each number of steps.
LEMMA BallSteps ==
  ASSUME NEW g, NEW d
  PROVE  /\ Ball(g, d)[0] = {d}
         /\ \A k \in 0 .. (Cardinality(Devices) - 1) :
              Ball(g, d)[k + 1] = Ball(g, d)[k] \cup UNION {Neighbours(g, e) : e \in Ball(g, d)[k]}
<1> DEFINE Wider(X) == X \cup UNION {Neighbours(g, e) : e \in X}
           A == {n \in Nat : \E f : f = [k \in 0 .. n |-> IF k = 0 THEN {d} ELSE Wider(f[k - 1])]}
           N == Cardinality(Devices)
<1>0. N \in Nat
  BY DevicesFinite
<1>00. PICK b : b = Ball(g, d)
  OBVIOUS
<1>6. b = CHOOSE f : f = [k \in 0 .. N |-> IF k = 0 THEN {d} ELSE Wider(f[k - 1])]
  BY <1>00, Zenon DEF Ball
<1> HIDE DEF N, Wider
<1>1. 0 \in A
  <2>1. \A f : [k \in 0 .. 0 |-> {d}] = [k \in 0 .. 0 |-> IF k = 0 THEN {d} ELSE Wider(f[k - 1])]
    OBVIOUS
  <2>2. QED
    BY <2>1
<1>2. ASSUME NEW n \in 0 .. (N - 1), n \in A PROVE n + 1 \in A
  <2>1. PICK f : f = [k \in 0 .. n |-> IF k = 0 THEN {d} ELSE Wider(f[k - 1])]
    BY <1>2
  <2> DEFINE h == [k \in 0 .. (n + 1) |-> IF k = n + 1 THEN Wider(f[n]) ELSE f[k]]
  <2>0. n \in Nat
    BY <1>0
  <2>2. ASSUME NEW k \in 0 .. (n + 1)
        PROVE  h[k] = IF k = 0 THEN {d} ELSE Wider(h[k - 1])
    <3>1. CASE k = n + 1
      <4>1. k - 1 = n /\ k # 0 /\ n \in 0 .. (n + 1) /\ n # n + 1
        BY <2>0, <3>1
      <4>2. h[k - 1] = f[n] /\ h[k] = Wider(f[n])
        BY <3>1, <4>1
      <4>3. QED
        BY <4>1, <4>2
    <3>2. CASE k # n + 1
      <4>1. k \in 0 .. n /\ (k # 0 => k - 1 \in 0 .. n /\ k - 1 \in 0 .. (n + 1) /\ k - 1 # n + 1)
        BY <2>0, <3>2
      <4>2. h[k] = f[k] /\ (k # 0 => h[k - 1] = f[k - 1])
        BY <3>2, <4>1
      <4>3. QED
        BY <2>1, <4>1, <4>2
    <3>3. QED
      BY <3>1, <3>2
  <2>3. h = [k \in 0 .. (n + 1) |-> IF k = 0 THEN {d} ELSE Wider(h[k - 1])]
    BY <2>2
  <2>4. n + 1 \in Nat
    BY <2>0
  <2>5. QED
    BY <2>3, <2>4, Zenon
<1>3. N \in A
  <2> HIDE DEF A
  <2>1. \A n \in 0 .. N : n \in A
    BY <1>0, <1>1, <1>2, UpTo
  <2>2. QED
    BY <1>0, <2>1
<1>4. \E f : f = [k \in 0 .. N |-> IF k = 0 THEN {d} ELSE Wider(f[k - 1])]
  BY <1>3
<1>5. b = [k \in 0 .. N |-> IF k = 0 THEN {d} ELSE Wider(b[k - 1])]
  BY <1>4, <1>6, Zenon
<1>7. b[0] = {d} /\ \A k \in 0 .. (N - 1) : b[k + 1] = Wider(b[k])
  <2>1. \A j \in 0 .. N : b[j] = IF j = 0 THEN {d} ELSE Wider(b[j - 1])
    BY <1>5
  <2>2. b[0] = {d}
    BY <1>0, <2>1
  <2>3. ASSUME NEW k \in 0 .. (N - 1) PROVE b[k + 1] = Wider(b[k])
    <3>1. k + 1 \in 0 .. N /\ k + 1 # 0 /\ k + 1 - 1 = k
      BY <1>0
    <3>2. QED
      BY <2>1, <3>1
  <2>4. QED
    BY <2>2, <2>3
<1>8. QED
  BY <1>00, <1>7 DEF N, Wider

\* A set that no link leaves.
Closed(g, B) == \A e \in B : \A n \in Neighbours(g, e) : n \in B

LEMMA ReachClosed ==
  ASSUME NEW g, GraphOk(g), NEW d \in Devices
  PROVE  d \in Reach(g, d) /\ Closed(g, Reach(g, d)) /\ Reach(g, d) \subseteq Devices
<1> PICK b, N : b = Ball(g, d) /\ N = Cardinality(Devices)
  OBVIOUS
<1>1. N \in Nat
  BY DevicesFinite
<1>2. /\ b[0] = {d}
      /\ \A k \in 0 .. (N - 1) : b[k + 1] = b[k] \cup UNION {Neighbours(g, e) : e \in b[k]}
  BY BallSteps
<1> DEFINE B == {k \in 0 .. N : /\ d \in b[k] /\ b[k] \subseteq Devices
                                /\ Closed(g, b[k]) \/ Cardinality(b[k]) >= k + 1}
<1>3. 0 \in B
  <2>1. Cardinality({d}) = 1
    BY FS_Singleton
  <2>2. 0 \in 0 .. N /\ Cardinality(b[0]) >= 0 + 1
    BY <1>1, <1>2, <2>1
  <2>3. QED
    BY <1>2, <2>2
<1>4. ASSUME NEW k \in 0 .. (N - 1), k \in B PROVE k + 1 \in B
  <2>1. PICK X, Y : X = b[k] /\ Y = b[k + 1]
    OBVIOUS
  <2>2. d \in X /\ X \subseteq Devices /\ (Closed(g, X) \/ Cardinality(X) >= k + 1)
    BY <1>4, <2>1
  <2>3. Y = X \cup UNION {Neighbours(g, e) : e \in X}
    BY <1>2, <2>1
  <2>4. d \in Y /\ Y \subseteq Devices /\ X \subseteq Y /\ \A e \in X : \A n \in Neighbours(g, e) : n \in Y
    BY <2>2, <2>3, NeighboursOk
  <2>5. k \in Nat /\ k + 1 \in 0 .. N
    BY <1>1
  <2>6. Closed(g, Y) \/ Cardinality(Y) >= (k + 1) + 1
    <3>1. CASE Closed(g, X)
      <4>1. Y = X
        BY <2>3, <3>1 DEF Closed
      <4>2. QED
        BY <3>1, <4>1
    <3>2. CASE ~Closed(g, X) /\ Cardinality(X) >= k + 1
      <4>1. X # Y
        BY <2>4, <3>2 DEF Closed
      <4>2. PICK Z : Z = Y \ X
        OBVIOUS
      <4>3. X \in SUBSET Devices /\ Z \in SUBSET Devices /\ X \cap Z = {} /\ Z # {} /\ X \cup Z = Y
        BY <2>4, <4>1, <4>2
      <4>4. /\ Cardinality(X) \in Nat /\ Cardinality(Z) \in Nat /\ Cardinality(Z) > 0
            /\ Cardinality(X \cup Z) = Cardinality(X) + Cardinality(Z)
        BY <4>3, SizeGrows
      <4>5. PICK x, z, y : x = Cardinality(X) /\ z = Cardinality(Z) /\ y = Cardinality(Y)
        OBVIOUS
      <4>6. x \in Nat /\ z \in Nat /\ z > 0 /\ y = x + z /\ x >= k + 1
        BY <3>2, <4>3, <4>4, <4>5
      <4>7. y >= (k + 1) + 1
        BY <2>5, <4>6
      <4>8. QED
        BY <4>5, <4>7
    <3>3. QED
      BY <2>2, <3>1, <3>2
  <2>7. QED
    BY <2>1, <2>4, <2>5, <2>6
<1>5. N \in B
  <2> HIDE DEF B
  <2>1. \A n \in 0 .. N : n \in B
    BY <1>1, <1>3, <1>4, UpTo
  <2>2. QED
    BY <1>1, <2>1
<1>6. Reach(g, d) = b[N]
  BY DEF Reach
<1>7. Cardinality(b[N]) \in Nat /\ Cardinality(b[N]) <= N
  BY <1>5, DevicesFinite, FS_Subset, FS_CardinalityType
<1>8. PICK c : c = Cardinality(b[N])
  OBVIOUS
<1>9. ~(c >= N + 1)
  BY <1>1, <1>7, <1>8
<1>10. QED
  BY <1>5, <1>6, <1>8, <1>9

\* What a search that has ended has found, without its queue.
Built(g, ids, par, lev, top) ==
  /\ DOMAIN par \subseteq Devices /\ ids \subseteq DOMAIN par
  /\ \A d \in DOMAIN par :
       /\ lev[d] \in 0 .. Cardinality(Devices) /\ top[d] \in DOMAIN par \cap ids /\ par[top[d]] = 0
       /\ par[d] = 0 => lev[d] = 0 /\ top[d] = d
       /\ par[d] # 0 => /\ par[d] \in DOMAIN par /\ <<d, par[d]>> \in g
                        /\ lev[d] = lev[par[d]] + 1 /\ top[d] = top[par[d]]
       /\ \A n \in Neighbours(g, d) : n \in DOMAIN par /\ top[n] = top[d] /\ lev[n] <= lev[d] + 1
       /\ top[d] = Root \/ \A e \in ids : top[e] = top[d] => Degree(g, top[d]) >= Degree(g, e)
  /\ Root \in ids => top[Root] = Root

LEMMA BfsFound ==
  ASSUME NEW g, GraphOk(g), NEW ids \in SUBSET Devices
  PROVE  \E lev, top : Built(g, ids, Bfs(g, ids), lev, top)
<1> PICK par : par = Bfs(g, ids)
  OBVIOUS
<1>1. PICK lev, top : Search(g, ids, par, <<>>, lev, top)
  BY BfsFinds
<1>2. RootMet(ids, par) /\ ids \subseteq DOMAIN par
  BY BfsFinds
<1>3. Hung(g, ids, par, lev, top) /\ Visited(g, par, <<>>, lev, top) /\ Chosen(g, ids, par, top)
  BY <1>1 DEF Search
<1> PICK P : P = DOMAIN par
  OBVIOUS
<1>4. P \subseteq Devices /\ lev \in [P -> Nat] /\ top \in [P -> P \cap ids]
  BY <1>3 DEF Hung
<1>5. Cardinality(P) \in Nat /\ Cardinality(P) <= Cardinality(Devices) /\ Cardinality(Devices) \in Nat
  BY <1>4, DevicesFinite, FS_Subset, FS_CardinalityType
<1>6. ASSUME NEW d \in P
      PROVE  /\ lev[d] \in 0 .. Cardinality(Devices) /\ top[d] \in P \cap ids /\ par[top[d]] = 0
             /\ par[d] = 0 => lev[d] = 0 /\ top[d] = d
             /\ par[d] # 0 => /\ par[d] \in P /\ <<d, par[d]>> \in g
                              /\ lev[d] = lev[par[d]] + 1 /\ top[d] = top[par[d]]
  <2>1. /\ lev[d] < Cardinality(P) /\ par[top[d]] = 0
        /\ par[d] = 0 => lev[d] = 0 /\ top[d] = d
        /\ par[d] # 0 => /\ par[d] \in P /\ <<d, par[d]>> \in g
                         /\ lev[d] = lev[par[d]] + 1 /\ top[d] = top[par[d]]
    BY <1>3 DEF Hung
  <2>2. lev[d] \in Nat /\ top[d] \in P \cap ids
    BY <1>4
  <2>3. PICK l, a, b : l = lev[d] /\ a = Cardinality(P) /\ b = Cardinality(Devices)
    OBVIOUS
  <2>4. l \in 0 .. b
    BY <1>5, <2>1, <2>2, <2>3
  <2>5. QED
    BY <2>1, <2>2, <2>3, <2>4
<1>7. ASSUME NEW d \in P, NEW n \in Neighbours(g, d) PROVE n \in P /\ top[n] = top[d] /\ lev[n] <= lev[d] + 1
  <2>1. In(<<>>) = {}
    BY DEF In
  <2>2. QED
    BY <1>3, <2>1 DEF Visited
<1>8. ASSUME NEW d \in P
      PROVE  top[d] = Root \/ \A e \in ids : top[e] = top[d] => Degree(g, top[d]) >= Degree(g, e)
  BY <1>3 DEF Chosen
<1>9. Root \in ids => top[Root] = Root
  BY <1>2, <1>6 DEF RootMet
<1>10. Built(g, ids, par, lev, top)
  BY <1>2, <1>4, <1>6, <1>7, <1>8, <1>9 DEF Built
<1>11. QED
  BY <1>10

\* The distance from a root is the level.
LEMMA BallOfRoot ==
  ASSUME NEW g, GraphOk(g), NEW ids, NEW par, NEW lev, NEW top, Built(g, ids, par, lev, top),
         NEW r \in DOMAIN par, par[r] = 0
  PROVE  \A k \in 0 .. Cardinality(Devices) : Ball(g, r)[k] = {e \in DOMAIN par : top[e] = r /\ lev[e] <= k}
<1> PICK b, N, P : b = Ball(g, r) /\ N = Cardinality(Devices) /\ P = DOMAIN par
  OBVIOUS
<1>1. N \in Nat
  BY DevicesFinite
<1>2. /\ b[0] = {r}
      /\ \A k \in 0 .. (N - 1) : b[k + 1] = b[k] \cup UNION {Neighbours(g, e) : e \in b[k]}
  BY BallSteps
<1>3. ASSUME NEW d \in P
      PROVE  /\ lev[d] \in Nat /\ (par[d] = 0 => lev[d] = 0 /\ top[d] = d)
             /\ par[d] # 0 => par[d] \in P /\ <<d, par[d]>> \in g /\ lev[d] = lev[par[d]] + 1 /\ top[d] = top[par[d]]
             /\ \A n \in Neighbours(g, d) : n \in P /\ top[n] = top[d] /\ lev[n] <= lev[d] + 1
  <2>1. lev[d] \in 0 .. N
    BY DEF Built
  <2>2. lev[d] \in Nat
    BY <1>1, <2>1
  <2>3. QED
    BY <2>2 DEF Built
<1> DEFINE Near(k) == {e \in P : top[e] = r /\ lev[e] <= k}
           B == {k \in 0 .. N : b[k] = Near(k)}
<1>4. 0 \in B
  <2>1. ASSUME NEW e \in P, lev[e] <= 0, top[e] = r PROVE e = r
    <3>1. CASE par[e] # 0
      <4>1. par[e] \in P /\ lev[e] = lev[par[e]] + 1
        BY <1>3, <3>1
      <4>2. lev[par[e]] \in Nat
        BY <1>3, <4>1
      <4>3. PICK x, y : x = lev[e] /\ y = lev[par[e]]
        OBVIOUS
      <4>4. x <= 0 /\ y \in Nat /\ x = y + 1
        BY <2>1, <4>1, <4>2, <4>3
      <4>5. QED
        BY <4>4
    <3>2. QED
      BY <1>3, <2>1, <3>1
  <2>2. lev[r] = 0 /\ top[r] = r /\ r \in P
    BY <1>3
  <2>3. Near(0) = {r}
    BY <2>1, <2>2
  <2>4. 0 \in 0 .. N
    BY <1>1
  <2>5. QED
    BY <1>2, <2>3, <2>4
<1>5. ASSUME NEW k \in 0 .. (N - 1), k \in B PROVE k + 1 \in B
  <2>1. PICK X, Y : X = b[k] /\ Y = b[k + 1]
    OBVIOUS
  <2>2. k \in Nat /\ k + 1 \in 0 .. N
    BY <1>1
  <2>3. \A e : e \in X <=> e \in P /\ top[e] = r /\ lev[e] <= k
    BY <1>5, <2>1
  <2>4. \A n : n \in Y <=> n \in X \/ \E e \in X : n \in Neighbours(g, e)
    <3>1. Y = X \cup UNION {Neighbours(g, e) : e \in X}
      BY <1>2, <2>1
    <3>2. QED
      BY <3>1
  <2>5. ASSUME NEW n \in Y PROVE n \in P /\ top[n] = r /\ lev[n] <= k + 1
    <3>1. CASE n \in X
      <4>1. lev[n] \in Nat /\ lev[n] <= k
        BY <1>3, <2>3, <3>1
      <4>2. lev[n] <= k + 1
        BY <2>2, <4>1
      <4>3. QED
        BY <2>3, <3>1, <4>2
    <3>2. CASE n \notin X
      <4>1. PICK e \in X : n \in Neighbours(g, e)
        BY <2>4, <3>2
      <4>2. e \in P /\ top[e] = r /\ lev[e] <= k
        BY <2>3
      <4>3. n \in P /\ top[n] = r /\ lev[n] <= lev[e] + 1
        BY <1>3, <4>1, <4>2
      <4>4. lev[n] \in Nat /\ lev[e] \in Nat
        BY <1>3, <4>2, <4>3
      <4>5. PICK x, y : x = lev[n] /\ y = lev[e]
        OBVIOUS
      <4>6. x <= k + 1
        <5>1. x \in Nat /\ y \in Nat /\ x <= y + 1 /\ y <= k
          BY <4>2, <4>3, <4>4, <4>5
        <5>2. QED
          BY <2>2, <5>1
      <4>7. QED
        BY <4>3, <4>5, <4>6
    <3>3. QED
      BY <3>1, <3>2
  <2>6. ASSUME NEW n \in P, top[n] = r, lev[n] <= k + 1 PROVE n \in Y
    <3>1. CASE par[n] = 0
      <4>1. lev[n] = 0
        BY <1>3, <3>1
      <4>2. lev[n] <= k
        BY <2>2, <4>1
      <4>3. QED
        BY <2>3, <2>4, <2>6, <4>2
    <3>2. CASE par[n] # 0
      <4>1. PICK p : p = par[n]
        OBVIOUS
      <4>2. p \in P /\ <<n, p>> \in g /\ lev[n] = lev[p] + 1 /\ top[p] = r
        BY <1>3, <2>6, <3>2, <4>1
      <4>3. n \in Neighbours(g, p)
        BY <4>2, NeighboursOk
      <4>4. PICK x, y : x = lev[n] /\ y = lev[p]
        OBVIOUS
      <4>5. y \in Nat /\ x = y + 1 /\ x <= k + 1
        BY <1>3, <2>6, <4>2, <4>4
      <4>6. y <= k
        BY <2>2, <4>5
      <4>7. p \in X
        BY <2>3, <4>2, <4>4, <4>6
      <4>8. QED
        BY <2>4, <4>3, <4>7
    <3>3. QED
      BY <3>1, <3>2
  <2>7. Y = Near(k + 1)
    BY <2>5, <2>6
  <2>8. QED
    BY <2>1, <2>2, <2>7
<1>6. \A n \in 0 .. N : n \in B
  <2> HIDE DEF B
  <2>1. QED
    BY <1>1, <1>4, <1>5, UpTo
<1>7. QED
  BY <1>6

LEMMA DistOfRoot ==
  ASSUME NEW g, GraphOk(g), NEW ids, NEW par, NEW lev, NEW top, Built(g, ids, par, lev, top),
         NEW r \in DOMAIN par, par[r] = 0, NEW e \in DOMAIN par, top[e] = r
  PROVE  Dist(g, r, e) = lev[e]
<1> PICK N, x : N = Cardinality(Devices) /\ x = lev[e]
  OBVIOUS
<1>1. N \in Nat /\ x \in 0 .. N
  BY DevicesFinite DEF Built
<1>2. \A k \in 0 .. N : e \in Ball(g, r)[k] <=> x <= k
  BY BallOfRoot
<1> PICK S : S = {k \in 0 .. N : e \in Ball(g, r)[k]}
  OBVIOUS
<1>3. \A k : k \in S <=> k \in 0 .. N /\ x <= k
  BY <1>2
<1>4. x \in S /\ \A k \in S : x <= k
  BY <1>1, <1>3
<1>5. \A y \in S : (\A k \in S : y <= k) => y = x
  BY <1>1, <1>3, <1>4
<1>6. Min(S) = x
  BY <1>4, <1>5 DEF Min
<1>7. QED
  BY <1>6 DEF Dist

\* What a device reaches is its part.
LEMMA ReachIsPart ==
  ASSUME NEW g, GraphOk(g), NEW ids, NEW par, NEW lev, NEW top, Built(g, ids, par, lev, top),
         NEW d \in DOMAIN par
  PROVE  Reach(g, d) = {e \in DOMAIN par : top[e] = top[d]}
<1> PICK B, N, P, r : B = Reach(g, d) /\ N = Cardinality(Devices) /\ P = DOMAIN par /\ r = top[d]
  OBVIOUS
<1>0. N \in Nat
  BY DevicesFinite
<1>1. d \in Devices /\ r \in P /\ par[r] = 0 /\ top[r] = r
  BY DEF Built
<1>2. d \in B /\ Closed(g, B)
  BY <1>1, ReachClosed
<1>3. ASSUME NEW e \in P
      PROVE  /\ lev[e] \in 0 .. N /\ (par[e] = 0 => top[e] = e)
             /\ par[e] # 0 => /\ par[e] \in P /\ <<e, par[e]>> \in g /\ <<par[e], e>> \in g
                              /\ lev[e] = lev[par[e]] + 1 /\ top[e] = top[par[e]]
             /\ \A n \in Neighbours(g, e) : n \in P /\ top[n] = top[e]
  <2>1. <<e, par[e]>> \in g => <<par[e], e>> \in g
    BY NeighboursOk
  <2>2. QED
    BY <2>1 DEF Built
\* Up to the root.
<1>4. \A k \in 0 .. N : \A e \in B \cap P : lev[e] <= k => top[e] \in B
  <2> DEFINE A == {k \in 0 .. N : \A e \in B \cap P : lev[e] <= k => top[e] \in B}
  <2>1. 0 \in A
    <3>1. ASSUME NEW e \in B \cap P, lev[e] <= 0 PROVE top[e] \in B
      <4>1. CASE par[e] = 0
        BY <1>3, <4>1
      <4>2. CASE par[e] # 0
        <5>1. par[e] \in P /\ lev[e] = lev[par[e]] + 1 /\ lev[par[e]] \in 0 .. N
          BY <1>3, <4>2
        <5>2. PICK x, y : x = lev[e] /\ y = lev[par[e]]
          OBVIOUS
        <5>3. x <= 0 /\ x = y + 1 /\ y \in 0 .. N
          BY <3>1, <5>1, <5>2
        <5>4. QED
          BY <1>0, <5>3
      <4>3. QED
        BY <4>1, <4>2
    <3>2. QED
      BY <1>0, <3>1
  <2>2. ASSUME NEW k \in 0 .. (N - 1), k \in A PROVE k + 1 \in A
    <3>1. ASSUME NEW e \in B \cap P, lev[e] <= k + 1 PROVE top[e] \in B
      <4>1. CASE par[e] = 0
        BY <1>3, <4>1
      <4>2. CASE par[e] # 0
        <5> PICK p : p = par[e]
          OBVIOUS
        <5>1. p \in P /\ lev[e] = lev[p] + 1 /\ lev[p] \in 0 .. N /\ top[e] = top[p] /\ <<e, p>> \in g
          BY <1>3, <4>2
        <5>2. PICK x, y : x = lev[e] /\ y = lev[p]
          OBVIOUS
        <5>3. x <= k + 1 /\ x = y + 1 /\ y \in 0 .. N
          BY <3>1, <5>1, <5>2
        <5>4. y <= k
          BY <1>0, <5>3
        <5>5. p \in B
          BY <1>2, <5>1, NeighboursOk DEF Closed
        <5>6. QED
          BY <2>2, <5>1, <5>2, <5>4, <5>5
      <4>3. QED
        BY <4>1, <4>2
    <3>2. k + 1 \in 0 .. N
      BY <1>0
    <3>3. QED
      BY <3>1, <3>2
  <2>3. \A n \in 0 .. N : n \in A
    <3> HIDE DEF A
    <3>1. QED
      BY <1>0, <2>1, <2>2, UpTo
  <2>4. QED
    BY <2>3
<1>5. r \in B
  <2>1. lev[d] \in 0 .. N /\ lev[d] <= lev[d]
    <3>1. PICK x : x = lev[d]
      OBVIOUS
    <3>2. x \in 0 .. N
      BY <1>3, <3>1
    <3>3. x <= x
      BY <1>0, <3>2
    <3>4. QED
      BY <3>1, <3>2, <3>3
  <2>2. QED
    BY <1>2, <1>4, <2>1
\* And from there to all.
<1>6. ASSUME NEW e \in P, top[e] = r PROVE e \in B
  <2> DEFINE A == {k \in 0 .. N : \A f \in P : top[f] = r /\ lev[f] <= k => f \in B}
  <2>1. 0 \in A
    <3>1. ASSUME NEW f \in P, top[f] = r, lev[f] <= 0 PROVE f \in B
      <4>1. CASE par[f] = 0
        BY <1>3, <1>5, <3>1, <4>1
      <4>2. CASE par[f] # 0
        <5>1. par[f] \in P /\ lev[f] = lev[par[f]] + 1 /\ lev[par[f]] \in 0 .. N
          BY <1>3, <4>2
        <5>2. PICK x, y : x = lev[f] /\ y = lev[par[f]]
          OBVIOUS
        <5>3. x <= 0 /\ x = y + 1 /\ y \in 0 .. N
          BY <3>1, <5>1, <5>2
        <5>4. QED
          BY <1>0, <5>3
      <4>3. QED
        BY <4>1, <4>2
    <3>2. QED
      BY <1>0, <3>1
  <2>2. ASSUME NEW k \in 0 .. (N - 1), k \in A PROVE k + 1 \in A
    <3>1. ASSUME NEW f \in P, top[f] = r, lev[f] <= k + 1 PROVE f \in B
      <4>1. CASE par[f] = 0
        BY <1>3, <1>5, <3>1, <4>1
      <4>2. CASE par[f] # 0
        <5> PICK p : p = par[f]
          OBVIOUS
        <5>1. p \in P /\ lev[f] = lev[p] + 1 /\ lev[p] \in 0 .. N /\ top[p] = r /\ <<p, f>> \in g
          BY <1>3, <3>1, <4>2
        <5>2. PICK x, y : x = lev[f] /\ y = lev[p]
          OBVIOUS
        <5>3. x <= k + 1 /\ x = y + 1 /\ y \in 0 .. N
          BY <3>1, <5>1, <5>2
        <5>4. y <= k
          BY <1>0, <5>3
        <5>5. p \in B
          BY <2>2, <5>1, <5>2, <5>4
        <5>6. QED
          BY <1>2, <5>1, <5>5, NeighboursOk DEF Closed
      <4>3. QED
        BY <4>1, <4>2
    <3>2. k + 1 \in 0 .. N
      BY <1>0
    <3>3. QED
      BY <3>1, <3>2
  <2>3. \A n \in 0 .. N : n \in A
    <3> HIDE DEF A
    <3>1. QED
      BY <1>0, <2>1, <2>2, UpTo
  <2>4. lev[e] \in 0 .. N /\ lev[e] <= lev[e]
    <3>1. PICK x : x = lev[e]
      OBVIOUS
    <3>2. x \in 0 .. N
      BY <1>3, <3>1
    <3>3. x <= x
      BY <1>0, <3>2
    <3>4. QED
      BY <3>1, <3>2, <3>3
  <2>5. QED
    BY <1>6, <2>3, <2>4
\* No link leaves a part.
<1>7. ASSUME NEW e \in B PROVE e \in P /\ top[e] = r
  <2> PICK b : b = Ball(g, d)
    OBVIOUS
  <2>1. /\ b[0] = {d}
        /\ \A k \in 0 .. (N - 1) : b[k + 1] = b[k] \cup UNION {Neighbours(g, f) : f \in b[k]}
    BY BallSteps
  <2> DEFINE A == {k \in 0 .. N : \A f \in b[k] : f \in P /\ top[f] = r}
  <2>2. 0 \in A
    BY <1>0, <2>1
  <2>3. ASSUME NEW k \in 0 .. (N - 1), k \in A PROVE k + 1 \in A
    <3>1. ASSUME NEW f \in b[k + 1] PROVE f \in P /\ top[f] = r
      <4>1. f \in b[k] \/ \E h \in b[k] : f \in Neighbours(g, h)
        BY <2>1
      <4>2. \A h \in b[k] : h \in P /\ top[h] = r
        BY <2>3
      <4>3. CASE f \in b[k]
        BY <4>2, <4>3
      <4>4. ASSUME NEW h \in b[k], f \in Neighbours(g, h) PROVE f \in P /\ top[f] = r
        <5>1. h \in P /\ top[h] = r
          BY <4>2
        <5>2. QED
          BY <1>3, <4>4, <5>1
      <4>5. QED
        BY <4>1, <4>3, <4>4
    <3>2. k + 1 \in 0 .. N
      BY <1>0
    <3>3. QED
      BY <3>1, <3>2
  <2>4. \A n \in 0 .. N : n \in A
    <3> HIDE DEF A
    <3>1. QED
      BY <1>0, <2>2, <2>3, UpTo
  <2>5. N \in 0 .. N /\ B = b[N]
    BY <1>0 DEF Reach
  <2>6. QED
    BY <2>4, <2>5
<1>8. QED
  BY <1>6, <1>7

-----------------------------------------------------------------------------
(* The tree.                                                               *)

TreeOf(g, ids) == TreeEdges(Bfs(g, ids), ids)

\* What RunnerResult says of a tree.
ParentsIn(t, d) == {e[2] : e \in {f \in t : f[1] = d}}
PartOf(g, ids, d) == Reach(g, d) \cap ids
ShortestPaths(g, ids, t) ==
  /\ t \subseteq g
  /\ \A d \in ids :
       \E r \in PartOf(g, ids, d) :
         /\ {x \in PartOf(g, ids, d) : ParentsIn(t, x) = {}} = {r}
         /\ IF Root \in PartOf(g, ids, d) THEN r = Root
            ELSE \A e \in PartOf(g, ids, d) : Degree(g, r) >= Degree(g, e)
         /\ d # r => \E p \in Devices : ParentsIn(t, d) = {p} /\ Dist(g, r, d) = Dist(g, r, p) + 1

LEMMA TreeIs ==
  ASSUME NEW g, NEW ids, NEW par, NEW lev, NEW top, Built(g, ids, par, lev, top)
  PROVE  /\ \A d, p : <<d, p>> \in TreeEdges(par, ids) <=> d \in ids /\ par[d] # 0 /\ p = par[d]
         /\ TreeEdges(par, ids) \subseteq ids \X Devices
         /\ \A d \in ids : par[d] = 0 => ParentsIn(TreeEdges(par, ids), d) = {}
         /\ \A d \in ids : par[d] # 0 => ParentsIn(TreeEdges(par, ids), d) = {par[d]}
<1> PICK t : t = TreeEdges(par, ids)
  OBVIOUS
<1>1. \A e : e \in t <=> \E d \in ids : par[d] # 0 /\ e = <<d, par[d]>>
  BY DEF TreeEdges
<1>2. \A d, p : <<d, p>> \in t <=> d \in ids /\ par[d] # 0 /\ p = par[d]
  BY <1>1
<1>3. \A d \in ids : par[d] # 0 => par[d] \in Devices
  BY DEF Built
<1>4. t \subseteq ids \X Devices
  BY <1>1, <1>3
<1>5. ASSUME NEW d \in ids PROVE \A p : p \in ParentsIn(t, d) <=> par[d] # 0 /\ p = par[d]
  <2>1. ASSUME NEW p \in ParentsIn(t, d) PROVE par[d] # 0 /\ p = par[d]
    <3>1. PICK e \in t : e[1] = d /\ p = e[2]
      BY <2>1 DEF ParentsIn
    <3>2. PICK c \in ids : par[c] # 0 /\ e = <<c, par[c]>>
      BY <1>1
    <3>3. e[1] = c /\ e[2] = par[c]
      BY <3>2
    <3>4. QED
      BY <3>1, <3>2, <3>3
  <2>2. ASSUME par[d] # 0 PROVE par[d] \in ParentsIn(t, d)
    <3>1. <<d, par[d]>> \in t /\ <<d, par[d]>>[1] = d /\ <<d, par[d]>>[2] = par[d]
      BY <1>1, <2>2
    <3>2. QED
      BY <3>1 DEF ParentsIn
  <2>3. QED
    BY <2>1, <2>2
<1>6. QED
  BY <1>2, <1>4, <1>5

LEMMA FoundSpans ==
  ASSUME NEW g, GraphOk(g), NEW ids \in SUBSET Devices,
         NEW par, NEW lev, NEW top, Built(g, ids, par, lev, top),
         \A d \in ids : par[d] # 0 => par[d] \in ids
  PROVE  /\ ShortestPaths(g, ids, TreeEdges(par, ids))
         /\ \A d, p : <<d, p>> \in TreeEdges(par, ids) => <<p, d>> \notin TreeEdges(par, ids)
<1>1. Built(g, ids, par, lev, top)
  OBVIOUS
<1>11. \A d \in DOMAIN par : Reach(g, d) = {e \in DOMAIN par : top[e] = top[d]}
  BY ReachIsPart
<1>12. \A r, e \in DOMAIN par : par[r] = 0 /\ top[e] = r => Dist(g, r, e) = lev[e]
  BY DistOfRoot
<1> PICK t : t = TreeEdges(par, ids)
  OBVIOUS
<1>2. /\ \A d, p : <<d, p>> \in t <=> d \in ids /\ par[d] # 0 /\ p = par[d]
      /\ t \subseteq ids \X Devices
      /\ \A d \in ids : par[d] = 0 => ParentsIn(t, d) = {}
      /\ \A d \in ids : par[d] # 0 => ParentsIn(t, d) = {par[d]}
  BY <1>1, TreeIs
<1>3. Cardinality(Devices) \in Nat
  BY DevicesFinite
<1>4. ASSUME NEW d \in ids
      PROVE  /\ lev[d] \in Nat /\ top[d] \in ids /\ par[top[d]] = 0 /\ d \in DOMAIN par
             /\ par[d] = 0 => lev[d] = 0 /\ top[d] = d
             /\ par[d] # 0 => /\ par[d] \in ids /\ <<d, par[d]>> \in g
                              /\ lev[d] = lev[par[d]] + 1 /\ top[d] = top[par[d]]
             /\ top[d] = Root \/ \A e \in ids : top[e] = top[d] => Degree(g, top[d]) >= Degree(g, e)
  <2>1. lev[d] \in 0 .. Cardinality(Devices) /\ d \in DOMAIN par
    BY <1>1 DEF Built
  <2>2. lev[d] \in Nat
    BY <1>3, <2>1
  <2>3. par[d] # 0 => par[d] \in ids
    OBVIOUS
  <2>4. QED
    BY <1>1, <2>1, <2>2, <2>3 DEF Built
<1>5. t \subseteq g
  <2>1. ASSUME NEW e \in t PROVE e \in g
    <3>1. e = <<e[1], e[2]>>
      BY <1>2
    <3>2. QED
      BY <1>2, <1>4, <3>1
  <2>2. QED
    BY <2>1
<1>6. ASSUME NEW d, NEW p, <<d, p>> \in t, <<p, d>> \in t PROVE FALSE
  <2>1. d \in ids /\ p \in ids /\ lev[d] = lev[p] + 1 /\ lev[p] = lev[d] + 1 /\ lev[d] \in Nat /\ lev[p] \in Nat
    BY <1>2, <1>4, <1>6
  <2>2. PICK x, y : x = lev[d] /\ y = lev[p]
    OBVIOUS
  <2>3. x \in Nat /\ y \in Nat /\ x = y + 1 /\ y = x + 1
    BY <2>1, <2>2
  <2>4. QED
    BY <2>3
<1>7. ASSUME NEW d \in ids
      PROVE  \E r \in PartOf(g, ids, d) :
         /\ {x \in PartOf(g, ids, d) : ParentsIn(t, x) = {}} = {r}
         /\ IF Root \in PartOf(g, ids, d) THEN r = Root
            ELSE \A e \in PartOf(g, ids, d) : Degree(g, r) >= Degree(g, e)
         /\ d # r => \E p \in Devices : ParentsIn(t, d) = {p} /\ Dist(g, r, d) = Dist(g, r, p) + 1
  <2> PICK r, S : r = top[d] /\ S = PartOf(g, ids, d)
    OBVIOUS
  <2>1. \A e : e \in S <=> e \in ids /\ top[e] = r
    <3>1. Reach(g, d) = {e \in DOMAIN par : top[e] = top[d]}
      BY <1>4, <1>11
    <3>2. QED
      BY <1>4, <3>1 DEF PartOf
  <2>2. r \in ids /\ par[r] = 0 /\ top[r] = r /\ r \in DOMAIN par
    BY <1>4
  <2>3. \A x \in S : ParentsIn(t, x) = {} <=> x = r
    <3>1. ASSUME NEW x \in S, ParentsIn(t, x) = {} PROVE x = r
      <4>1. x \in ids /\ top[x] = r
        BY <2>1
      <4>2. par[x] = 0
        BY <1>2, <3>1, <4>1
      <4>3. QED
        BY <1>4, <4>1, <4>2
    <3>2. ParentsIn(t, r) = {}
      BY <1>2, <2>2
    <3>3. QED
      BY <3>1, <3>2
  <2>4. {x \in S : ParentsIn(t, x) = {}} = {r}
    BY <2>1, <2>2, <2>3
  <2>5. IF Root \in S THEN r = Root ELSE \A e \in S : Degree(g, r) >= Degree(g, e)
    <3>1. CASE Root \in S
      <4>1. Root \in ids /\ top[Root] = r
        BY <2>1, <3>1
      <4>2. top[Root] = Root
        BY <1>1, <4>1 DEF Built
      <4>3. QED
        BY <3>1, <4>1, <4>2
    <3>2. CASE Root \notin S
      <4>1. r # Root
        BY <2>1, <2>2, <3>2
      <4>2. QED
        BY <1>4, <2>1, <3>2, <4>1
    <3>3. QED
      BY <3>1, <3>2
  <2>6. ASSUME d # r PROVE \E p \in Devices : ParentsIn(t, d) = {p} /\ Dist(g, r, d) = Dist(g, r, p) + 1
    <3>1. par[d] # 0
      BY <1>4, <2>6
    <3>2. PICK p : p = par[d]
      OBVIOUS
    <3>3. p \in ids /\ lev[d] = lev[p] + 1 /\ top[p] = r /\ ParentsIn(t, d) = {p}
      BY <1>2, <1>4, <3>1, <3>2
    <3>4. Dist(g, r, d) = lev[d] /\ Dist(g, r, p) = lev[p]
      <4>1. d \in DOMAIN par /\ p \in DOMAIN par /\ r \in DOMAIN par /\ par[r] = 0 /\ top[d] = r /\ top[p] = r
        BY <1>4, <2>2, <3>3
      <4>2. QED
        BY <1>12, <4>1
    <3>5. QED
      BY <3>3, <3>4
  <2>7. r \in S
    BY <2>1, <2>2
  <2>8. QED
    BY <2>4, <2>5, <2>6, <2>7
<1>8. ShortestPaths(g, ids, t)
  BY <1>5, <1>7 DEF ShortestPaths
<1>9. QED
  BY <1>6, <1>8

\* A tree leaves its network only through a device that two devices of it have links to:
\* the one that hangs from it, and the one it hangs from.
LEMMA TreeCrosses ==
  ASSUME NEW g, GraphOk(g), NEW ids \in SUBSET Devices, NEW par, NEW lev, NEW top, Built(g, ids, par, lev, top),
         NEW d \in ids, par[d] # 0, par[d] \notin ids
  PROVE  \E q : q # d /\ <<d, par[d]>> \in g /\ <<q, par[d]>> \in g
<1> PICK p, q : p = par[d] /\ q = par[par[d]]
  OBVIOUS
<1>1. d \in DOMAIN par /\ p \in DOMAIN par /\ <<d, p>> \in g /\ lev[d] = lev[p] + 1
  BY DEF Built
<1>2. q # 0
  <2>1. top[p] \in ids /\ (q = 0 => top[p] = p)
    BY <1>1 DEF Built
  <2>2. QED
    BY <2>1
<1>3. q \in DOMAIN par /\ <<p, q>> \in g /\ lev[p] = lev[q] + 1
  BY <1>1, <1>2 DEF Built
<1>4. q # d
  <2>1. lev[d] \in 0 .. Cardinality(Devices) /\ lev[p] \in 0 .. Cardinality(Devices)
    BY <1>1 DEF Built
  <2>2. PICK x, y : x = lev[d] /\ y = lev[p]
    OBVIOUS
  <2>3. x \in Int /\ y \in Int /\ x = y + 1
    BY <1>1, <2>1, <2>2, DevicesFinite
  <2>4. y # x + 1
    BY <2>3
  <2>5. QED
    BY <1>3, <2>2, <2>4
<1>5. <<q, p>> \in g
  <2>1. <<p, q>>[1] = p /\ <<p, q>>[2] = q
    OBVIOUS
  <2>2. QED
    BY <1>3, <2>1 DEF GraphOk
<1>6. QED
  BY <1>1, <1>4, <1>5

LEMMA TreeSpans ==
  ASSUME NEW g, GraphOk(g), NEW ids \in SUBSET Devices,
         \A d, e, p : <<d, p>> \in g /\ <<e, p>> \in g /\ p \notin ids => d = e
  PROVE  /\ ShortestPaths(g, ids, TreeOf(g, ids)) /\ TreeOf(g, ids) \subseteq ids \X ids
         /\ \A d, p : <<d, p>> \in TreeOf(g, ids) => <<p, d>> \notin TreeOf(g, ids)
<1> PICK par : par = Bfs(g, ids)
  OBVIOUS
<1>1. PICK lev, top : Built(g, ids, par, lev, top)
  BY BfsFound
<1>2. ASSUME NEW d \in ids, par[d] # 0 PROVE par[d] \in ids
  BY <1>1, <1>2, TreeCrosses
<1>3. /\ ShortestPaths(g, ids, TreeEdges(par, ids))
      /\ \A d, p : <<d, p>> \in TreeEdges(par, ids) => <<p, d>> \notin TreeEdges(par, ids)
  BY <1>1, <1>2, FoundSpans
<1>4. TreeEdges(par, ids) \subseteq ids \X ids
  BY <1>2 DEF TreeEdges
<1>5. QED
  BY <1>3, <1>4 DEF TreeOf

LEMMA IsShortestPathTreeIs == \A n : IsShortestPathTree(n) <=> ShortestPaths(Graph(n), InNet(n), Marked(n))
BY Zenon DEF IsShortestPathTree, ShortestPaths, ParentsIn, PartOf

\* What the three statements make of a link, and what they make of all of a network.
Resolved(l, t) ==
  IF <<l.dst, l.src>> \in t THEN "downlink" ELSE IF <<l.src, l.dst>> \in t THEN "uplink" ELSE "peer"

\* A row of the network whose far device is in another one may be a downlink of that one.
ForeignDown(l) == NetOf[l.dst] # NetOf[l.src] /\ relation[l] = "downlink"

Settled(n) ==
  \A l \in NetRows(n) : relation[l] = Resolved(l, TreeOf(Graph(n), InNet(n))) \/ ForeignDown(l)

\* Only a network that is crossed makes a downlink of another one's row.
CrossMarks == \A l \in linkRows : ForeignDown(l) => Crossed(NetOf[l.dst])

RowsKnown == known \subseteq Devices /\ linkRows \subseteq Links /\ \A l \in linkRows : l.src \in known /\ l.dst \in known

LEMMA GraphIs ==
  ASSUME RowsKnown, NEW n
  PROVE  /\ \A x, y : <<x, y>> \in Graph(n) <=>
              \E l \in NetRows(n) : /\ l.layer = "network" /\ l.src # l.dst
                                    /\ (x = l.src /\ y = l.dst) \/ (x = l.dst /\ y = l.src)
         /\ GraphOk(Graph(n))
         /\ \A x, y : <<x, y>> \in Graph(n) => x \in known /\ y \in known
<1> PICK g : g = Graph(n)
  OBVIOUS
<1>1. \A e : e \in g <=> \E l \in NetRows(n) : /\ l.layer = "network" /\ l.src # l.dst
                                               /\ e = <<l.src, l.dst>> \/ e = <<l.dst, l.src>>
  BY DEF Graph
<1>2. \A x, y : <<x, y>> \in g <=>
         \E l \in NetRows(n) : /\ l.layer = "network" /\ l.src # l.dst
                               /\ (x = l.src /\ y = l.dst) \/ (x = l.dst /\ y = l.src)
  <2>1. \A x, y, a, b : <<x, y>> = <<a, b>> <=> x = a /\ y = b
    OBVIOUS
  <2>2. QED
    BY <1>1, <2>1
<1>3. \A l \in NetRows(n) : l \in Links /\ l.src \in known /\ l.dst \in known /\ NetOf[l.src] = n
  BY DEF RowsKnown, NetRows
<1>4. GraphOk(g)
  <2>1. ASSUME NEW e \in g PROVE e \in Devices \X Devices /\ <<e[2], e[1]>> \in g
    <3>1. PICK l \in NetRows(n) : /\ l.layer = "network" /\ l.src # l.dst
                                  /\ e = <<l.src, l.dst>> \/ e = <<l.dst, l.src>>
      BY <1>1
    <3>2. l.src \in Devices /\ l.dst \in Devices
      BY <1>3 DEF RowsKnown
    <3>3. <<l.src, l.dst>> \in g /\ <<l.dst, l.src>> \in g
      BY <1>1, <3>1
    <3>4. QED
      BY <3>1, <3>2, <3>3
  <2>2. QED
    BY <2>1 DEF GraphOk
<1>5. \A x, y : <<x, y>> \in g => x \in known /\ y \in known
  BY <1>2, <1>3
<1>6. QED
  BY <1>2, <1>4, <1>5

\* Settled relations say what the tree says.
LEMMA SettledMarks ==
  ASSUME RowsKnown, CrossMarks, NEW n, Settled(n), ~Crossed(n)
  PROVE  IsShortestPathTree(n)
<1> PICK g, ids, t : g = Graph(n) /\ ids = InNet(n) /\ t = TreeOf(Graph(n), InNet(n))
  OBVIOUS
<1>1. /\ GraphOk(g)
      /\ \A x, y : <<x, y>> \in g => x \in known /\ y \in known
      /\ \A x, y : <<x, y>> \in g <=>
              \E l \in NetRows(n) : /\ l.layer = "network" /\ l.src # l.dst
                                    /\ (x = l.src /\ y = l.dst) \/ (x = l.dst /\ y = l.src)
  BY GraphIs
<1>2. ids \in SUBSET Devices
  BY DEF InNet, RowsKnown
<1>3. \A d, e, p : <<d, p>> \in g /\ <<e, p>> \in g /\ p \notin ids => d = e
  <2> SUFFICES ASSUME NEW d, NEW e, NEW p, <<d, p>> \in g, <<e, p>> \in g, p \notin ids, d # e PROVE FALSE
    OBVIOUS
  <2>1. NetOf[p] # n
    BY <1>1 DEF InNet
  <2>2. <<d, p>>[1] = d /\ <<d, p>>[2] = p /\ <<e, p>>[1] = e /\ <<e, p>>[2] = p
    OBVIOUS
  <2>3. QED
    BY <2>1, <2>2 DEF Crossed
<1>4. ShortestPaths(g, ids, t) /\ t \subseteq ids \X ids /\ \A d, p : <<d, p>> \in t => <<p, d>> \notin t
  BY <1>1, <1>2, <1>3, TreeSpans
<1>5. t \subseteq g /\ t \subseteq ids \X ids /\ \A x, y : <<x, y>> \in t => NetOf[x] = n /\ NetOf[y] = n
  BY <1>4 DEF ShortestPaths, InNet
<1>6. \A l \in NetRows(n) : relation[l] = Resolved(l, t) \/ ForeignDown(l)
  BY DEF Settled
<1>7. \A m \in linkRows : NetOf[m.src] = n <=> m \in NetRows(n)
  BY DEF NetRows
<1>12. \A m \in NetRows(n) : m \in linkRows
  BY DEF NetRows
<1> PICK M : M = Marked(n)
  OBVIOUS
<1>8. \A e : e \in M <=> \/ \E m \in linkRows : NetOf[m.src] = n /\ relation[m] = "uplink" /\ e = <<m.src, m.dst>>
                         \/ \E m \in linkRows : NetOf[m.dst] = n /\ relation[m] = "downlink" /\ e = <<m.dst, m.src>>
  BY DEF Marked
<1>9. ASSUME NEW e \in M PROVE e \in t
  <2>1. CASE \E m \in linkRows : NetOf[m.src] = n /\ relation[m] = "uplink" /\ e = <<m.src, m.dst>>
    <3>1. PICK m \in linkRows : NetOf[m.src] = n /\ relation[m] = "uplink" /\ e = <<m.src, m.dst>>
      BY <2>1
    <3>2. Resolved(m, t) = "uplink"
      BY <1>6, <1>7, <3>1 DEF ForeignDown
    <3>3. QED
      BY <3>1, <3>2 DEF Resolved
  <2>2. CASE \E m \in linkRows : NetOf[m.dst] = n /\ relation[m] = "downlink" /\ e = <<m.dst, m.src>>
    <3>1. PICK m \in linkRows : NetOf[m.dst] = n /\ relation[m] = "downlink" /\ e = <<m.dst, m.src>>
      BY <2>2
    <3>2. NetOf[m.src] = n
      BY <3>1 DEF CrossMarks, ForeignDown
    <3>3. Resolved(m, t) = "downlink"
      BY <1>6, <1>7, <3>1, <3>2 DEF ForeignDown
    <3>4. QED
      BY <3>1, <3>3 DEF Resolved
  <2>3. QED
    BY <1>8, <2>1, <2>2
<1>10. ASSUME NEW e \in t PROVE e \in M
  <2>1. PICK x, y : e = <<x, y>>
    BY <1>5
  <2>2. <<x, y>> \in g /\ <<x, y>> \in t /\ <<y, x>> \notin t /\ NetOf[x] = n /\ NetOf[y] = n
    BY <1>4, <1>5, <2>1
  <2>3. PICK l \in NetRows(n) : (x = l.src /\ y = l.dst) \/ (x = l.dst /\ y = l.src)
    BY <1>1, <2>2
  <2>4. relation[l] = Resolved(l, t)
    BY <1>6, <2>2, <2>3 DEF ForeignDown
  <2>5. CASE x = l.src /\ y = l.dst
    <3>1. relation[l] = "uplink"
      BY <2>2, <2>4, <2>5 DEF Resolved
    <3>2. QED
      BY <1>8, <1>12, <2>1, <2>2, <2>5, <3>1
  <2>6. CASE x = l.dst /\ y = l.src
    <3>1. relation[l] = "downlink"
      BY <2>2, <2>4, <2>6 DEF Resolved
    <3>2. QED
      BY <1>8, <1>12, <2>1, <2>2, <2>6, <3>1
  <2>7. QED
    BY <2>3, <2>5, <2>6
<1>11. M = t
  BY <1>9, <1>10
<1>13. QED
  BY <1>4, <1>11, IsShortestPathTreeIs

-----------------------------------------------------------------------------
(* The runner.                                                             *)

DevicesOf(n) == {d \in Devices : NetOf[d] = n}

RunShape ==
  \/ run = Stopped
  \/ run.step = "net" /\ run = [step |-> "net", left |-> run.left]
  \/ run.step = "edges" /\ run = [step |-> "edges", left |-> run.left, net |-> run.net, ids |-> run.ids]
  \/ /\ run.step \in {"reset", "up", "down"}
     /\ run = [step |-> run.step, left |-> run.left, net |-> run.net, ids |-> run.ids, tree |-> run.tree]
  \/ run.step = "classify" /\ run = [step |-> "classify", left |-> run.left, net |-> run.net]
  \/ run.step = "roles" /\ run = [step |-> "roles", left |-> run.left, net |-> run.net, roles |-> run.roles]

\* It has devices of its network only, whatever became of the tables.
RunOwn ==
  /\ run.step \in {"edges", "reset", "up", "down"} => run.ids \subseteq DevicesOf(run.net)
  /\ run.step \in {"reset", "up", "down"} => run.tree \subseteq run.ids \X Devices
  /\ run.step = "roles" => DOMAIN run.roles \subseteq DevicesOf(run.net)

RolesOf(g, ids) == [d \in ids |-> RoleOf(d, Neighbours(g, d), ids)]

RolesSettled(n) == \A d \in InNet(n) \ overridden : role[d] = RolesOf(Graph(n), InNet(n))[d]

\* The runner is at the network.
AtNet(n) == run.step \notin {"idle", "net"} /\ run.net = n

\* How far it is with the tables there are.
Progress(n) ==
  /\ run.step = "edges" => run.ids = InNet(n)
  /\ run.step \in {"reset", "up", "down"} => run.tree = TreeOf(Graph(n), InNet(n))
  /\ run.step = "up" => \A l \in NetRows(n) : relation[l] = "peer"
  /\ run.step = "down" =>
       \A l \in NetRows(n) : relation[l] = IF <<l.src, l.dst>> \in run.tree THEN "uplink" ELSE "peer"
  /\ run.step \in {"classify", "roles"} => Settled(n)
  /\ run.step = "roles" => run.roles = RolesOf(Graph(n), InNet(n))

FreshHolds == \A n \in fresh : IF AtNet(n) THEN Progress(n) ELSE Settled(n) /\ RolesSettled(n)

AdminsKept ==
  /\ role = [d \in Devices |-> role[d]] /\ overridden \subseteq Devices
  /\ \A d \in overridden : role[d] = "admin"

RunnerInv == RunShape /\ RunOwn /\ FreshHolds /\ AdminsKept

RelationTyped == relation = [l \in Links |-> relation[l]]

\* The relation of a row stays, or another network makes it its downlink.
RowStays(l) == relation'[l] = relation[l] \/ ForeignDown(l)'

LEMMA SameNet ==
  ASSUME NEW n, InNet(n)' = InNet(n), NetRows(n)' = NetRows(n), \A l \in NetRows(n) : RowStays(l)
  PROVE  Graph(n)' = Graph(n) /\ (Settled(n) => Settled(n)')
<1>1. Graph(n)' = Graph(n)
  BY DEF Graph
<1>2. TreeOf(Graph(n), InNet(n))' = TreeOf(Graph(n), InNet(n))
  BY <1>1
<1>3. ASSUME NEW l, NEW t, RowStays(l), relation[l] = Resolved(l, t) \/ ForeignDown(l)
      PROVE  (relation[l] = Resolved(l, t) \/ ForeignDown(l))'
  BY <1>3 DEF RowStays, ForeignDown, Resolved
<1>4. QED
  BY <1>1, <1>2, <1>3 DEF Settled

\* Nothing changes for a network.
LEMMA SameHolds ==
  ASSUME NEW n, InNet(n)' = InNet(n), NetRows(n)' = NetRows(n), \A l \in NetRows(n) : relation'[l] = relation[l],
         UNCHANGED run, UNCHANGED <<role, overridden>>,
         IF AtNet(n) THEN Progress(n) ELSE Settled(n) /\ RolesSettled(n)
  PROVE  (IF AtNet(n) THEN Progress(n) ELSE Settled(n) /\ RolesSettled(n))'
<1>1. Graph(n)' = Graph(n) /\ (Settled(n) => Settled(n)')
  BY SameNet DEF RowStays
<1>2. TreeOf(Graph(n), InNet(n))' = TreeOf(Graph(n), InNet(n))
  BY <1>1
<1>3. RolesOf(Graph(n), InNet(n))' = RolesOf(Graph(n), InNet(n))
  BY <1>1
<1>4. CASE AtNet(n)
  <2>1. AtNet(n)' /\ Progress(n)
    BY <1>4 DEF AtNet
  <2>2. Progress(n)'
    BY <1>1, <1>2, <1>3, <2>1 DEF Progress
  <2>3. QED
    BY <2>1, <2>2
<1>5. CASE ~AtNet(n)
  <2>1. ~AtNet(n)' /\ Settled(n) /\ RolesSettled(n)
    BY <1>5 DEF AtNet
  <2>2. RolesSettled(n)'
    BY <1>3, <2>1 DEF RolesSettled
  <2>3. QED
    BY <1>1, <2>1, <2>2
<1>6. QED
  BY <1>4, <1>5

LEMMA LinksKeep ==
  ASSUME RowsKnown, RelationTyped, LinksNext
  PROVE  \A l \in linkRows : relation'[l] = relation[l]
<1>1. CASE UNCHANGED relation
  BY <1>1
<1>2. ASSUME NEW m \in Links, UpsertLinks(m) PROVE \A l \in linkRows : relation'[l] = relation[l]
  <2> SUFFICES ASSUME NEW l \in linkRows PROVE relation'[l] = relation[l]
    OBVIOUS
  <2>1. l \in Links /\ l \in DOMAIN relation
    <3>1. DOMAIN relation = Links
      BY DEF RelationTyped
    <3>2. QED
      BY <3>1 DEF RowsKnown
  <2>2. relation' = [relation EXCEPT ![m] = IF m \in linkRows THEN relation[m] ELSE "peer"]
    BY <1>2 DEF UpsertLinks
  <2>3. QED
    BY <2>1, <2>2
<1>3. UNCHANGED relation \/ \E m \in Links : UpsertLinks(m)
  BY DEF LinksNext, Working, Reporting, EmitTopologyLinks, SkipCycle, Register, WriteTopologyLink,
         WriteTopologyLinkFails, Flap, Correlate, PlainEvent, SetActive, SetActiveFails, WriteLinkEvent
<1>4. QED
  BY <1>1, <1>2, <1>3

LEMMA LinksRunner == ASSUME RowsKnown, RelationTyped, RunnerInv, LinksNext, Notice PROVE RunnerInv'
<1>1. \A l \in linkRows : relation'[l] = relation[l]
  BY LinksKeep
<1>2. /\ fresh' = {n \in fresh : InNet(n)' = InNet(n) /\ NetRows(n)' = NetRows(n)}
      /\ UNCHANGED run /\ UNCHANGED <<role, overridden>>
  BY DEF Notice
<1>3. FreshHolds'
  <2>1. ASSUME NEW n \in fresh' PROVE (IF AtNet(n) THEN Progress(n) ELSE Settled(n) /\ RolesSettled(n))'
    <3>1. n \in fresh /\ InNet(n)' = InNet(n) /\ NetRows(n)' = NetRows(n)
      BY <1>2, <2>1
    <3>2. \A l \in NetRows(n) : relation'[l] = relation[l]
      BY <1>1 DEF NetRows
    <3>3. IF AtNet(n) THEN Progress(n) ELSE Settled(n) /\ RolesSettled(n)
      BY <3>1 DEF RunnerInv, FreshHolds
    <3>4. QED
      BY <1>2, <3>1, <3>2, <3>3, SameHolds
  <2>2. QED
    BY <2>1 DEF FreshHolds
<1>4. QED
  BY <1>2, <1>3 DEF RunnerInv, RunShape, RunOwn, AdminsKept

\* The runner leaves the rows alone.
LEMMA SameGraph ==
  ASSUME UNCHANGED <<known, linkRows>>, NEW n
  PROVE  InNet(n)' = InNet(n) /\ NetRows(n)' = NetRows(n) /\ Graph(n)' = Graph(n)
BY DEF InNet, NetRows, Graph

\* A network the runner is not at before and after, and whose relations and roles stay.
LEMMA OtherHolds ==
  ASSUME NEW n, UNCHANGED <<known, linkRows>>, ~AtNet(n), \A l \in NetRows(n) : RowStays(l),
         \A d \in InNet(n) \ overridden' : d \notin overridden /\ role'[d] = role[d],
         Settled(n), RolesSettled(n)
  PROVE  Settled(n)' /\ RolesSettled(n)'
<1>1. InNet(n)' = InNet(n) /\ NetRows(n)' = NetRows(n) /\ Graph(n)' = Graph(n)
  BY SameGraph
<1>2. Settled(n)'
  BY <1>1, SameNet
<1>3. RolesOf(Graph(n), InNet(n))' = RolesOf(Graph(n), InNet(n))
  BY <1>1
<1>4. RolesSettled(n)'
  BY <1>1, <1>3 DEF RolesSettled
<1>5. QED
  BY <1>2, <1>4

LEMMA OwnOnly == ASSUME RowsKnown, NEW n PROVE InNet(n) \subseteq DevicesOf(n)
BY DEF InNet, DevicesOf, RowsKnown

LEMMA StartRunner == ASSUME RowsKnown, RunnerInv, StartRun PROVE RunnerInv'
<1>1. run = Stopped /\ UNCHANGED <<known, linkRows, relation, role, overridden, fresh>>
  BY DEF StartRun
<1>2. PICK L : run' = [step |-> "net", left |-> L]
  BY DEF StartRun
<1>3. run'.step = "net" /\ run' = [step |-> "net", left |-> run'.left] /\ run.step = "idle"
  BY <1>1, <1>2 DEF Stopped
<1>4. RunShape' /\ RunOwn'
  BY <1>3 DEF RunShape, RunOwn
<1>5. \A n : ~AtNet(n) /\ ~AtNet(n)'
  BY <1>3 DEF AtNet
<1>6. FreshHolds'
  <2>1. ASSUME NEW n \in fresh PROVE Settled(n)' /\ RolesSettled(n)'
    BY <1>1, <1>5, OtherHolds DEF RowStays, RunnerInv, FreshHolds
  <2>2. QED
    BY <1>1, <1>5, <2>1 DEF FreshHolds
<1>7. AdminsKept'
  BY <1>1 DEF RunnerInv, AdminsKept
<1>8. QED
  BY <1>4, <1>6, <1>7 DEF RunnerInv

LEMMA LoadDevicesRunner == ASSUME RowsKnown, RunnerInv, LoadDevices PROVE RunnerInv'
<1>1. run.step = "net" /\ UNCHANGED <<known, linkRows, relation, role, overridden>>
  BY DEF LoadDevices
<1>2. PICK n, L : run' = [step |-> "edges", left |-> L, net |-> n, ids |-> InNet(n)] /\ fresh' = fresh \cup {n}
  BY DEF LoadDevices
<1>3. /\ run'.step = "edges" /\ run'.net = n /\ run'.ids = InNet(n)
      /\ run' = [step |-> "edges", left |-> run'.left, net |-> run'.net, ids |-> run'.ids]
  BY <1>2
<1>4. RunShape'
  BY <1>3 DEF RunShape
<1>5. RunOwn'
  BY <1>3, OwnOnly DEF RunOwn
<1>6. \A m : ~AtNet(m) /\ (AtNet(m)' <=> m = n)
  BY <1>1, <1>3 DEF AtNet
<1>7. FreshHolds'
  <2>1. ASSUME NEW m \in fresh', m # n PROVE Settled(m)' /\ RolesSettled(m)'
    BY <1>1, <1>2, <1>6, <2>1, OtherHolds DEF RowStays, RunnerInv, FreshHolds
  <2>2. Progress(n)'
    <3>1. InNet(n)' = InNet(n)
      BY <1>1, SameGraph
    <3>2. QED
      BY <1>3, <3>1 DEF Progress
  <2>3. QED
    BY <1>6, <2>1, <2>2 DEF FreshHolds
<1>8. AdminsKept'
  BY <1>1 DEF RunnerInv, AdminsKept
<1>9. QED
  BY <1>4, <1>5, <1>7, <1>8 DEF RunnerInv

LEMMA LoadEdgesRunner == ASSUME RowsKnown, RunnerInv, LoadEdges PROVE RunnerInv'
<1> PICK n, ids, T : n = run.net /\ ids = run.ids /\ T = TreeOf(Graph(run.net), run.ids)
  OBVIOUS
<1>1. run.step = "edges" /\ UNCHANGED <<known, linkRows, relation, role, overridden, fresh>>
  BY DEF LoadEdges
<1>2. run' = [step |-> "reset", left |-> run.left, net |-> n, ids |-> ids, tree |-> T]
  BY DEF LoadEdges, TreeOf
<1>3. /\ run'.step = "reset" /\ run'.net = n /\ run'.ids = ids /\ run'.tree = T
      /\ run' = [step |-> run'.step, left |-> run'.left, net |-> run'.net, ids |-> run'.ids, tree |-> run'.tree]
  BY <1>2
<1>4. RunShape'
  BY <1>3 DEF RunShape
<1>5. RunOwn'
  <2>1. ids \subseteq DevicesOf(n) /\ ids \in SUBSET Devices
    BY <1>1 DEF RunnerInv, RunOwn, DevicesOf
  <2>2. GraphOk(Graph(n))
    BY GraphIs
  <2>3. T \subseteq ids \X Devices
    <3>1. PICK lev, top : Built(Graph(n), ids, Bfs(Graph(n), ids), lev, top)
      BY <2>1, <2>2, BfsFound
    <3>2. QED
      BY <3>1, TreeIs DEF TreeOf
  <2>4. QED
    BY <1>3, <2>1, <2>3 DEF RunOwn
<1>6. \A m : AtNet(m) <=> m = n
  BY <1>1 DEF AtNet
<1>7. \A m : AtNet(m)' <=> m = n
  BY <1>3 DEF AtNet
<1>8. FreshHolds'
  <2>1. ASSUME NEW m \in fresh', m # n PROVE Settled(m)' /\ RolesSettled(m)'
    BY <1>1, <1>6, <2>1, OtherHolds DEF RowStays, RunnerInv, FreshHolds
  <2>2. ASSUME n \in fresh' PROVE Progress(n)'
    <3>1. Progress(n)
      BY <1>1, <1>6, <2>2 DEF RunnerInv, FreshHolds
    <3>2. T = TreeOf(Graph(n), InNet(n))
      BY <1>1, <3>1 DEF Progress
    <3>3. InNet(n)' = InNet(n) /\ Graph(n)' = Graph(n)
      BY <1>1, SameGraph
    <3>4. QED
      BY <1>3, <3>2, <3>3 DEF Progress
  <2>3. QED
    BY <1>7, <2>1, <2>2 DEF FreshHolds
<1>9. AdminsKept'
  BY <1>1 DEF RunnerInv, AdminsKept
<1>10. QED
  BY <1>4, <1>5, <1>8, <1>9 DEF RunnerInv

LEMMA NextStepIs ==
  ASSUME RunShape, run.step \in {"reset", "up", "down"}, NEW s \in {"up", "down"}, run' = [run EXCEPT !.step = s]
  PROVE  /\ run'.step = s /\ run'.net = run.net /\ run'.ids = run.ids /\ run'.tree = run.tree
         /\ run' = [step |-> run'.step, left |-> run'.left, net |-> run'.net, ids |-> run'.ids, tree |-> run'.tree]
<1>1. run = [step |-> run.step, left |-> run.left, net |-> run.net, ids |-> run.ids, tree |-> run.tree]
  BY DEF RunShape, Stopped
<1>2. run' = [step |-> s, left |-> run.left, net |-> run.net, ids |-> run.ids, tree |-> run.tree]
  BY <1>1
<1>3. QED
  BY <1>2

LEMMA RelateIs ==
  ASSUME RowsKnown, NEW S, NEW r, Relate(S, r)
  PROVE  \A l \in linkRows : relation'[l] = IF l \in S THEN r ELSE relation[l]
BY DEF Relate, RowsKnown

\* One of the three statements, which only touches rows of the network it is at.
LEMMA StatementRunner ==
  ASSUME RowsKnown, RunnerInv, NEW n, n = run.net, run.step \in {"reset", "up", "down"},
         UNCHANGED <<known, linkRows, role, overridden, fresh>>,
         \A m : m # n => \A l \in NetRows(m) : RowStays(l),
         run'.step \notin {"idle", "net"}, run'.net = n,
         RunShape', RunOwn', n \in fresh => Progress(n)'
  PROVE  RunnerInv'
<1>1. \A m : (AtNet(m) <=> m = n) /\ (AtNet(m)' <=> m = n)
  BY DEF AtNet
<1>2. ASSUME NEW m \in fresh', m # n PROVE Settled(m)' /\ RolesSettled(m)'
  <2>1. m \in fresh /\ ~AtNet(m)
    BY <1>1, <1>2
  <2>2. Settled(m) /\ RolesSettled(m)
    BY <2>1 DEF RunnerInv, FreshHolds
  <2>3. \A l \in NetRows(m) : RowStays(l)
    BY <1>2
  <2>4. QED
    BY <2>1, <2>2, <2>3, OtherHolds
<1>3. FreshHolds'
  BY <1>1, <1>2 DEF FreshHolds
<1>4. AdminsKept'
  BY DEF RunnerInv, AdminsKept
<1>5. QED
  BY <1>3, <1>4 DEF RunnerInv

LEMMA ResetRunner == ASSUME RowsKnown, RunnerInv, ResetRelation PROVE RunnerInv'
<1> PICK n : n = run.net
  OBVIOUS
<1>1. run.step = "reset" /\ UNCHANGED <<known, linkRows, role, overridden, fresh>> /\ run' = [run EXCEPT !.step = "up"]
  BY DEF ResetRelation
<1>2. /\ run'.step = "up" /\ run'.net = run.net /\ run'.ids = run.ids /\ run'.tree = run.tree
      /\ run' = [step |-> run'.step, left |-> run'.left, net |-> run'.net, ids |-> run'.ids, tree |-> run'.tree]
  BY <1>1, NextStepIs DEF RunnerInv
<1>3. \A l \in linkRows : relation'[l] = IF l \in NetRows(n) THEN "peer" ELSE relation[l]
  BY RelateIs DEF ResetRelation
<1>4. ASSUME NEW m, m # n, NEW l \in NetRows(m) PROVE RowStays(l)
  BY <1>3, <1>4 DEF NetRows, RowStays
<1>5. RunShape' /\ RunOwn'
  BY <1>1, <1>2 DEF RunShape, RunOwn, RunnerInv
<1>6. InNet(n)' = InNet(n) /\ NetRows(n)' = NetRows(n) /\ Graph(n)' = Graph(n)
  BY <1>1, SameGraph
<1>7. ASSUME n \in fresh PROVE Progress(n)'
  <2>1. Progress(n)
    BY <1>1, <1>7 DEF RunnerInv, FreshHolds, AtNet
  <2>2. \A l \in NetRows(n) : relation'[l] = "peer"
    BY <1>3 DEF NetRows
  <2>3. QED
    BY <1>1, <1>2, <1>6, <2>1, <2>2 DEF Progress
<1>8. QED
  BY <1>1, <1>2, <1>4, <1>5, <1>7, StatementRunner

LEMMA UpRunner == ASSUME RowsKnown, RunnerInv, MarkUplinks PROVE RunnerInv'
<1> PICK n, T : n = run.net /\ T = run.tree
  OBVIOUS
<1>1. run.step = "up" /\ UNCHANGED <<known, linkRows, role, overridden, fresh>> /\ run' = [run EXCEPT !.step = "down"]
  BY DEF MarkUplinks
<1>2. /\ run'.step = "down" /\ run'.net = run.net /\ run'.ids = run.ids /\ run'.tree = run.tree
      /\ run' = [step |-> run'.step, left |-> run'.left, net |-> run'.net, ids |-> run'.ids, tree |-> run'.tree]
  BY <1>1, NextStepIs DEF RunnerInv
<1>3. \A l \in linkRows : relation'[l] = IF <<l.src, l.dst>> \in T THEN "uplink" ELSE relation[l]
  <2>1. PICK S : S = {l \in linkRows : <<l.src, l.dst>> \in run.tree}
    OBVIOUS
  <2>2. Relate(S, "uplink")
    BY <2>1 DEF MarkUplinks
  <2>3. \A l \in linkRows : relation'[l] = IF l \in S THEN "uplink" ELSE relation[l]
    BY <2>2, RelateIs
  <2>4. QED
    BY <2>1, <2>3
<1>4. \A x, y : <<x, y>> \in T => NetOf[x] = n
  BY <1>1 DEF RunnerInv, RunOwn, DevicesOf
<1>5. ASSUME NEW m, m # n, NEW l \in NetRows(m) PROVE RowStays(l)
  <2>1. l \in linkRows /\ NetOf[l.src] # n
    BY <1>5 DEF NetRows
  <2>2. <<l.src, l.dst>> \notin T
    BY <1>4, <2>1
  <2>3. QED
    BY <1>3, <2>1, <2>2 DEF RowStays
<1>6. RunShape' /\ RunOwn'
  BY <1>1, <1>2 DEF RunShape, RunOwn, RunnerInv
<1>7. InNet(n)' = InNet(n) /\ NetRows(n)' = NetRows(n) /\ Graph(n)' = Graph(n)
  BY <1>1, SameGraph
<1>8. ASSUME n \in fresh PROVE Progress(n)'
  <2>1. Progress(n)
    BY <1>1, <1>8 DEF RunnerInv, FreshHolds, AtNet
  <2>2. T = TreeOf(Graph(n), InNet(n)) /\ \A l \in NetRows(n) : relation[l] = "peer"
    BY <1>1, <2>1 DEF Progress
  <2>3. \A l \in NetRows(n) : relation'[l] = IF <<l.src, l.dst>> \in T THEN "uplink" ELSE "peer"
    BY <1>3, <2>2 DEF NetRows
  <2>4. QED
    BY <1>2, <1>7, <2>2, <2>3 DEF Progress
<1>9. QED
  BY <1>1, <1>2, <1>5, <1>6, <1>8, StatementRunner

LEMMA DownRunner == ASSUME RowsKnown, RunnerInv, MarkDownlinks PROVE RunnerInv'
<1> PICK n, T : n = run.net /\ T = run.tree
  OBVIOUS
<1>1. /\ run.step = "down" /\ UNCHANGED <<known, linkRows, role, overridden, fresh>>
      /\ run' = [step |-> "classify", left |-> run.left, net |-> run.net]
  BY DEF MarkDownlinks
<1>2. run'.step = "classify" /\ run'.net = n /\ run' = [step |-> "classify", left |-> run'.left, net |-> run'.net]
  BY <1>1
<1>3. \A l \in linkRows : relation'[l] = IF <<l.dst, l.src>> \in T THEN "downlink" ELSE relation[l]
  <2>1. PICK S : S = {l \in linkRows : <<l.dst, l.src>> \in run.tree}
    OBVIOUS
  <2>2. Relate(S, "downlink")
    BY <2>1 DEF MarkDownlinks
  <2>3. \A l \in linkRows : relation'[l] = IF l \in S THEN "downlink" ELSE relation[l]
    BY <2>2, RelateIs
  <2>4. QED
    BY <2>1, <2>3
<1>4. \A x, y : <<x, y>> \in T => NetOf[x] = n
  BY <1>1 DEF RunnerInv, RunOwn, DevicesOf
<1>5. ASSUME NEW m, m # n, NEW l \in NetRows(m) PROVE RowStays(l)
  <2>1. l \in linkRows /\ NetOf[l.src] # n
    BY <1>5 DEF NetRows
  <2>2. CASE <<l.dst, l.src>> \in T
    BY <1>3, <1>4, <2>1, <2>2 DEF RowStays, ForeignDown
  <2>3. CASE <<l.dst, l.src>> \notin T
    BY <1>3, <2>1, <2>3 DEF RowStays
  <2>4. QED
    BY <2>2, <2>3
<1>6. RunShape' /\ RunOwn'
  BY <1>1, <1>2 DEF RunShape, RunOwn, RunnerInv
<1>7. InNet(n)' = InNet(n) /\ NetRows(n)' = NetRows(n) /\ Graph(n)' = Graph(n)
  BY <1>1, SameGraph
<1>8. ASSUME n \in fresh PROVE Progress(n)'
  <2>1. Progress(n)
    BY <1>1, <1>8 DEF RunnerInv, FreshHolds, AtNet
  <2>2. /\ T = TreeOf(Graph(n), InNet(n))
        /\ \A l \in NetRows(n) : relation[l] = IF <<l.src, l.dst>> \in T THEN "uplink" ELSE "peer"
    BY <1>1, <2>1 DEF Progress
  <2>3. \A l \in NetRows(n) : relation'[l] = Resolved(l, T)
    BY <1>3, <2>2 DEF NetRows, Resolved
  <2>4. Settled(n)'
    BY <1>7, <2>2, <2>3 DEF Settled
  <2>5. QED
    BY <1>2, <2>4 DEF Progress
<1>9. QED
  BY <1>1, <1>2, <1>5, <1>6, <1>8, StatementRunner

LEMMA LoadRolesRunner == ASSUME RowsKnown, RunnerInv, LoadRoles PROVE RunnerInv'
<1> PICK n, R : n = run.net /\ R = RolesOf(Graph(run.net), InNet(run.net))
  OBVIOUS
<1>1. run.step = "classify" /\ UNCHANGED <<known, linkRows, relation, role, overridden, fresh>>
  BY DEF LoadRoles
<1>2. run' = [step |-> "roles", left |-> run.left, net |-> n, roles |-> R]
  BY DEF LoadRoles, RolesOf
<1>3. /\ run'.step = "roles" /\ run'.net = n /\ run'.roles = R
      /\ run' = [step |-> "roles", left |-> run'.left, net |-> run'.net, roles |-> run'.roles]
  BY <1>2
<1>4. RunShape'
  BY <1>3 DEF RunShape
<1>5. RunOwn'
  <2>1. DOMAIN R = InNet(n)
    BY DEF RolesOf
  <2>2. QED
    BY <1>3, <2>1, OwnOnly DEF RunOwn
<1>6. \A m : (AtNet(m) <=> m = n) /\ (AtNet(m)' <=> m = n)
  BY <1>1, <1>3 DEF AtNet
<1>7. InNet(n)' = InNet(n) /\ NetRows(n)' = NetRows(n) /\ Graph(n)' = Graph(n)
  BY <1>1, SameGraph
<1>8. ASSUME n \in fresh PROVE Progress(n)'
  <2>1. Settled(n)
    BY <1>1, <1>6, <1>8 DEF RunnerInv, FreshHolds, Progress
  <2>2. Settled(n)'
    BY <1>1, <1>7, <2>1, SameNet DEF RowStays
  <2>3. QED
    BY <1>3, <1>7, <2>2 DEF Progress
<1>9. FreshHolds'
  <2>1. ASSUME NEW m \in fresh', m # n PROVE Settled(m)' /\ RolesSettled(m)'
    BY <1>1, <1>6, <2>1, OtherHolds DEF RowStays, RunnerInv, FreshHolds
  <2>2. QED
    BY <1>1, <1>6, <1>8, <2>1 DEF FreshHolds
<1>10. AdminsKept'
  BY <1>1 DEF RunnerInv, AdminsKept
<1>11. QED
  BY <1>4, <1>5, <1>9, <1>10 DEF RunnerInv

LEMMA NextNetShape ==
  ASSUME NEW L, run' = NextNet(L)
  PROVE  RunShape' /\ RunOwn' /\ run'.step \in {"idle", "net"} /\ \A n : ~AtNet(n)'
<1>1. run' = Stopped \/ run' = [step |-> "net", left |-> L]
  BY DEF NextNet
<1>2. run'.step \in {"idle", "net"} /\ (run' = Stopped \/ run' = [step |-> "net", left |-> run'.left])
  BY <1>1 DEF Stopped
<1>3. QED
  BY <1>2 DEF RunShape, RunOwn, AtNet

LEMMA PersistRunner == ASSUME RowsKnown, RunnerInv, PersistRoles PROVE RunnerInv'
<1> PICK n, R : n = run.net /\ R = run.roles
  OBVIOUS
<1>1. run.step = "roles" /\ UNCHANGED <<known, linkRows, relation, overridden, fresh>> /\ run' = NextNet(run.left)
  BY DEF PersistRoles
<1>2. /\ role' = [d \in Devices |-> role'[d]]
      /\ \A d \in Devices : role'[d] = IF d \in DOMAIN R /\ d \notin overridden THEN R[d] ELSE role[d]
  BY DEF PersistRoles, Assignable
<1>3. RunShape' /\ RunOwn' /\ \A m : ~AtNet(m)'
  BY <1>1, NextNetShape
<1>4. \A m : AtNet(m) <=> m = n
  BY <1>1 DEF AtNet
<1>5. DOMAIN R \subseteq DevicesOf(n)
  BY <1>1 DEF RunnerInv, RunOwn
<1>6. ASSUME NEW m \in fresh, m # n PROVE Settled(m)' /\ RolesSettled(m)'
  <2>1. Settled(m) /\ RolesSettled(m) /\ ~AtNet(m)
    BY <1>4, <1>6 DEF RunnerInv, FreshHolds
  <2>2. \A d \in InNet(m) : role'[d] = role[d]
    BY <1>2, <1>5, <1>6 DEF InNet, DevicesOf, RowsKnown
  <2>3. QED
    BY <1>1, <2>1, <2>2, OtherHolds DEF RowStays
<1>7. ASSUME n \in fresh PROVE Settled(n)' /\ RolesSettled(n)'
  <2>1. Settled(n) /\ R = RolesOf(Graph(n), InNet(n))
    BY <1>1, <1>4, <1>7 DEF RunnerInv, FreshHolds, Progress
  <2>2. InNet(n)' = InNet(n) /\ NetRows(n)' = NetRows(n) /\ Graph(n)' = Graph(n)
    BY <1>1, SameGraph
  <2>3. Settled(n)'
    BY <1>1, <2>1, <2>2, SameNet DEF RowStays
  <2>4. DOMAIN R = InNet(n) /\ InNet(n) \subseteq Devices
    BY <2>1 DEF RolesOf, InNet, RowsKnown
  <2>5. \A d \in InNet(n) \ overridden : role'[d] = R[d]
    BY <1>2, <2>4
  <2>6. RolesSettled(n)'
    BY <1>1, <2>1, <2>2, <2>5 DEF RolesSettled
  <2>7. QED
    BY <2>3, <2>6
<1>8. FreshHolds'
  BY <1>1, <1>3, <1>6, <1>7 DEF FreshHolds
<1>9. AdminsKept'
  <2>1. ASSUME NEW d \in overridden PROVE role'[d] = "admin"
    <3>1. role[d] = "admin" /\ d \in Devices
      BY DEF RunnerInv, AdminsKept
    <3>2. QED
      BY <1>2, <3>1
  <2>2. QED
    BY <1>1, <1>2, <2>1 DEF RunnerInv, AdminsKept
<1>10. QED
  BY <1>3, <1>8, <1>9 DEF RunnerInv

LEMMA FailsRunner == ASSUME RowsKnown, RunnerInv, RunFails \/ StartFails PROVE RunnerInv'
<1>1. UNCHANGED <<known, linkRows, relation, link, role, overridden>> /\ fresh' \subseteq fresh
  BY DEF RunFails, StartFails
<1>2. RunShape' /\ RunOwn' /\ \A n : ~AtNet(n)'
  <2>1. CASE RunFails
    BY <2>1, NextNetShape DEF RunFails, AfterFailure
  <2>2. CASE StartFails
    <3>1. run' = Stopped
      BY <2>2 DEF StartFails
    <3>2. run'.step = "idle"
      BY <3>1 DEF Stopped
    <3>3. QED
      BY <3>1, <3>2 DEF RunShape, RunOwn, AtNet
  <2>3. QED
    BY <2>1, <2>2
<1>3. \A n \in fresh' : n \in fresh /\ ~AtNet(n)
  BY DEF RunFails, StartFails, AtNet
<1>4. ASSUME NEW n \in fresh' PROVE Settled(n)' /\ RolesSettled(n)'
  <2>1. Settled(n) /\ RolesSettled(n)
    BY <1>3, <1>4 DEF RunnerInv, FreshHolds
  <2>2. QED
    BY <1>1, <1>3, <2>1, OtherHolds DEF RowStays
<1>5. FreshHolds'
  BY <1>2, <1>4 DEF FreshHolds
<1>6. AdminsKept'
  BY <1>1 DEF RunnerInv, AdminsKept
<1>7. QED
  BY <1>2, <1>5, <1>6 DEF RunnerInv

LEMMA OverrideRunner == ASSUME RowsKnown, RunnerInv, NEW d \in Admins, Override(d) PROVE RunnerInv'
<1>1. /\ UNCHANGED <<known, linkRows, relation, link, run, fresh>>
      /\ overridden' = overridden \cup {d} /\ role' = [role EXCEPT ![d] = "admin"] /\ d \in known
  BY DEF Override
<1>2. d \in Devices
  BY <1>1 DEF RowsKnown
<1>3. AdminsKept
  BY DEF RunnerInv
<1>4. role' = [e \in Devices |-> role'[e]] /\ \A e \in Devices : role'[e] = IF e = d THEN "admin" ELSE role[e]
  <2>1. role = [e \in Devices |-> role[e]]
    BY <1>3 DEF AdminsKept
  <2>2. QED
    BY <1>1, <2>1
<1>5. AdminsKept'
  BY <1>1, <1>2, <1>3, <1>4 DEF AdminsKept
<1>6. ASSUME NEW n \in fresh PROVE (IF AtNet(n) THEN Progress(n) ELSE Settled(n) /\ RolesSettled(n))'
  <2>1. IF AtNet(n) THEN Progress(n) ELSE Settled(n) /\ RolesSettled(n)
    BY DEF RunnerInv, FreshHolds
  <2>2. InNet(n)' = InNet(n) /\ NetRows(n)' = NetRows(n) /\ Graph(n)' = Graph(n)
    BY <1>1, SameGraph
  <2>3. AtNet(n)' <=> AtNet(n)
    BY <1>1 DEF AtNet
  <2>4. CASE AtNet(n)
    <3>1. TreeOf(Graph(n), InNet(n))' = TreeOf(Graph(n), InNet(n)) /\ RolesOf(Graph(n), InNet(n))' = RolesOf(Graph(n), InNet(n))
      BY <2>2
    <3>2. Settled(n) => Settled(n)'
      BY <1>1, <2>2, SameNet DEF RowStays
    <3>3. Progress(n)'
      BY <1>1, <2>1, <2>2, <2>4, <3>1, <3>2 DEF Progress
    <3>4. QED
      BY <2>3, <2>4, <3>3
  <2>5. CASE ~AtNet(n)
    <3>1. Settled(n) /\ RolesSettled(n)
      BY <2>1, <2>5
    <3>2. \A e \in InNet(n) \ overridden' : e \notin overridden /\ role'[e] = role[e]
      BY <1>1, <1>4 DEF InNet, RowsKnown
    <3>3. Settled(n)' /\ RolesSettled(n)'
      BY <1>1, <2>5, <3>1, <3>2, OtherHolds DEF RowStays
    <3>4. QED
      BY <2>3, <2>5, <3>3
  <2>6. QED
    BY <2>4, <2>5
<1>7. FreshHolds'
  BY <1>1, <1>6 DEF FreshHolds
<1>8. QED
  BY <1>1, <1>5, <1>7 DEF RunnerInv, RunShape, RunOwn

LEMMA RunnerInvInit == TopologyInit => RunnerInv
<1> SUFFICES ASSUME TopologyInit PROVE RunnerInv
  OBVIOUS
<1>1. run = Stopped /\ role = [d \in Devices |-> "none"] /\ overridden = {} /\ fresh = {}
  BY DEF TopologyInit
<1>2. run.step = "idle"
  BY <1>1 DEF Stopped
<1>3. QED
  BY <1>1, <1>2 DEF RunnerInv, RunShape, RunOwn, FreshHolds, AdminsKept

LEMMA RunnerInvStep ==
  ASSUME RowsKnown, RelationTyped, RunnerInv, [TopologyNext]_topologyVars
  PROVE  RunnerInv'
<1>1. CASE LinksNext /\ Notice
  BY <1>1, LinksRunner
<1>2. CASE Runner
  BY <1>2, StartRunner, LoadDevicesRunner, LoadEdgesRunner, ResetRunner, UpRunner, DownRunner, LoadRolesRunner,
     PersistRunner DEF Runner
<1>3. CASE RunFails \/ StartFails
  BY <1>3, FailsRunner
<1>4. ASSUME NEW d \in Admins, Override(d) PROVE RunnerInv'
  BY <1>4, OverrideRunner
<1>5. CASE UNCHANGED topologyVars
  <2>1. UNCHANGED <<known, linkRows, relation, run, role, overridden, fresh>>
    BY <1>5 DEF topologyVars, tvars
  <2>2. FreshHolds'
    <3>1. ASSUME NEW n \in fresh PROVE (IF AtNet(n) THEN Progress(n) ELSE Settled(n) /\ RolesSettled(n))'
      <4>1. IF AtNet(n) THEN Progress(n) ELSE Settled(n) /\ RolesSettled(n)
        BY DEF RunnerInv, FreshHolds
      <4>2. InNet(n)' = InNet(n) /\ NetRows(n)' = NetRows(n)
        BY <2>1, SameGraph
      <4>3. QED
        BY <2>1, <4>1, <4>2, SameHolds
    <3>2. QED
      BY <2>1, <3>1 DEF FreshHolds
  <2>3. QED
    BY <2>1, <2>2 DEF RunnerInv, RunShape, RunOwn, AdminsKept
<1>6. QED
  BY <1>1, <1>2, <1>3, <1>4, <1>5 DEF TopologyNext

LEMMA RunnerInvImplies == ASSUME RowsKnown, RunnerInv, CrossMarks PROVE RunnerResult
<1>1. run.step \in {"reset", "up", "down"} => run.tree \subseteq run.ids \X Devices
  BY DEF RunnerInv, RunOwn
<1>2. \A d \in overridden : role[d] = "admin"
  BY DEF RunnerInv, AdminsKept
<1>3. ASSUME NEW n \in Nets, Current(n)
      PROVE  /\ Crossed(n) \/ IsShortestPathTree(n)
             /\ \A d \in InNet(n) \ overridden : role[d] = RoleOf(d, Neighbours(Graph(n), d), InNet(n))
  <2>1. n \in fresh /\ ~AtNet(n)
    BY <1>3 DEF Current, AtNet
  <2>2. Settled(n) /\ RolesSettled(n)
    BY <2>1 DEF RunnerInv, FreshHolds
  <2>3. \A d \in InNet(n) : RolesOf(Graph(n), InNet(n))[d] = RoleOf(d, Neighbours(Graph(n), d), InNet(n))
    BY DEF RolesOf
  <2>4. QED
    BY <2>2, <2>3, SettledMarks DEF RolesSettled
<1>4. QED
  BY <1>1, <1>2, <1>3 DEF RunnerResult

-----------------------------------------------------------------------------
(* What a run does to the rows of other networks.                          *)

CrossTree ==
  run.step \in {"reset", "up", "down"} =>
    \A d, p : <<d, p>> \in run.tree /\ NetOf[p] # run.net => Crossed(run.net)

CrossInv == CrossTree /\ CrossMarks

\* Links are not taken away, so a network that is crossed stays it.
LEMMA CrossedStays == ASSUME linkRows \subseteq linkRows' PROVE \A n : Crossed(n) => Crossed(n)'
<1>1. ASSUME NEW n PROVE Graph(n) \subseteq Graph(n)'
  BY DEF Graph, NetRows
<1>2. QED
  BY <1>1 DEF Crossed

LEMMA CrossQuiet ==
  ASSUME CrossInv, linkRows \subseteq linkRows',
         \A l \in linkRows' : relation'[l] = "downlink" => l \in linkRows /\ relation[l] = "downlink",
         \/ run'.step \notin {"reset", "up", "down"}
         \/ /\ run.step \in {"reset", "up", "down"}
            /\ run'.net = run.net /\ run'.tree = run.tree
  PROVE  CrossInv'
<1>1. \A n : Crossed(n) => Crossed(n)'
  BY CrossedStays
<1>2. CrossTree'
  BY <1>1 DEF CrossInv, CrossTree
<1>3. CrossMarks'
  BY <1>1 DEF CrossInv, CrossMarks, ForeignDown
<1>4. QED
  BY <1>2, <1>3 DEF CrossInv

LEMMA LinksCross == ASSUME RowsKnown, RelationTyped, CrossInv, LinksNext, Notice PROVE CrossInv'
<1>1. \A l \in linkRows : relation'[l] = relation[l]
  BY LinksKeep
<1>2. linkRows \subseteq linkRows' /\ \A l \in linkRows' : l \in linkRows \/ relation'[l] = "peer"
  <2>1. CASE UNCHANGED linkRows
    BY <2>1
  <2>2. ASSUME NEW m \in Links, UpsertLinks(m)
        PROVE  linkRows \subseteq linkRows' /\ \A l \in linkRows' : l \in linkRows \/ relation'[l] = "peer"
    <3>1. linkRows' = linkRows \cup {m} /\ m \in DOMAIN relation
      BY <2>2 DEF UpsertLinks, RelationTyped
    <3>2. relation' = [relation EXCEPT ![m] = IF m \in linkRows THEN relation[m] ELSE "peer"]
      BY <2>2 DEF UpsertLinks
    <3>3. QED
      BY <3>1, <3>2
  <2>3. UNCHANGED linkRows \/ \E m \in Links : UpsertLinks(m)
    BY DEF LinksNext, Working, Reporting, EmitTopologyLinks, SkipCycle, Register, WriteTopologyLink,
           WriteTopologyLinkFails, Flap, Correlate, PlainEvent, SetActive, SetActiveFails, WriteLinkEvent
  <2>4. QED
    BY <2>1, <2>2, <2>3
<1>3. \A l \in linkRows' : relation'[l] = "downlink" => l \in linkRows /\ relation[l] = "downlink"
  BY <1>1, <1>2
<1>4. UNCHANGED run
  BY DEF Notice
<1>5. CASE run.step \in {"reset", "up", "down"}
  BY <1>2, <1>3, <1>4, <1>5, CrossQuiet
<1>6. CASE run.step \notin {"reset", "up", "down"}
  BY <1>2, <1>3, <1>4, <1>6, CrossQuiet
<1>7. QED
  BY <1>5, <1>6

LEMMA LoadEdgesCross == ASSUME RowsKnown, RunnerInv, CrossInv, LoadEdges PROVE CrossInv'
<1> PICK n, ids, g : n = run.net /\ ids = run.ids /\ g = Graph(run.net)
  OBVIOUS
<1>1. /\ run.step = "edges" /\ UNCHANGED <<known, linkRows, relation>>
      /\ run'.step = "reset" /\ run'.net = n /\ run'.tree = TreeEdges(Bfs(g, ids), ids)
  BY DEF LoadEdges
<1>2. ids \subseteq DevicesOf(n) /\ ids \in SUBSET Devices
  BY <1>1 DEF RunnerInv, RunOwn, DevicesOf
<1> PICK par : par = Bfs(g, ids)
  OBVIOUS
<1>3. GraphOk(g)
  BY GraphIs
<1>4. PICK lev, top : Built(g, ids, par, lev, top)
  BY <1>2, <1>3, BfsFound
<1>5. ASSUME NEW d, NEW p, <<d, p>> \in TreeEdges(par, ids), NetOf[p] # n PROVE Crossed(n)
  <2>1. d \in ids /\ par[d] # 0 /\ p = par[d]
    BY <1>2, <1>4, <1>5, TreeIs
  <2>2. p \notin ids
    BY <1>2, <1>5 DEF DevicesOf
  <2>3. PICK q : q # d /\ <<d, p>> \in g /\ <<q, p>> \in g
    BY <1>2, <1>3, <1>4, <2>1, <2>2, TreeCrosses
  <2>4. <<d, p>>[1] = d /\ <<d, p>>[2] = p /\ <<q, p>>[1] = q /\ <<q, p>>[2] = p
    OBVIOUS
  <2>5. QED
    BY <1>5, <2>3, <2>4 DEF Crossed
<1>6. \A m : Crossed(m) => Crossed(m)'
  BY <1>1, CrossedStays
<1>7. CrossTree'
  BY <1>1, <1>5, <1>6 DEF CrossTree
<1>8. CrossMarks'
  BY <1>1, <1>6 DEF CrossInv, CrossMarks, ForeignDown
<1>9. QED
  BY <1>7, <1>8 DEF CrossInv

LEMMA DownCross == ASSUME RowsKnown, RunnerInv, CrossInv, MarkDownlinks PROVE CrossInv'
<1> PICK n, T : n = run.net /\ T = run.tree
  OBVIOUS
<1>1. run.step = "down" /\ UNCHANGED <<known, linkRows>> /\ run'.step = "classify"
  BY DEF MarkDownlinks
<1>2. \A l \in linkRows : relation'[l] = IF <<l.dst, l.src>> \in T THEN "downlink" ELSE relation[l]
  <2>1. PICK S : S = {l \in linkRows : <<l.dst, l.src>> \in run.tree}
    OBVIOUS
  <2>2. Relate(S, "downlink")
    BY <2>1 DEF MarkDownlinks
  <2>3. \A l \in linkRows : relation'[l] = IF l \in S THEN "downlink" ELSE relation[l]
    BY <2>2, RelateIs
  <2>4. QED
    BY <2>1, <2>3
<1>3. \A x, y : <<x, y>> \in T => NetOf[x] = n
  BY <1>1 DEF RunnerInv, RunOwn, DevicesOf
<1>4. \A x, y : <<x, y>> \in T /\ NetOf[y] # n => Crossed(n)
  BY <1>1 DEF CrossInv, CrossTree
<1>5. \A m : Crossed(m) => Crossed(m)'
  BY <1>1, CrossedStays
<1>6. CrossMarks'
  <2> SUFFICES ASSUME NEW l \in linkRows, NetOf[l.dst] # NetOf[l.src], relation'[l] = "downlink"
               PROVE  Crossed(NetOf[l.dst])
    BY <1>1, <1>5 DEF CrossMarks, ForeignDown
  <2>1. CASE <<l.dst, l.src>> \in T
    BY <1>3, <1>4, <2>1
  <2>2. CASE <<l.dst, l.src>> \notin T
    BY <1>2, <2>2 DEF CrossInv, CrossMarks, ForeignDown
  <2>3. QED
    BY <2>1, <2>2
<1>7. CrossTree'
  BY <1>1 DEF CrossTree
<1>8. QED
  BY <1>6, <1>7 DEF CrossInv

LEMMA CrossInvStep ==
  ASSUME RowsKnown, RelationTyped, RunnerInv, CrossInv, [TopologyNext]_topologyVars
  PROVE  CrossInv'
<1>1. CASE LinksNext /\ Notice
  BY <1>1, LinksCross
<1>2. CASE LoadEdges
  BY <1>2, LoadEdgesCross
<1>3. CASE MarkDownlinks
  BY <1>3, DownCross
<1>4. CASE ResetRelation \/ MarkUplinks
  <2>1. /\ run.step \in {"reset", "up"} /\ UNCHANGED linkRows
        /\ run' = [run EXCEPT !.step = "up"] \/ run' = [run EXCEPT !.step = "down"]
    BY <1>4 DEF ResetRelation, MarkUplinks
  <2>2. run'.net = run.net /\ run'.tree = run.tree
    BY <2>1, NextStepIs DEF RunnerInv
  <2>3. \A l \in linkRows : relation'[l] \in {"peer", "uplink"} \/ relation'[l] = relation[l]
    BY <1>4, RelateIs DEF ResetRelation, MarkUplinks
  <2>4. QED
    BY <2>1, <2>2, <2>3, CrossQuiet
<1>5. CASE StartRun \/ LoadDevices \/ LoadRoles \/ PersistRoles \/ RunFails \/ StartFails
  <2>1. UNCHANGED <<linkRows, relation>>
    BY <1>5 DEF StartRun, LoadDevices, LoadRoles, PersistRoles, RunFails, StartFails
  <2>2. run'.step \notin {"reset", "up", "down"}
    BY <1>5 DEF StartRun, LoadDevices, LoadRoles, PersistRoles, RunFails, StartFails, AfterFailure, NextNet, Stopped
  <2>3. QED
    BY <2>1, <2>2, CrossQuiet
<1>6. CASE UNCHANGED <<linkRows, relation, run>>
  BY <1>6, CrossQuiet
<1>7. ASSUME NEW d \in Admins, Override(d) PROVE UNCHANGED <<linkRows, relation, run>>
  BY <1>7 DEF Override
<1>8. UNCHANGED topologyVars => UNCHANGED <<linkRows, relation, run>>
  BY DEF topologyVars, tvars
<1>9. QED
  BY <1>1, <1>2, <1>3, <1>4, <1>5, <1>6, <1>7, <1>8 DEF TopologyNext, Runner

LEMMA CrossInvInit == TopologyInit /\ RowsKnown => CrossInv
<1> SUFFICES ASSUME TopologyInit, RowsKnown PROVE CrossInv
  OBVIOUS
<1>1. run.step = "idle" /\ \A l \in linkRows : relation[l] = "peer"
  BY DEF TopologyInit, LinksInit, Stopped, RowsKnown
<1>2. QED
  BY <1>1 DEF CrossInv, CrossTree, CrossMarks, ForeignDown

\* Whenever a run has ended and nothing was added since it read the tables, the relations
\* of the network are a forest of shortest paths, from the configured root or from a device
\* with the most neighbours, unless its tree may lead through a device of another network,
\* and the roles are those the neighbours speak for, whatever reports, traps, failed
\* statements, operators and the runs of other networks do meanwhile; for any devices,
\* networks, links within and between them, root and roles (RecomputeHierarchy,
\* ClassifyRoles).
THEOREM TopologyRunnerResult == TopologySpec => []RunnerResult
<1>1. TopologyIInv => RowsKnown /\ RelationTyped
  BY DEF TopologyIInv, LinksInv, TableTyped, RowsKnown, RelationTyped, Pair
<1>2. TopologyInit => TopologyIInv /\ RunnerInv /\ CrossInv
  BY <1>1, TopologyIInvInit, RunnerInvInit, CrossInvInit
<1>3. TopologyIInv /\ RunnerInv /\ CrossInv /\ [TopologyNext]_topologyVars => TopologyIInv' /\ RunnerInv' /\ CrossInv'
  BY <1>1, TopologyIInvStep, RunnerInvStep, CrossInvStep
<1>4. TopologyIInv /\ RunnerInv /\ CrossInv => RunnerResult
  BY <1>1, RunnerInvImplies DEF CrossInv
<1>5. QED
  BY <1>2, <1>3, <1>4, PTL DEF TopologySpec
=============================================================================
