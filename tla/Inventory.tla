----------------------------- MODULE Inventory -----------------------------
(***************************************************************************)
(* How the hub's workers turn the name a packet carries into a device row  *)
(* (fwDCS/internal/ingest/worker.go lookupOrRegister and its callers,      *)
(* cache.go, store/timescale.go UpsertDevice and the lookups): a shared    *)
(* cache from names to row ids with a time to live, and statements on the  *)
(* devices table that are not one transaction.                             *)
(*                                                                         *)
(* A box is a physical device, known by its management address, or a host  *)
(* with an agent, whose packets carry no address.  Its host name may       *)
(* change, and a name given up may go to another box.  A worker may sit on *)
(* a packet, so packets reach the table late and out of order.             *)
(* One tenant scope.  A box has one port; the interface row of a device    *)
(* row goes with it (ON DELETE CASCADE), so the row's id stands for both.  *)
(* The audit event of a rename is left out: nothing here reads it.         *)
(***************************************************************************)
EXTENDS Integers, Sequences, FiniteSets, SequencesExt

CONSTANTS
  Boxes,
  Addressless, \* boxes whose packets have no mgmt_ip: hosts with an agent (IDR)
  FirstName,   \* host name of each box at the start
  Names,
  Workers,
  Plans,       \* runs of the world: boxes that send, the kinds of packet they send,
               \* the new names given out in order, and how often an operator empties
               \* the table
  Ids,         \* row ids, as many as can be referred to at a time
  CacheCap     \* capacity of devCache

None   == 0
Metric == {"uptime", "interface"}   \* kinds that may register a device
Kinds  == Metric \cup {"address", "threshold"}

ASSUME InventoryAssumption ==
  /\ Addressless \subseteq Boxes
  /\ FirstName \in [Boxes -> Names] /\ \A a, b \in Boxes : FirstName[a] = FirstName[b] => a = b
  /\ \A p \in Plans : /\ p.boxes \subseteq Boxes /\ p.kinds \subseteq Kinds
                      /\ p.renames \in Seq(UNION {[bs -> Names] : bs \in SUBSET p.boxes})
                      /\ p.wipes \in Nat
  /\ Ids \subseteq Nat \ {None} /\ CacheCap \in Nat \ {0}
  /\ IsFiniteSet(Ids) /\ IsFiniteSet(Names) /\ IsFiniteSet(Workers)
  /\ \A p \in Plans :
       Cardinality(Ids) > Cardinality(Names) * (p.wipes + 1) + CacheCap + Cardinality(Workers)

VARIABLES
  plan,     \* the plan of this run
  name,     \* host name of each box
  rows,     \* devices: the box and host name of each row that exists; the box is the
            \* row's mgmt_ip, or who inserted the row when it has none
  ports,    \* interfaces: rows that have one
  dev,      \* devCache, most recently used first; "late" when its time is over
  ifc,      \* ifCache: rows whose interface is cached; a late entry is as good as none
  w,        \* workers: pc, packet, the id found, registering
  owners,   \* history: boxes that have had each name
  early,    \* history: boxes renamed before a row of theirs was there
  strays,   \* history: two boxes, one's packet stored under the other's row
  renames, wipes

vars == <<plan, name, rows, ports, dev, ifc, w, owners, early, strays, renames, wipes>>

tables == <<rows, ports>>
caches == <<dev, ifc>>
world  == <<plan, name, owners, early, renames, wipes>>

Rows == DOMAIN rows

RowsOf(b)    == {i \in Rows : rows[i].box = b}
RowsNamed(n) == {i \in Rows : rows[i].host = n}

\* WHERE mgmt_ip = the packet's: a packet without one is not looked for.
RowsAt(b) == IF b \in Addressless THEN {} ELSE RowsOf(b)

-----------------------------------------------------------------------------
(* LRU                                                                     *)

Entries(key) == {i \in DOMAIN dev : dev[i].key = key}

HitsAnyMut(key) == {i \in DOMAIN dev : ~dev[i].late}

\* Get: a late entry is a miss.
Hits(key) == {i \in Entries(key) : ~dev[i].late}

Cached(key) == LET i == CHOOSE i \in Hits(key) : TRUE IN dev[i].id

\* A key has one entry.
Without(key) == IF Entries(key) = {} THEN dev ELSE RemoveAt(dev, CHOOSE i \in Entries(key) : TRUE)

\* A hit moves to the front, a late entry is dropped.
AfterGet(key) ==
  IF Hits(key) = {} THEN Without(key)
  ELSE <<dev[CHOOSE i \in Hits(key) : TRUE]>> \o Without(key)

\* Put: replaces the entry of the key, or evicts the least recently used one.
Put(key, id) ==
  LET s == <<[key |-> key, id |-> id, late |-> FALSE]>> \o Without(key)
  IN  IF Len(s) > CacheCap THEN Front(s) ELSE s

-----------------------------------------------------------------------------
(* lookupOrRegister                                                        *)

Idle == [pc |-> "idle", box |-> None, name |-> None, kind |-> None, id |-> None, reg |-> FALSE]

At(k, pc) == w[k].pc = pc

To(k, pc)     == w' = [w EXCEPT ![k].pc = pc]
Found(k, pc, id) == w' = [w EXCEPT ![k].pc = pc, ![k].id = id]
Finish(k)     == w' = [w EXCEPT ![k] = Idle]

Take(k, b, kind) ==
  /\ At(k, "idle") /\ b \in plan.boxes /\ kind \in plan.kinds
  /\ w' = [w EXCEPT ![k] = [pc |-> "get", box |-> b, name |-> name[b], kind |-> kind,
                            id |-> None, reg |-> FALSE]]
  /\ UNCHANGED <<tables, caches, world, strays>>

\* An uptime packet refreshes the row, the others are done with the lookup.
AfterLookup(k) == IF w[k].kind = "uptime" THEN "update" ELSE "write"

\* devCache.Get, and DeviceIDBySource after a miss.
Get(k) ==
  /\ At(k, "get")
  /\ dev' = AfterGet(w[k].name)
  /\ LET n == w[k].name
     IN  IF Hits(n) # {} THEN Found(k, AfterLookup(k), Cached(n))
         ELSE IF RowsNamed(n) # {}
         THEN \E i \in RowsNamed(n) : Found(k, "put", i)
         ELSE IF w[k].kind \in Metric
         THEN w' = [w EXCEPT ![k].pc = "update", ![k].reg = TRUE]
         ELSE IF w[k].kind = "threshold" THEN To(k, "by_ip")
         ELSE Finish(k)
  /\ UNCHANGED <<tables, ifc, world, strays>>

PutId(k) ==
  /\ At(k, "put")
  /\ dev' = Put(w[k].name, w[k].id)
  /\ To(k, IF w[k].reg THEN "write" ELSE AfterLookup(k))
  /\ UNCHANGED <<tables, ifc, world, strays>>

\* UpsertDevice returned: a registering worker reads the id back, or drops the
\* packet on an error; a refreshing one ignores the error.
Upserted(k, ok) ==
  IF ~w[k].reg THEN To(k, "write")
  ELSE IF ok THEN To(k, "again")
  ELSE Finish(k)

UpdateNoHostMut(k) ==
  /\ At(k, "update")
  /\ IF RowsAt(w[k].box) = {} THEN To(k, "insert") ELSE Upserted(k, TRUE)
  /\ UNCHANGED <<rows, ports, caches, world, strays>>

UpdateMut(k) ==
  /\ At(k, "update")
  /\ To(k, "insert") /\ UNCHANGED rows
  /\ UNCHANGED <<ports, caches, world, strays>>

\* The UPDATE of the rows with the packet's management address, left out when it has
\* none; the unique index refuses a host name another row has, and two rows with one
\* name.
Update(k) ==
  /\ At(k, "update")
  /\ LET mine  == RowsAt(w[k].box)
         clash == Cardinality(mine \cup RowsNamed(w[k].name)) > 1
     IN  IF mine = {} THEN To(k, "insert") /\ UNCHANGED rows
         ELSE /\ Upserted(k, ~clash)
              /\ rows' = IF clash THEN rows
                         ELSE [i \in Rows |-> IF i \in mine THEN [rows[i] EXCEPT !.host = w[k].name]
                                              ELSE rows[i]]
  /\ UNCHANGED <<ports, caches, world, strays>>

\* Ids no table, cache or worker refers to.
Unused == Ids \ (Rows \cup {dev[i].id : i \in DOMAIN dev} \cup ifc \cup {w[k].id : k \in Workers})

\* A row the INSERT finds keeps its address when the packet has none.
Keeps(i, b) == i \in Rows /\ rows[i].box \notin Addressless /\ b \in Addressless

\* INSERT ... ON CONFLICT: a row with the name is taken over, address and all.
Insert(k) ==
  /\ At(k, "insert")
  /\ LET new == [box |-> w[k].box, host |-> w[k].name]
         at  == IF RowsNamed(w[k].name) # {} THEN RowsNamed(w[k].name) ELSE {CHOOSE i \in Unused : TRUE}
     IN  rows' = [i \in Rows \cup at |-> IF i \in at /\ ~Keeps(i, w[k].box) THEN new ELSE rows[i]]
  /\ Upserted(k, TRUE)
  /\ UNCHANGED <<ports, caches, world, strays>>

\* DeviceIDBySource after the registration: another worker may have renamed the row.
Again(k) ==
  /\ At(k, "again")
  /\ IF RowsNamed(w[k].name) = {} THEN Finish(k)
     ELSE \E i \in RowsNamed(w[k].name) : Found(k, "put", i)
  /\ UNCHANGED <<tables, caches, world, strays>>

\* resolveDeviceID and the trap path: the row with the packet's address.
ByIp(k) ==
  /\ At(k, "by_ip")
  /\ IF RowsAt(w[k].box) = {} THEN Finish(k)
     ELSE \E i \in RowsAt(w[k].box) : Found(k, "write", i)
  /\ UNCHANGED <<tables, caches, world, strays>>

-----------------------------------------------------------------------------
(* What is written under the id                                            *)

Filed(k) == strays' = IF w[k].id \in Rows /\ rows[w[k].id].box # w[k].box
                       THEN strays \cup {{w[k].box, rows[w[k].id].box}} ELSE strays

\* A metric row: metrics.device_id is not a foreign key.
WriteMetric(k) ==
  /\ At(k, "write") /\ w[k].kind = "uptime"
  /\ Filed(k) /\ Finish(k)
  /\ UNCHANGED <<tables, caches, world>>

\* A threshold, a power state: refused for an id that is gone.
WriteThreshold(k) ==
  /\ At(k, "write") /\ w[k].kind = "threshold"
  /\ Filed(k) /\ Finish(k)
  /\ UNCHANGED <<tables, caches, world>>

\* lookupOrUpsertInterface: a cached interface is trusted, and one that is gone
\* makes the whole batch fail; an interface of a row that is gone is not made.
WritePort(k) ==
  /\ At(k, "write") /\ w[k].kind = "interface"
  /\ LET id == w[k].id
     IN  IF id \in ifc
         THEN /\ (IF id \in ports THEN Filed(k) ELSE UNCHANGED strays)
              /\ UNCHANGED <<ports, ifc>>
         ELSE /\ Filed(k)
              /\ ports' = ports \cup ({id} \cap Rows)
              /\ ifc' = ifc \cup ({id} \cap Rows)
  /\ Finish(k)
  /\ UNCHANGED <<rows, dev, world>>

\* writeInterfaceAddress makes the interface row when there is none.
WriteAddress(k) ==
  /\ At(k, "write") /\ w[k].kind = "address"
  /\ ports' = ports \cup ({w[k].id} \cap Rows)
  /\ Filed(k) /\ Finish(k)
  /\ UNCHANGED <<rows, caches, world>>

-----------------------------------------------------------------------------
(* Time, the operator and the boxes                                        *)

Expire(key) ==
  /\ \E i \in Hits(key) : dev' = [dev EXCEPT ![i].late = TRUE]
  /\ UNCHANGED <<tables, ifc, w, world, strays>>

ExpirePort(id) ==
  /\ id \in ifc /\ ifc' = ifc \ {id}
  /\ UNCHANGED <<tables, dev, w, world, strays>>

FlushCaches ==
  /\ dev # <<>> \/ ifc # {}
  /\ dev' = <<>> /\ ifc' = {}
  /\ UNCHANGED <<tables, w, world, strays>>

\* Boxes get the names of f between two polls; two boxes may exchange theirs.
Rename(f) ==
  /\ renames < Len(plan.renames) /\ plan.renames[renames + 1] = f
  /\ name' = [b \in Boxes |-> IF b \in DOMAIN f THEN f[b] ELSE name[b]]
  /\ owners' = [n \in Names |-> owners[n] \cup {b \in DOMAIN f : f[b] = n}]
  /\ early' = early \cup {b \in DOMAIN f : RowsOf(b) = {} \/ \E k \in Workers : At(k, "insert") /\ w[k].box = b}
  /\ renames' = renames + 1
  /\ UNCHANGED <<plan, tables, caches, w, strays, wipes>>

\* TRUNCATE, or a restore from a backup.
Wipe ==
  /\ wipes < plan.wipes /\ Rows # {}
  /\ rows' = <<>> /\ ports' = {}
  /\ early' = early \cup {b \in Boxes : Cardinality({n \in Names : b \in owners[n]}) > 1}
  /\ wipes' = wipes + 1
  /\ UNCHANGED <<plan, caches, w, name, owners, strays, renames>>

-----------------------------------------------------------------------------
Init ==
  /\ plan \in Plans /\ name = FirstName /\ rows = <<>> /\ ports = {} /\ dev = <<>> /\ ifc = {}
  /\ w = [k \in Workers |-> Idle]
  /\ owners = [n \in Names |-> {b \in Boxes : FirstName[b] = n}]
  /\ early = {} /\ strays = {} /\ renames = 0 /\ wipes = 0

Work(k) ==
  Get(k) \/ PutId(k) \/ Update(k) \/ Insert(k) \/ Again(k) \/ ByIp(k)
  \/ WriteMetric(k) \/ WriteThreshold(k) \/ WritePort(k) \/ WriteAddress(k)

Next ==
  \/ \E k \in Workers : Work(k) \/ \E b \in Boxes, kind \in Kinds : Take(k, b, kind)
  \/ \E n \in Names : Expire(n)
  \/ \E i \in Ids : ExpirePort(i)
  \/ \E f \in ToSet(plan.renames) : Rename(f)
  \/ FlushCaches \/ Wipe

Spec == Init /\ [][Next]_vars

(***************************************************************************)
(* Workers finish their packets, every box goes on sending its uptime, and *)
(* entries grow old.                                                       *)
(***************************************************************************)
FairSpec ==
  /\ Spec
  /\ \A k \in Workers : WF_vars(Work(k))
  /\ \A b \in Boxes : SF_vars(\E k \in Workers : Take(k, b, "uptime"))
  /\ \A n \in Names : WF_vars(Expire(n))

-----------------------------------------------------------------------------
(* Properties                                                              *)

\* Type correctness; the unique index keeps the names of the rows apart.
TypeOK ==
  /\ plan \in Plans /\ name \in [Boxes -> Names]
  /\ Rows \subseteq Ids /\ \A i \in Rows : rows[i] \in [box : Boxes, host : Names]
  /\ \A n \in Names : Cardinality(RowsNamed(n)) <= 1
  /\ ports \subseteq Rows
  /\ Len(dev) <= CacheCap
  /\ \A i \in DOMAIN dev : dev[i] \in [key : Names, id : Ids, late : BOOLEAN]
  /\ \A n \in Names : Cardinality(Entries(n)) <= 1
  /\ ifc \subseteq Ids
  /\ \A k \in Workers : w[k] = Idle \/
       w[k] \in [pc : {"get", "put", "update", "insert", "again", "by_ip", "write"}, box : Boxes,
                 name : Names, kind : Kinds, id : Ids \cup {None}, reg : BOOLEAN]
  /\ \A k \in Workers : w[k].pc \in {"put", "write"} /\ ~w[k].reg => w[k].id # None
  /\ owners \in [Names -> SUBSET Boxes] /\ early \subseteq Boxes /\ strays \subseteq SUBSET Boxes
  /\ renames \in 0..Len(plan.renames) /\ wipes \in 0..plan.wipes /\ Unused # {}

\* Boxes that have had the same name.
Shared(bs) == \E n \in Names : bs \subseteq owners[n]

\* Boxes between which names were handed on: no set of boxes that has every box one
\* of its own shared a name with has only one of the two.
Linked(a, b) ==
  \A S \in SUBSET Boxes :
    (\A c \in S, d \in Boxes : Shared({c, d}) => d \in S) => (a \in S <=> b \in S)

\* A host with an agent that was renamed: nothing but the name tells its rows apart.
Unknowable(b) == b \in Addressless /\ \E m, n \in Names : m # n /\ b \in owners[m] /\ b \in owners[n]

\* Renaming a box keeps its row (timescale.go UpsertDevice): however the workers
\* interleave, a box has two rows only if it was renamed before its first row was
\* inserted, or its packets carry no address and it was renamed at all, or another box
\* that got its name took its row over.
OneRowPerBox ==
  \A b \in Boxes : Cardinality(RowsOf(b)) > 1 =>
    b \in early \/ Unknowable(b) \/ \E c \in Boxes \ {b} : Shared({b, c})

\* The tables and caches are well formed, and renaming keeps the row.
RowsSound == TypeOK /\ OneRowPerBox

\* Through stale cache entries, late packets, renames and an emptied table, what a box
\* sends is stored under the row of another box only when a name of the one came to
\* the other, at once or from hand to hand: while a worker holds the row's id, the row
\* may be renamed by its box and taken over by the next one that has the new name.
NoStrays ==
  \A s \in strays : \A a, b \in s : Linked(a, b)

\* Boxes no UPDATE can give their names: each has two rows, or has one and wants the
\* name of a row that is never renamed: one without an address, or another of theirs.
Stuck(S) ==
  \A c \in S :
    \/ Cardinality(RowsOf(c)) > 1
    \/ \E i \in RowsOf(c), j \in Rows \ RowsOf(c) :
         rows[j].host = name[c] /\ rows[j].box \in Addressless \cup S

\* No statement can give the box a row with its name: it is stuck, or it has no
\* address and the row with its name is that of a box that is.
Blocked(b) ==
  \E S \in SUBSET (Boxes \ Addressless) :
    /\ Stuck(S)
    /\ b \in S \/ (b \in Addressless /\ \E i \in RowsNamed(name[b]) : rows[i].box \in S)

\* When names stop changing every box gets a row with its name, names handed from
\* one box to another included, unless the unique index refuses it for ever
\* (a box that exchanges its name with another one, or gets that of a renamed host).
NamesConverge ==
  <>[](\A b \in plan.boxes : (\E i \in RowsOf(b) : rows[i].host = name[b]) \/ Blocked(b))

\* A row cached under a name it no longer has, or that is gone, is not served for
\* ever: whatever the cache returns in the end is the row with that name.
CacheConverges ==
  <>[](\A n \in Names : Hits(n) # {} => Cached(n) \in RowsNamed(n))

\* Both: names and cache agree with the boxes in the end, through renames,
\* evictions, expired entries and an emptied table (lookupOrRegister, LRU).
Converges == NamesConverge /\ CacheConverges
=============================================================================
