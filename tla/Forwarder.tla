----------------------------- MODULE Forwarder ------------------------------
(***************************************************************************)
(* The hub's incremental push to the Aggregator (forwarder/forwarder.go,   *)
(* store/forward.go), for one network: a loop woken by a ticker or by a    *)
(* committed event reads a page of every table behind a persistent cursor, *)
(* tables that had nothing being skipped for a while, adds the devices the *)
(* rows refer to, posts one payload per scope in parallel, in chunks, and  *)
(* moves the cursors when every post succeeded.  Workers commit rows at    *)
(* any moment, posts fail, statements fail, and the hub may restart.       *)
(*                                                                         *)
(* A row is an identity whose versions are counted; its stamp is the       *)
(* updated_at or ts the queries order by.  Metrics, energy readings and    *)
(* events carry their collector's time, and updated_at is the time a       *)
(* transaction began: a stamp may be behind the clock when it is seen.     *)
(***************************************************************************)
EXTENDS Integers, Sequences, FiniteSets, FiniteSetsExt

CONSTANTS
  Rows,
  TableOrder,   \* tables in the order pushNetwork queries them
  Table,        \* table of each row
  Scopes,       \* (datacenter, floor) scopes
  Scope,        \* scope of each row; a link between two scopes has none of them
  Ends,         \* device rows that must travel with a row; an event needs none
  Limit,        \* rows of one page, per table
  MaxIdleSkips, \* ticks a drained table is skipped at most
  Attempts,     \* tries of one post (3 in the code)
  MaxLate,      \* bound: how far behind the clock a stamp may be
  MaxClock,     \* bound: rows committed
  MaxFaults     \* bound: failed posts and statements, restarts

Tables  == {TableOrder[i] : i \in DOMAIN TableOrder}
Devices == {r \in Rows : Table[r] = "devices"}
Mutable == {"devices", "topology"}

\* pushNetwork queries each table once; a link has a scope only when both of its
\* devices are in it.
ASSUME ForwarderAssumption ==
  /\ IsFiniteSet(Rows)
  /\ TableOrder \in Seq(Tables)
  /\ \A i, j \in DOMAIN TableOrder : TableOrder[i] = TableOrder[j] => i = j
  /\ Table \in [Rows -> Tables] /\ "events" \in Tables
  /\ DOMAIN Scope = Rows
  /\ \A r \in Rows : Table[r] = "topology" /\ Scope[r] \in Scopes =>
                       \A d \in Ends[r] : Scope[d] = Scope[r]
  /\ Ends \in [Rows -> SUBSET Devices]
  /\ Limit \in [Tables -> Nat \ {0}]
  /\ MaxIdleSkips \in Nat /\ Attempts \in Nat \ {0}
  /\ MaxLate \in Nat /\ MaxClock \in Nat /\ MaxFaults \in Nat

VARIABLES
  stamp,   \* stamp of each row, 0 while there is none
  ver,     \* version of each row
  clock,   \* the database's clock
  top,     \* history: latest stamp ever committed to each table
  late,    \* history: rows committed at or before a stamp already given out
  cursor,  \* forwarder_cursors
  gates,   \* pollGate of each table; misses saturates at MaxIdleSkips
  behind,  \* history: rows a full page left out when their table was last read
  hooks,   \* events committed whose hook has not run yet
  notify,  \* the wake channel holds a signal
  fwd,     \* Run and pushNetwork: program counter and locals
  posts,   \* per scope: the chunks still to post
  got,     \* version of each row the Aggregator has
  faults   \* faults so far

db    == <<stamp, ver, clock, top, late>>
vars  == <<db, cursor, gates, behind, hooks, notify, fwd, posts, got, faults>>

Fault == faults < MaxFaults /\ faults' = faults + 1

Idle   == [pc |-> "select", force |-> FALSE, todo |-> <<>>, page |-> {}, failed |-> FALSE]
NoPost == [chunks |-> <<>>, tries |-> 0]

-----------------------------------------------------------------------------
(* The ingest side.                                                        *)

\* A worker commits a row: a new one, or a new version of a device or link.
Commit(r) ==
  LET t == Table[r] IN
  /\ clock < MaxClock
  /\ ver[r] = 0 \/ t \in Mutable
  /\ \A d \in Ends[r] : ver[d] > 0
  /\ \E s \in (clock + 1 - MaxLate)..(clock + 1) :
       /\ s > 0
       /\ stamp' = [stamp EXCEPT ![r] = s]
       /\ top' = [top EXCEPT ![t] = IF s > @ THEN s ELSE @]
       /\ late' = IF s > top[t] THEN late \ {r}
                  ELSE late \cup {r} \cup {q \in Rows : Table[q] = t /\ stamp[q] = s}
  /\ ver' = [ver EXCEPT ![r] = @ + 1]
  /\ clock' = clock + 1
  /\ hooks' = IF t = "events" THEN hooks + 1 ELSE hooks
  /\ UNCHANGED <<cursor, gates, behind, notify, fwd, posts, got, faults>>

\* notifyEvent: a send that gives way to a signal already there.
NotifyEvent ==
  /\ hooks > 0
  /\ hooks' = hooks - 1
  /\ notify' = TRUE
  /\ UNCHANGED <<db, cursor, gates, behind, fwd, posts, got, faults>>

-----------------------------------------------------------------------------
(* Run                                                                     *)

StartPush(force) == fwd' = [Idle EXCEPT !.pc = "poll", !.force = force, !.todo = TableOrder]

Tick ==
  /\ fwd.pc = "select"
  /\ StartPush(FALSE)
  /\ UNCHANGED <<db, cursor, gates, behind, hooks, notify, posts, got, faults>>

Wake ==
  /\ fwd.pc = "select" /\ notify
  /\ notify' = FALSE
  /\ fwd' = [Idle EXCEPT !.pc = "debounce"]
  /\ UNCHANGED <<db, cursor, gates, behind, hooks, posts, got, faults>>

\* The debounce window is over: drainNotify, then a forced push.
Debounced ==
  /\ fwd.pc = "debounce"
  /\ notify' = FALSE
  /\ StartPush(TRUE)
  /\ UNCHANGED <<db, cursor, gates, behind, hooks, posts, got, faults>>

-----------------------------------------------------------------------------
(* pushNetwork: the queries.                                               *)

ShouldPoll(t) == fwd.force \/ gates[t].skipLeft = 0

RecordPoll(g, found) ==
  IF found THEN [misses |-> 0, skipLeft |-> 0]
  ELSE LET n == IF g.misses < MaxIdleSkips THEN g.misses + 1 ELSE MaxIdleSkips
       IN  [misses |-> n, skipLeft |-> n]

\* WHERE stamp > c
Due(t, c) == {r \in Rows : Table[r] = t /\ stamp[r] > c}

\* ORDER BY stamp LIMIT n: rows of equal stamp in any order.
Pages(t, c) ==
  LET n == IF Cardinality(Due(t, c)) < Limit[t] THEN Cardinality(Due(t, c)) ELSE Limit[t]
  IN  {S \in SUBSET Due(t, c) : /\ Cardinality(S) = n
                                /\ \A r \in S, q \in Due(t, c) \ S : stamp[r] <= stamp[q]}

Read(S) == {[row |-> r, ver |-> ver[r], stamp |-> stamp[r]] : r \in S}

Query(t, c) ==
  \E S \in Pages(t, c) :
    /\ fwd' = [fwd EXCEPT !.todo = Tail(@), !.page = @ \cup Read(S)]
    /\ gates' = [gates EXCEPT ![t] = RecordPoll(@, S # {})]
    /\ behind' = {r \in behind : Table[r] # t} \cup (Due(t, c) \ S)

PollTable ==
  /\ fwd.pc = "poll" /\ fwd.todo # <<>> /\ ShouldPoll(Head(fwd.todo))
  /\ \/ Query(Head(fwd.todo), cursor[Head(fwd.todo)]) /\ UNCHANGED faults
     \/ Query(Head(fwd.todo), 0) /\ Fault
  /\ UNCHANGED <<db, cursor, hooks, notify, posts, got>>

SkipTableMut ==
  /\ fwd.pc = "poll" /\ fwd.todo # <<>> /\ ~ShouldPoll(Head(fwd.todo))
  /\ fwd' = [fwd EXCEPT !.todo = Tail(@)]
  /\ UNCHANGED <<db, cursor, gates, behind, hooks, notify, posts, got, faults>>

SkipTable ==
  /\ fwd.pc = "poll" /\ fwd.todo # <<>> /\ ~ShouldPoll(Head(fwd.todo))
  /\ fwd' = [fwd EXCEPT !.todo = Tail(@)]
  /\ gates' = [gates EXCEPT ![Head(fwd.todo)].skipLeft = @ - 1]
  /\ UNCHANGED <<db, cursor, behind, hooks, notify, posts, got, faults>>

\* A query fails: the push returns, and what it has read is read again.
QueryFails ==
  /\ fwd.pc = "poll" /\ Fault
  /\ fwd' = Idle
  /\ UNCHANGED <<db, cursor, gates, behind, hooks, notify, posts, got>>

-----------------------------------------------------------------------------
(* pushNetwork: payloads and posts.                                        *)

\* DevicesByIDs and DevicesByHostnames: devices the page's rows refer to, as
\* they are now, unless the page has them already.
Hydrate(page) ==
  page \cup Read((UNION {Ends[v.row] : v \in page}) \ {v.row : v \in page})

\* buildPayloads: the part of a push that goes to one scope.
Payload(all, s) == {v \in all : Scope[v.row] = s}

\* chunkPayload: devices with their readings first, links and events last.
Chunks(payload) ==
  LET tail    == {v \in payload : Table[v.row] \in {"topology", "events"}}
      Part(c) == IF c = {} THEN <<>> ELSE <<c>>
  IN  Part(payload \ tail) \o Part(tail)

Build ==
  /\ fwd.pc = "poll" /\ fwd.todo = <<>>
  /\ IF fwd.page = {} THEN fwd' = Idle /\ UNCHANGED posts
     ELSE /\ fwd' = [fwd EXCEPT !.pc = "post"]
          /\ posts' = [s \in Scopes |-> [NoPost EXCEPT !.chunks = Chunks(Payload(Hydrate(fwd.page), s))]]
  /\ UNCHANGED <<db, cursor, gates, behind, hooks, notify, got, faults>>

\* The Aggregator upserts what it is sent, but for a link one of whose devices
\* it has not seen.
Ingest(chunk) ==
  got' = [r \in Rows |->
            LET vs == {v \in chunk : v.row = r /\ (Table[r] = "topology" => \A d \in Ends[r] : got[d] > 0)}
            IN  IF vs = {} THEN got[r] ELSE Max({v.ver : v \in vs})]

PostOk(s) ==
  /\ fwd.pc = "post" /\ posts[s].chunks # <<>>
  /\ Ingest(Head(posts[s].chunks))
  /\ posts' = [posts EXCEPT ![s] = [NoPost EXCEPT !.chunks = Tail(posts[s].chunks)]]
  /\ UNCHANGED <<db, cursor, gates, behind, hooks, notify, fwd, faults>>

\* A network error, a timeout or a 5xx, with or without effect, is tried again.
PostRetry(s) ==
  /\ fwd.pc = "post" /\ posts[s].chunks # <<>> /\ posts[s].tries + 1 < Attempts /\ Fault
  /\ Ingest(Head(posts[s].chunks)) \/ UNCHANGED got
  /\ posts' = [posts EXCEPT ![s].tries = @ + 1]
  /\ UNCHANGED <<db, cursor, gates, behind, hooks, notify, fwd>>

PostFailsMut(s) ==
  /\ fwd.pc = "post" /\ posts[s].chunks # <<>> /\ Fault
  /\ Ingest(Head(posts[s].chunks)) \/ UNCHANGED got
  /\ posts' = [posts EXCEPT ![s] = NoPost]
  /\ UNCHANGED <<db, cursor, gates, behind, hooks, notify, fwd>>

\* The last try, or a 4xx: the scope stops, the others go on.
PostFails(s) ==
  /\ fwd.pc = "post" /\ posts[s].chunks # <<>> /\ Fault
  /\ Ingest(Head(posts[s].chunks)) \/ UNCHANGED got
  /\ posts' = [posts EXCEPT ![s] = NoPost]
  /\ fwd' = [fwd EXCEPT !.failed = TRUE]
  /\ UNCHANGED <<db, cursor, gates, behind, hooks, notify>>

\* wg.Wait: one failure and no cursor moves.
PostsDone ==
  /\ fwd.pc = "post" /\ \A s \in Scopes : posts[s].chunks = <<>>
  /\ fwd' = IF fwd.failed THEN Idle ELSE [fwd EXCEPT !.pc = "advance", !.todo = TableOrder]
  /\ UNCHANGED <<db, cursor, gates, behind, hooks, notify, posts, got, faults>>

\* The stamp of the last row of table t in the page.
LastStamp(t) == Max({v.stamp : v \in {w \in fwd.page : Table[w.row] = t}})

\* SetForwarderCursor, table by table; its error is not looked at.
Advance ==
  LET t == Head(fwd.todo) IN
  /\ fwd.pc = "advance" /\ fwd.todo # <<>>
  /\ IF \E v \in fwd.page : Table[v.row] = t
     THEN \/ cursor' = [cursor EXCEPT ![t] = LastStamp(t)] /\ UNCHANGED faults
          \/ Fault /\ UNCHANGED cursor
     ELSE UNCHANGED <<cursor, faults>>
  /\ fwd' = [fwd EXCEPT !.todo = Tail(@)]
  /\ UNCHANGED <<db, gates, behind, hooks, notify, posts, got>>

PushDoneMut ==
  /\ fwd.pc = "advance" /\ fwd.todo = <<>>
  /\ fwd' = Idle
  /\ notify' = FALSE
  /\ UNCHANGED <<db, cursor, gates, behind, hooks, posts, got, faults>>

PushDone ==
  /\ fwd.pc = "advance" /\ fwd.todo = <<>>
  /\ fwd' = Idle
  /\ UNCHANGED <<db, cursor, gates, behind, hooks, notify, posts, got, faults>>

\* The hub restarts: tables and cursors are all that is left.
Restart ==
  /\ Fault
  /\ gates' = [t \in Tables |-> [misses |-> 0, skipLeft |-> 0]]
  /\ hooks' = 0 /\ notify' = FALSE
  /\ fwd' = Idle /\ posts' = [s \in Scopes |-> NoPost]
  /\ UNCHANGED <<db, cursor, behind, got>>

-----------------------------------------------------------------------------
Init ==
  /\ stamp = [r \in Rows |-> 0] /\ ver = [r \in Rows |-> 0] /\ clock = 0
  /\ top = [t \in Tables |-> 0] /\ late = {}
  /\ cursor = [t \in Tables |-> 0]
  /\ gates = [t \in Tables |-> [misses |-> 0, skipLeft |-> 0]]
  /\ behind = {} /\ hooks = 0 /\ notify = FALSE
  /\ fwd = Idle /\ posts = [s \in Scopes |-> NoPost]
  /\ got = [r \in Rows |-> 0] /\ faults = 0

Push ==
  \/ PollTable \/ SkipTable \/ Build \/ PostsDone \/ Advance \/ PushDone
  \/ \E s \in Scopes : PostOk(s)

Next ==
  \/ \E r \in Rows : Commit(r)
  \/ NotifyEvent
  \/ Tick \/ Wake \/ Debounced \/ Push
  \/ QueryFails \/ (\E s \in Scopes : PostRetry(s) \/ PostFails(s))
  \/ Restart

Spec == Init /\ [][Next]_vars

\* The loop's goroutine runs and its ticker ticks; commits and faults are free.
FairSpec == Spec /\ WF_vars(Tick \/ Debounced \/ Push) /\ WF_vars(NotifyEvent)

-----------------------------------------------------------------------------
(* Properties.                                                             *)

Versions == [row : Rows, ver : 1..MaxClock, stamp : 1..MaxClock]

\* The forwarder's state is well formed: a page is never longer than its
\* tables' limits and the device lookups allow, no cursor is ahead of its table,
\* and a gate never skips more than MaxIdleSkips ticks (recordPoll).
TypeOK ==
  /\ stamp \in [Rows -> 0..MaxClock] /\ ver \in [Rows -> 0..MaxClock] /\ clock \in 0..MaxClock
  /\ late \subseteq Rows
  /\ top \in [Tables -> 0..MaxClock] /\ cursor \in [Tables -> 0..MaxClock]
  /\ \A t \in Tables : cursor[t] <= top[t] /\ top[t] <= clock
  /\ gates \in [Tables -> [misses : 0..MaxIdleSkips, skipLeft : 0..MaxIdleSkips]]
  /\ behind \subseteq Rows /\ hooks \in 0..MaxClock /\ notify \in BOOLEAN
  /\ fwd \in [pc : {"select", "debounce", "poll", "post", "advance"}, force : BOOLEAN,
              todo : Seq(Tables), page : SUBSET Versions, failed : BOOLEAN]
  /\ \A t \in Tables : Cardinality({v \in fwd.page : Table[v.row] = t}) <= Limit[t]
  /\ posts \in [Scopes -> [chunks : Seq(SUBSET Versions), tries : 0..Attempts - 1]]
  /\ got \in [Rows -> 0..MaxClock] /\ faults \in 0..MaxFaults

\* Rows the Aggregator can be told about: links between two scopes cannot.
Sendable == {r \in Rows : Scope[r] \in Scopes}

Unsent(r) == got[r] < ver[r]

\* A cursor passes a row only when the Aggregator has its newest version, through
\* partial failures, replays, changes during the posts and restarts; the one
\* exception is a row that was committed at or before a stamp already given out
\* (pushNetwork 711-726 with the strict comparison of the *Since queries).
OnlyLateSkipped ==
  \A r \in Sendable : stamp[r] <= cursor[Table[r]] /\ Unsent(r) => r \in late

\* The state is well formed and no cursor passes a row that was in order.
CursorsSafe == TypeOK /\ OnlyLateSkipped

\* Wakes are not lost to coalescing or to drainNotify: until a fault, an unsent
\* event in order has its hook or a wake pending, is about to be read by a push,
\* or is in the page of one, or was due when the events were last read and left
\* out by a full page, and then the next tick reads them again.
WakeCovers ==
  faults = 0 =>
    \A r \in Sendable \ late :
      Table[r] = "events" /\ Unsent(r) =>
        \/ hooks > 0 \/ notify \/ fwd.pc = "debounce"
        \/ fwd.force /\ fwd.pc = "poll" /\ \E i \in DOMAIN fwd.todo : fwd.todo[i] = "events"
        \/ \E v \in fwd.page : v.row = r
        \/ r \in behind /\ gates["events"].skipLeft = 0

\* Every row in order reaches the Aggregator: idle gates, failed posts, skipped
\* cursor writes and restarts only delay it.
EventuallySent ==
  \A r \in Sendable : [](ver[r] > 0 => <>(~Unsent(r) \/ r \in late))
=============================================================================
