------------------------------ MODULE Commands ------------------------------
(***************************************************************************)
(* The downstream control plane.  A user edits a field of a device in the  *)
(* UI; the Aggregator lists the edit (external); the hub's forwarder pulls *)
(* edits newer than its cursor and upserts them as pending rows of         *)
(* device_commands (forwarder/uicommands.go, store/commands.go); every     *)
(* collector's Runner polls pending rows, writes the device and            *)
(* acknowledges (fwEDR/internal/command, api/rest/commands.go); finished   *)
(* rows are reported back up under a cursor of their own.                  *)
(*                                                                         *)
(* The n-th edit carries the value n, so that a later value is a newer     *)
(* one; a Field stands for a (device_ip, field) pair; a cursor of the down *)
(* feed is the number of edits it covers.  Several field names may be      *)
(* aliases of one OID (snmpFieldMap): rows are told apart by name, what    *)
(* the device holds by OID.                                                *)
(***************************************************************************)
EXTENDS Integers, Sequences, FiniteSets, SequencesExt, FiniteSetsExt

CONSTANTS
  Fields,
  Supported,    \* fields Apply has a write path for
  Oids,         \* what is written: OIDs, or the power state through Redfish
  Oid,          \* snmpFieldMap, powerFields: the one a supported field is written to
  Edrs,         \* collectors
  Plans,        \* runs: the collectors that poll this hub, each of which is given every
                \* pending row, the fields a user edits, and the bound on lost requests,
                \* failed statements, failed writes and crashes
  MaxAttempts,  \* maxCommandAttempts
  BatchLimit,   \* rows of one pull
  ReportLimit,  \* outcomes of one report (200)
  MaxEdits      \* bound: edits made in the UI

ASSUME CommandsAssumption ==
  /\ Supported \subseteq Fields /\ Oid \in [Supported -> Oids]
  /\ \A p \in Plans : p.edrs \subseteq Edrs /\ p.edrs # {} /\ p.fields \subseteq Fields /\ p.faults \in Nat
  /\ MaxAttempts \in Nat \ {0} /\ BatchLimit \in Nat \ {0} /\ ReportLimit \in Nat \ {0}
  /\ MaxEdits \in Nat

VARIABLES
  plan,       \* the plan of this run
  edits,      \* Aggregator: field of each edit made
  reported,   \* Aggregator: command outcomes it was told
  downCursor, \* forwarder_cursors: edits pulled
  upCursor,   \* forwarder_cursors: outcomes reported
  rows,       \* device_commands, indexed by id
  top,        \* history: latest stamp of an outcome ever committed
  late,       \* history: rows whose outcome was committed at or before such a stamp,
              \* or has the stamp of one that was
  configEvents, \* config.<field> rows of the events table
  clock,      \* the database's now()
  fwd,        \* pullUICommands: program counter and locals
  run,        \* Runner.tick of each collector: program counter and locals
  device,     \* writes to each OID, in order
  asset,      \* the collector's in-memory copy of each field
  faults      \* faults so far

world      == <<plan, edits, reported>>
cursors    == <<downCursor, upCursor>>
outcomes   == <<rows, top, late>>
table      == <<outcomes, configEvents, clock>>
collector  == <<run, device, asset>>
vars       == <<world, cursors, table, fwd, collector, faults>>

IdleFwd == [pc |-> "idle", since |-> 0, outcomes |-> {}, max |-> 0, changes |-> <<>>, cursor |-> 0]

IdleRun == [pc |-> "idle", batch |-> <<>>, ok |-> FALSE, at |-> 0]

Fault == faults < plan.faults /\ faults' = faults + 1

Terminal(r) == r.status \in {"applied", "failed"}

Pending(rs) == {i \in DOMAIN rs : rs[i].status = "pending"}

-----------------------------------------------------------------------------
(* The user.                                                               *)

Edit(f) ==
  /\ Len(edits) < MaxEdits /\ f \in plan.fields
  /\ edits' = Append(edits, f)
  /\ UNCHANGED <<plan, reported, cursors, table, fwd, collector, faults>>

-----------------------------------------------------------------------------
(* pullUICommands                                                          *)

FinishedMut(c) == {i \in DOMAIN rows : rows[i].status = "applied" /\ rows[i].at > c}

\* Finished rows stamped after the cursor.
Finished(c) == {i \in DOMAIN rows : Terminal(rows[i]) /\ rows[i].at > c}

CommandsUpdatedSinceMut(c) ==
  {S \in SUBSET Finished(c) : Cardinality(S) = ReportLimit \/ (Cardinality(S) < ReportLimit /\ S = Finished(c))}

\* One page of them, the oldest first: rows of equal stamp in any order.
CommandsUpdatedSince(c) ==
  {S \in SUBSET Finished(c) :
     /\ Cardinality(S) = ReportLimit \/ (Cardinality(S) < ReportLimit /\ S = Finished(c))
     /\ \A i \in S, j \in Finished(c) \ S : rows[i].at <= rows[j].at}

SendPull(since, done) ==
  fwd' = [IdleFwd EXCEPT
            !.pc = "sent", !.since = since,
            !.outcomes = {[id |-> i, status |-> rows[i].status] : i \in done},
            !.max = Max({rows[i].at : i \in done} \cup {0})]

BeginPull ==
  /\ fwd.pc = "idle"
  /\ \E done \in CommandsUpdatedSince(upCursor) : SendPull(downCursor, done)
  /\ UNCHANGED <<world, cursors, table, collector, faults>>

\* GetForwarderCursor answers every error with the zero time, that is with
\* everything again; an error of CommandsUpdatedSince is an empty list.
BeginPullUnread ==
  /\ fwd.pc = "idle" /\ Fault
  /\ \E since \in {0, downCursor} :
       \E done \in {{}} \cup CommandsUpdatedSince(0) \cup CommandsUpdatedSince(upCursor) :
         SendPull(since, done)
  /\ UNCHANGED <<world, cursors, table, collector>>

\* The Aggregator takes the outcomes and answers with the edits after "since".
Exchange ==
  /\ fwd.pc = "sent"
  /\ reported' = reported \cup fwd.outcomes
  /\ fwd' = [fwd EXCEPT !.pc = "saveUp", !.cursor = Len(edits),
                        !.changes = [k \in 1..(Len(edits) - fwd.since) |->
                                       [field |-> edits[fwd.since + k], value |-> fwd.since + k]]]
  /\ UNCHANGED <<plan, edits, cursors, table, collector, faults>>

\* No answer, or not a 2xx: the outcomes may or may not have arrived.
ExchangeLost ==
  /\ fwd.pc = "sent" /\ Fault
  /\ reported' \in {reported, reported \cup fwd.outcomes}
  /\ fwd' = IdleFwd
  /\ UNCHANGED <<plan, edits, cursors, table, collector>>

\* The result of SetForwarderCursor is not looked at.
SaveUp ==
  /\ fwd.pc = "saveUp"
  /\ \/ upCursor' = (IF fwd.max > 0 THEN fwd.max ELSE upCursor) /\ UNCHANGED faults
     \/ fwd.max > 0 /\ Fault /\ UNCHANGED upCursor
  /\ fwd' = [fwd EXCEPT !.pc = "saveDown"]
  /\ UNCHANGED <<world, downCursor, table, collector>>

AfterSaveDown == IF fwd.changes = <<>> THEN IdleFwd ELSE [fwd EXCEPT !.pc = "insert"]

SaveDown ==
  /\ fwd.pc = "saveDown"
  /\ \/ downCursor' = fwd.cursor /\ UNCHANGED faults
     \/ Fault /\ UNCHANGED downCursor
  /\ fwd' = AfterSaveDown
  /\ UNCHANGED <<world, upCursor, table, collector>>

UpsertIgnoreMut(rs, c) ==
  IF \E i \in Pending(rs) : rs[i].field = c.field THEN rs
  ELSE Append(rs, [field |-> c.field, value |-> c.value,
                   status |-> "pending", attempts |-> 0, at |-> 0])

UpsertReopenMut(rs, c) ==
  LET same == {i \in DOMAIN rs : rs[i].field = c.field}
  IN  IF same # {} THEN [i \in DOMAIN rs |-> IF i \in same THEN [rs[i] EXCEPT !.value = c.value, !.status = "pending"] ELSE rs[i]]
                   ELSE Append(rs, [field |-> c.field, value |-> c.value,
                                    status |-> "pending", attempts |-> 0, at |-> 0])

\* INSERT ... ON CONFLICT (device_ip, field) WHERE status = 'pending' DO UPDATE.
Upsert(rs, c) ==
  LET same == {i \in Pending(rs) : rs[i].field = c.field}
  IN  IF same # {} THEN [i \in DOMAIN rs |-> IF i \in same THEN [rs[i] EXCEPT !.value = c.value] ELSE rs[i]]
                   ELSE Append(rs, [field |-> c.field, value |-> c.value,
                                    status |-> "pending", attempts |-> 0, at |-> 0])

\* The table after the statements of a batch, in order.
Inserted(rs, cs) ==
  LET after[k \in 0..Len(cs)] == IF k = 0 THEN rs ELSE Upsert(after[k - 1], cs[k])
  IN  after[Len(cs)]

\* The statements of one batch are one implicit transaction.
InsertCommands ==
  /\ fwd.pc = "insert"
  /\ \/ rows' = Inserted(rows, fwd.changes) /\ UNCHANGED faults
     \/ Fault /\ UNCHANGED rows
  /\ fwd' = IdleFwd
  /\ UNCHANGED <<world, cursors, top, late, configEvents, clock, collector>>

\* The hub's process dies; its tables stay.
HubCrash ==
  /\ fwd.pc # "idle" /\ Fault
  /\ fwd' = IdleFwd
  /\ UNCHANGED <<world, cursors, table, collector>>

-----------------------------------------------------------------------------
(* Runner.tick                                                             *)

Order(i) == [id |-> i, field |-> rows[i].field, value |-> rows[i].value]

PendingCommandsMut ==
  LET upTo[i \in 0..Len(rows)] ==
        IF i = 0 THEN <<>>
        ELSE IF i \in Pending(rows) /\ rows[i].attempts = 0 /\ Len(upTo[i - 1]) < BatchLimit
             THEN Append(upTo[i - 1], Order(i)) ELSE upTo[i - 1]
  IN  upTo[Len(rows)]

\* The oldest pending rows, as they are now.
PendingCommands ==
  LET upTo[i \in 0..Len(rows)] ==
        IF i = 0 THEN <<>>
        ELSE IF i \in Pending(rows) /\ Len(upTo[i - 1]) < BatchLimit
             THEN Append(upTo[i - 1], Order(i)) ELSE upTo[i - 1]
  IN  upTo[Len(rows)]

Pull(e) ==
  /\ run[e].pc = "idle" /\ e \in plan.edrs /\ PendingCommands # <<>>
  /\ run' = [run EXCEPT ![e] = [IdleRun EXCEPT !.pc = "apply", !.batch = PendingCommands]]
  /\ UNCHANGED <<world, cursors, table, fwd, device, asset, faults>>

Cmd(e) == Head(run[e].batch)

\* The same value again changes nothing.
Write(e, c) ==
  LET w == [field |-> c.field, value |-> c.value, by |-> e]
  IN  device' = [device EXCEPT ![Oid[c.field]] = IF @ # <<>> /\ Last(@) = w THEN @ ELSE Append(@, w)]

Outcome(e, ok) == run' = [run EXCEPT ![e].pc = "ack", ![e].ok = ok]

ApplyOk(e) ==
  /\ run[e].pc = "apply" /\ Cmd(e).field \in Supported
  /\ Write(e, Cmd(e))
  /\ asset' = [asset EXCEPT ![e][Cmd(e).field] = Cmd(e).value]
  /\ Outcome(e, TRUE)
  /\ UNCHANGED <<world, cursors, table, fwd, faults>>

\* An error from the device may come after it took the value.
ApplyFails(e) ==
  /\ run[e].pc = "apply" /\ Cmd(e).field \in Supported /\ Fault
  /\ Write(e, Cmd(e)) \/ UNCHANGED device
  /\ Outcome(e, FALSE)
  /\ UNCHANGED <<world, cursors, table, fwd, asset>>

ApplyUnsupported(e) ==
  /\ run[e].pc = "apply" /\ Cmd(e).field \notin Supported
  /\ Outcome(e, FALSE)
  /\ UNCHANGED <<world, cursors, table, fwd, device, asset, faults>>

NextCommand(s) ==
  IF Len(s.batch) = 1 THEN IdleRun ELSE [IdleRun EXCEPT !.pc = "apply", !.batch = Tail(s.batch)]

\* The ack reaches handleAck and its statement's now() is taken; two acks on their
\* way to the table may be given the same one.
AckArrives(e) ==
  /\ run[e].pc = "ack"
  /\ \E now \in {clock, clock + 1} :
       /\ now = clock => \E d \in Edrs : run[d].pc = "mark" /\ run[d].at = now
       /\ clock' = now
       /\ run' = [run EXCEPT ![e].pc = "mark", ![e].at = now]
  /\ UNCHANGED <<world, cursors, outcomes, configEvents, fwd, device, asset, faults>>

\* The UPDATE of MarkCommand: by id alone, whatever the row says by now.
Mark(r, ok, at) ==
  [r EXCEPT !.attempts = @ + 1, !.at = at,
            !.status = IF ok THEN "applied" ELSE IF r.attempts + 1 >= MaxAttempts THEN "failed" ELSE @]

\* The order in which outcomes are committed, which their stamps need not follow.
Committed(id, at) ==
  /\ top' = IF at > top THEN at ELSE top
  /\ late' = IF at > top THEN late \ {id}
             ELSE late \cup {id} \cup {i \in DOMAIN rows : Terminal(rows[i]) /\ rows[i].at = at}

\* MarkCommand; insertConfigEvent is best effort and takes the row's value.
MarkCommand(e) ==
  LET id == Cmd(e).id
      r  == rows[id]
      m  == Mark(r, run[e].ok, run[e].at)
  IN  /\ run[e].pc = "mark"
      /\ rows' = [rows EXCEPT ![id] = m]
      /\ IF Terminal(m) THEN Committed(id, run[e].at) ELSE UNCHANGED <<top, late>>
      /\ \/ run[e].ok /\ configEvents' = configEvents \cup {[field |-> r.field, value |-> r.value]} /\ UNCHANGED faults
         \/ run[e].ok /\ Fault /\ UNCHANGED configEvents
         \/ ~run[e].ok /\ UNCHANGED <<configEvents, faults>>
      /\ run' = [run EXCEPT ![e] = NextCommand(@)]
      /\ UNCHANGED <<world, cursors, clock, fwd, device, asset>>

\* A failed ack is logged and the batch goes on.
AckLost(e) ==
  /\ run[e].pc \in {"ack", "mark"} /\ Fault
  /\ run' = [run EXCEPT ![e] = NextCommand(@)]
  /\ UNCHANGED <<world, cursors, table, fwd, device, asset>>

\* The collector restarts: its asset fields come from the topology file again.
EdrCrash(e) ==
  /\ run[e].pc # "idle" /\ Fault
  /\ run' = [run EXCEPT ![e] = IdleRun]
  /\ asset' = [asset EXCEPT ![e] = [f \in Fields |-> 0]]
  /\ UNCHANGED <<world, cursors, table, fwd, device>>

-----------------------------------------------------------------------------
Init ==
  /\ plan \in Plans /\ edits = <<>> /\ reported = {}
  /\ downCursor = 0 /\ upCursor = 0
  /\ rows = <<>> /\ top = 0 /\ late = {} /\ configEvents = {} /\ clock = 0
  /\ fwd = IdleFwd
  /\ run = [e \in Edrs |-> IdleRun]
  /\ device = [o \in Oids |-> <<>>]
  /\ asset = [e \in Edrs |-> [f \in Fields |-> 0]]
  /\ faults = 0

Forwarder == BeginPull \/ Exchange \/ SaveUp \/ SaveDown \/ InsertCommands

Runner(e) ==
  \/ Pull(e) \/ ApplyOk(e) \/ ApplyFails(e) \/ ApplyUnsupported(e)
  \/ AckArrives(e) \/ MarkCommand(e)

Next ==
  \/ \E f \in Fields : Edit(f)
  \/ Forwarder \/ BeginPullUnread \/ ExchangeLost \/ HubCrash
  \/ \E e \in Edrs : Runner(e) \/ AckLost(e) \/ EdrCrash(e)

Spec == Init /\ [][Next]_vars

\* Both loops run on tickers and never return; users, faults and crashes are free.
FairSpec == Spec /\ WF_vars(Forwarder) /\ \A e \in Edrs : WF_vars(Runner(e))

-----------------------------------------------------------------------------
Values == 0..MaxEdits

\* Every pull queues each edit once at most, and a replay needs a fault.
Ids == 1..(MaxEdits * (Max({p.faults : p \in Plans}) + 1))

Command == [field : Fields, value : Values \ {0}]

Row == [field : Fields, value : Values \ {0}, status : {"pending", "applied", "failed"},
        attempts : Nat, at : Nat]

\* The control plane's state is well formed; no cursor is ahead of its feed
\* (pullUICommands 207-213: the cursor is the Aggregator's) and every pulled
\* command is a row.
TypeOK ==
  /\ edits \in Seq(Fields) /\ Len(edits) <= MaxEdits
  /\ reported \subseteq [id : DOMAIN rows, status : {"applied", "failed"}]
  /\ downCursor \in 0..Len(edits) /\ upCursor \in 0..clock
  /\ rows \in Seq(Row) /\ \A i \in DOMAIN rows : rows[i].at <= clock
  /\ late \subseteq DOMAIN rows /\ top \in 0..clock
  /\ configEvents \subseteq Command
  /\ fwd.since <= Len(edits) /\ fwd.max <= clock
  /\ \A e \in Edrs : /\ run[e].pc \in {"idle", "apply", "ack", "mark"}
                     /\ (run[e].pc = "idle") = (run[e].batch = <<>>)
                     /\ \A k \in DOMAIN run[e].batch : run[e].batch[k].id \in DOMAIN rows
  /\ asset \in [Edrs -> [Fields -> Values]]
  /\ plan \in Plans /\ faults \in 0..plan.faults

\* uix_device_commands_pending_field: whatever edits, replays, acks and crashes
\* come together, a field never has two pending rows.
OnePendingPerField ==
  \A i, j \in Pending(rows) : rows[i].field = rows[j].field => i = j

Writes == UNION {ToSet(device[o]) : o \in Oids}

\* No replay of the feed, retry after a lost ack or half-done batch writes an old value
\* over a new one (PendingCommands re-reads the value, InsertCommands keeps order): the
\* values that a collector writes under one name only get newer, and what waits in the
\* table is as new as all that any collector has written under its name.  What is left
\* is another name of the same OID, whose row is retried on its own (apply.go 38-101),
\* and a second collector's batch that was pulled before the edit.
DeviceNeverRegresses ==
  /\ \A o \in Oids : \A i, j \in DOMAIN device[o] :
       LET v == device[o][i]
           w == device[o][j]
       IN  i < j /\ v.field = w.field /\ v.by = w.by => v.value <= w.value
  /\ \A i \in Pending(rows), w \in Writes : w.field = rows[i].field => w.value <= rows[i].value

\* An outcome the up cursor has passed has reached the Aggregator, page by page
\* (pullUICommands 198-202: the cursor moves only after a 2xx).  The exception: acks of
\* two collectors may be stamped in one order and committed in the other, or share a
\* stamp, and the strict comparison of CommandsUpdatedSince never finds the late one.
OutcomesReported ==
  \A i \in DOMAIN rows :
    Terminal(rows[i]) /\ rows[i].at <= upCursor =>
      [id |-> i, status |-> rows[i].status] \in reported \/ i \in late

\* The table and the cursors: one row to apply per field, and no outcome committed in
\* order behind the up cursor that the Aggregator does not have.
TableSound == TypeOK /\ OnePendingPerField /\ OutcomesReported

\* "on success we mark it applied so it drops out of the pending index": a row
\* that was finished is never pending again (store/commands.go 99-130).
FinishedStaysFinished ==
  [][\A i \in DOMAIN rows : Terminal(rows[i]) => Terminal(rows'[i])]_rows

\* maxCommandAttempts: every queued command is settled one way or the other, the
\* ones no write path exists for included (store/commands.go 119-121).
PendingSettles ==
  \A i \in Ids : (i \in Pending(rows)) ~> (i \in DOMAIN rows /\ Terminal(rows[i]))

\* What was settled is eventually told to the Aggregator, through full pages, lost
\* requests, failed cursor writes and restarts (CommandsUpdatedSince 135-149), unless
\* its ack was committed late.
OutcomesGetReported ==
  \A i \in Ids :
    (i \in DOMAIN rows /\ Terminal(rows[i]))
      ~> (i \in DOMAIN rows /\ ([id |-> i, status |-> rows[i].status] \in reported \/ i \in late))

\* uicommands.go 84-86, "the cursor only advances on success, so nothing is
\* lost": every edit the cursor has passed was queued.
NothingLost ==
  fwd.pc = "idle" =>
    \A k \in 1..downCursor : \E i \in DOMAIN rows : rows[i].field = edits[k] /\ rows[i].value >= k

\* commands.go 168, "records a config.<field> event for an applied UI edit":
\* the value of such an event was written to the device.
ConfigEventsTrue ==
  \A v \in configEvents : \E w \in Writes : w.field = v.field /\ w.value = v.value
=============================================================================
