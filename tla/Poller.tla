------------------------------- MODULE Poller -------------------------------
(***************************************************************************)
(* The collector's SNMP poller (fwEDR/internal/poller/poller.go): one      *)
(* walker per device, sessions shared by the devices of one responder      *)
(* endpoint, a process-wide cap on sockets that discovery shares, a lower  *)
(* cap for the heavy tiers, two circuit breakers per device, a health      *)
(* monitor that pauses the heavy tiers, and the gate closed while DCS is   *)
(* down.                                                                   *)
(*                                                                         *)
(* A session is the object the walkers lock (targetConn): one that left    *)
(* the map is still used by those that hold it.  A device's breakers are   *)
(* kept under its identity, which is fixed here.                           *)
(***************************************************************************)
EXTENDS Integers, Sequences, FiniteSets

CONSTANTS
  Targets,         \* devices
  Layouts,         \* fleets to start with: the devices known when the poller is
                   \* created (rediscovery may add the others), the responder
                   \* socket (IP and shard port) of each device, and what the
                   \* intervals make runTarget do: oneshot, heartbeat or rewalk
  Hash,            \* hash of each device's community
  DeviceType,      \* type of each device
  HeavyTiers,      \* tiers the configuration enables after FAST, in order
  MaxConcurrent,   \* snmp.max_concurrent
  Shards,          \* snmp.shards
  MgmtPort,        \* the simulator's management agent is configured
  FastThreshold,   \* misses that open the liveness breaker
  HeavyThreshold,  \* misses that open the heavy breaker
  MaxOthers,       \* bound: discovery probes holding a socket
  MaxFaults        \* bound: failed connections and walks, pauses of DCS

Tiers   == <<"fast">> \o HeavyTiers
NoConn  == 0

ASSUME PollerAssumption ==
  /\ IsFiniteSet(Targets)
  /\ \A l \in Layouts : /\ l.startup \subseteq Targets /\ DOMAIN l.endpoint = Targets
                        /\ l.mode \in {"oneshot", "heartbeat", "rewalk"}
  /\ Hash \in [Targets -> Nat] /\ DOMAIN DeviceType = Targets
  /\ HeavyTiers \in Seq({"medium", "topology", "slow", "environment", "server_health"})
  /\ MaxConcurrent \in Nat /\ Shards \in Nat /\ MgmtPort \in BOOLEAN
  /\ FastThreshold \in Nat \ {0} /\ HeavyThreshold \in Nat \ {0}
  /\ MaxOthers \in Nat /\ MaxFaults \in Nat

VARIABLES
  fleet,    \* the layout
  w,        \* walker of each device: program counter and locals of runTarget;
            \* history, in part: a heavy tier of this walk was not collected in full
  conns,    \* session of each key, NoConn before it is made
  cl,       \* SNMP client of each session: "none", "open", or its socket closed at the
            \* deadline of a poll: "dead" after a FAST one, "cut" after a heavy one
  live,     \* liveBreakers; history, in own: a failure of the streak was the device's,
            \* not that of a session a heavy poll had cut
  heavy,    \* heavyBreakers
  paused,   \* the health monitor's pause
  dcsDown,  \* health.Gate
  others,   \* sockets discovery holds
  main,     \* Run: "run", "drain", "close"
  closing,  \* keys closeConns has still to visit
  faults    \* faults so far

vars == <<fleet, w, conns, cl, live, heavy, paused, dcsDown, others, main, closing, faults>>

Fault == faults < MaxFaults /\ faults' = faults + 1
Stop  == main # "run"

-----------------------------------------------------------------------------
(* New                                                                     *)

SocketCap ==
  LET conc == IF MaxConcurrent = 0 THEN 50 ELSE MaxConcurrent
  IN  IF Shards > 1 /\ Shards * 2 < conc THEN Shards * 2 ELSE conc

\* One slot is kept for the FAST heartbeat.
HeavyCap == IF SocketCap > 1 THEN SocketCap - 1 ELSE 1

Startup     == fleet.startup
Mode        == fleet.mode
Endpoint(t) == fleet.endpoint[t]

\* Two startup devices behind one endpoint make every endpoint a pool.
Pooled   == \E a, b \in Startup : a # b /\ Endpoint(a) = Endpoint(b)
PoolSize == IF Pooled THEN SocketCap ELSE 1

\* connKey and pick: the same session every time for a device.
Key(t) == <<Endpoint(t), Hash[t] % PoolSize>>
Keys   == {Key(t) : t \in Targets}
Conns  == 1..(2 * Cardinality(Targets))

Closed == [fails |-> 0, open |-> FALSE, own |-> FALSE]
Walker(pc) == [pc |-> pc, tier |-> 1, ok |-> FALSE, part |-> FALSE, beat |-> FALSE, conn |-> NoConn]

-----------------------------------------------------------------------------
(* Locks and semaphores: their holders are read off the program counters.  *)

Holders(c)    == {t \in Targets : w[t].conn = c /\ w[t].pc \in {"heavy", "socket", "collect"}}
Unlocked(c)   == Holders(c) = {}
IsFast(t)     == w[t].tier = 1
HeavyHolders  == {t \in Targets : w[t].pc \in {"socket", "collect"} /\ ~IsFast(t)}
SocketHolders == {t \in Targets : w[t].pc = "collect"}
SocketsFull   == Cardinality(SocketHolders) + others >= SocketCap

-----------------------------------------------------------------------------
(* circuitBreaker                                                          *)

Threshold(t) == IF IsFast(t) THEN FastThreshold ELSE HeavyThreshold

RecordFailure(b, threshold, own) ==
  [fails |-> b.fails + 1, open |-> b.fails + 1 >= threshold, own |-> b.own \/ own]

\* getBreaker: FAST has one of its own, the heavy tiers share one.
Breaker(t) == IF IsFast(t) THEN live[t] ELSE heavy[t]

SetBreaker(t, b) ==
  IF IsFast(t) THEN live' = [live EXCEPT ![t] = b] /\ UNCHANGED heavy
  ELSE heavy' = [heavy EXCEPT ![t] = b] /\ UNCHANGED live

CooldownOverMut(t) ==
  /\ \/ live[t].open /\ live' = [live EXCEPT ![t].fails = 0] /\ UNCHANGED heavy
     \/ heavy[t].open /\ heavy' = [heavy EXCEPT ![t].fails = 0] /\ UNCHANGED live
  /\ UNCHANGED <<fleet, w, conns, cl, paused, dcsDown, others, main, closing, faults>>

\* tripped, once the cooldown is over: the breaker is cleared when it is next
\* looked at, and nothing counts a failure before it is.
CooldownOver(t) ==
  /\ \/ live[t].open /\ live' = [live EXCEPT ![t] = Closed] /\ UNCHANGED heavy
     \/ heavy[t].open /\ heavy' = [heavy EXCEPT ![t] = Closed] /\ UNCHANGED live
  /\ UNCHANGED <<fleet, w, conns, cl, paused, dcsDown, others, main, closing, faults>>

-----------------------------------------------------------------------------
(* runTarget and walkAll                                                   *)

\* The program counter after a poll that answered ok, all of it or a part.
AfterPoll(r, ok, part) ==
  LET walked == IF r.tier = 1 THEN [r EXCEPT !.ok = ok] ELSE [r EXCEPT !.part = @ \/ part]
      last   == r.beat \/ r.tier = Len(Tiers)
  IN  IF ~last THEN [walked EXCEPT !.pc = "gate", !.tier = @ + 1, !.conn = NoConn]
      ELSE IF Mode = "oneshot" /\ walked.ok THEN [Walker("release") EXCEPT !.part = walked.part]
      ELSE [Walker("sleep") EXCEPT !.beat = r.beat \/ (Mode = "heartbeat" /\ walked.ok)]

Return(t, ok)     == w' = [w EXCEPT ![t] = AfterPoll(@, ok, ~ok)]
ReturnPart(t, ok) == w' = [w EXCEPT ![t] = AfterPoll(@, ok, TRUE)]

\* A stop is seen between walks; only a heartbeat frees its session.
Quit(t) ==
  /\ w[t].pc = "sleep" /\ Stop
  /\ w' = [w EXCEPT ![t] = Walker(IF w[t].beat THEN "release" ELSE "end")]
  /\ UNCHANGED <<fleet, conns, cl, live, heavy, paused, dcsDown, others, main, closing, faults>>

\* closeConn: nothing in a pool; otherwise the session leaves the map first.
Release(t) ==
  LET c == conns[Key(t)] IN
  /\ w[t].pc = "release"
  /\ IF Pooled \/ c = NoConn THEN w' = [w EXCEPT ![t] = Walker("end")] /\ UNCHANGED conns
     ELSE /\ conns' = [conns EXCEPT ![Key(t)] = NoConn]
          /\ w' = [w EXCEPT ![t] = [Walker("free") EXCEPT !.conn = c]]
  /\ UNCHANGED <<fleet, cl, live, heavy, paused, dcsDown, others, main, closing, faults>>

FreeMut(t) ==
  /\ w[t].pc = "free"
  /\ cl' = [cl EXCEPT ![w[t].conn] = "none"]
  /\ w' = [w EXCEPT ![t] = Walker("end")]
  /\ UNCHANGED <<fleet, conns, live, heavy, paused, dcsDown, others, main, closing, faults>>

\* ... and is closed under its lock.
Free(t) ==
  /\ w[t].pc = "free" /\ Unlocked(w[t].conn)
  /\ cl' = [cl EXCEPT ![w[t].conn] = "none"]
  /\ w' = [w EXCEPT ![t] = Walker("end")]
  /\ UNCHANGED <<fleet, conns, live, heavy, paused, dcsDown, others, main, closing, faults>>

\* AddTarget, for a device that is not running yet.
AddTarget(t) ==
  /\ w[t].pc = "off"
  /\ w' = [w EXCEPT ![t].pc = "sleep"]
  /\ UNCHANGED <<fleet, conns, cl, live, heavy, paused, dcsDown, others, main, closing, faults>>

-----------------------------------------------------------------------------
(* pollSNMP                                                                *)

Skips(t) == dcsDown \/ (~IsFast(t) /\ paused) \/ Breaker(t).open

\* The jitter, the retry delay or a ticker is over, or the tier before is done.
AtGate(t) == w[t].pc = "gate" \/ (w[t].pc = "sleep" /\ ~Stop)

\* The gate, the pause or the breaker turns the poll away; or the stop ends its
\* wait for the rate limiter.
Skip(t) ==
  /\ AtGate(t)
  /\ Skips(t) \/ Stop
  /\ Return(t, FALSE)
  /\ UNCHANGED <<fleet, conns, cl, live, heavy, paused, dcsDown, others, main, closing, faults>>

Referenced(c) == c \in {conns[k] : k \in Keys} \/ \E t \in Targets : w[t].conn = c
Fresh == CHOOSE c \in Conns : ~Referenced(c)

\* getConn: the session of the device's key, made on first use.
Admit(t) ==
  LET old == conns[Key(t)]
      c   == IF old = NoConn THEN Fresh ELSE old IN
  /\ AtGate(t) /\ ~Skips(t)
  /\ conns' = [conns EXCEPT ![Key(t)] = c]
  /\ cl' = IF old = NoConn THEN [cl EXCEPT ![c] = "none"] ELSE cl
  /\ w' = [w EXCEPT ![t].pc = "lock", ![t].conn = c]
  /\ UNCHANGED <<fleet, live, heavy, paused, dcsDown, others, main, closing, faults>>

\* tc.mu: not given up on a stop.
Lock(t) ==
  /\ w[t].pc = "lock" /\ Unlocked(w[t].conn)
  /\ w' = [w EXCEPT ![t].pc = IF IsFast(t) THEN "socket" ELSE "heavy"]
  /\ UNCHANGED <<fleet, conns, cl, live, heavy, paused, dcsDown, others, main, closing, faults>>

TakeHeavy(t) ==
  /\ w[t].pc = "heavy" /\ Cardinality(HeavyHolders) < HeavyCap
  /\ w' = [w EXCEPT ![t].pc = "socket"]
  /\ UNCHANGED <<fleet, conns, cl, live, heavy, paused, dcsDown, others, main, closing, faults>>

\* A stop ends the wait for either semaphore.
GiveUp(t) ==
  /\ w[t].pc \in {"heavy", "socket"} /\ Stop
  /\ Return(t, FALSE)
  /\ UNCHANGED <<fleet, conns, cl, live, heavy, paused, dcsDown, others, main, closing, faults>>

\* AcquireSocket, and NewClient unless the session has a client.
TakeSocket(t) ==
  /\ w[t].pc = "socket" /\ ~SocketsFull
  /\ \/ /\ w' = [w EXCEPT ![t].pc = "collect"]
        /\ cl' = IF cl[w[t].conn] = "none" THEN [cl EXCEPT ![w[t].conn] = "open"] ELSE cl
        /\ UNCHANGED <<live, heavy, faults>>
     \/ /\ cl[w[t].conn] = "none" /\ Fault
        /\ SetBreaker(t, RecordFailure(Breaker(t), Threshold(t), TRUE))
        /\ Return(t, FALSE)
        /\ UNCHANGED cl
  /\ UNCHANGED <<fleet, conns, paused, dcsDown, others, main, closing>>

\* What a walk of a tier asks the device for (Collect).
Asked(t, tier) ==
  LET type == DeviceType[t] IN
  CASE tier = "fast"          -> {"uptime"}
    [] tier = "medium"        -> {"status", "addresses"}
    [] tier = "slow"          -> {"counters"} \cup CASE type = "server" -> {"hr", "ucd"}
                                                    [] type = "ups"    -> {"ups"}
                                                    [] type = "sensor" -> {"sensors"}
                                                    [] OTHER           -> {}
    [] tier = "environment"   -> CASE type = "sensor"               -> {"sensors"}
                                   [] type \in {"pdu", "floor_pdu"} -> {"pdu"}
                                   [] type = "generator"            -> {"generator"}
                                   [] type = "server"               -> {"chassis"}
                                   [] type = "ups"                  -> {"battery", "enterprise"}
                                   [] OTHER                         -> {}
    [] tier = "server_health" -> IF type = "server" THEN {"ucd"} ELSE {}
    [] tier = "topology"      -> IF type \in {"router", "switch", "firewall", "load_balancer", "oob_switch"}
                                 THEN {"lldp"} ELSE {}

Families(t) == Asked(t, Tiers[w[t].tier])

\* FAST answers: the packets are emitted, unless a stop interrupts them; when
\* the output blocks past the deadline the session is closed under the poll.
FastOk(t) ==
  /\ w[t].pc = "collect" /\ IsFast(t) /\ cl[w[t].conn] = "open"
  /\ SetBreaker(t, Closed)
  /\ \E ok \in {TRUE, ~Stop} : Return(t, ok)
  /\ \/ UNCHANGED <<cl, faults>>
     \/ Fault /\ cl' = [cl EXCEPT ![w[t].conn] = "dead"]
  /\ UNCHANGED <<fleet, conns, paused, dcsDown, others, main, closing>>

\* ProbeMgmt: the management agent answers on a socket of its own, or does not.
ProbeMgmt == IF MgmtPort THEN BOOLEAN ELSE {FALSE}

\* A plain timeout keeps the session, any other error drops it; a timeout does
\* not count when the management agent answers.
FastFails(t) ==
  /\ w[t].pc = "collect" /\ IsFast(t)
  /\ IF cl[w[t].conn] # "open" \/ Stop THEN UNCHANGED faults ELSE Fault
  /\ \E timeout \in {FALSE, cl[w[t].conn] = "open"}, expired \in BOOLEAN, alive \in ProbeMgmt :
       /\ cl' = IF timeout /\ ~expired /\ ~Stop THEN cl ELSE [cl EXCEPT ![w[t].conn] = "none"]
       /\ IF timeout /\ alive THEN UNCHANGED <<live, heavy>>
          ELSE SetBreaker(t, RecordFailure(Breaker(t), Threshold(t), cl[w[t].conn] # "cut"))
  /\ Return(t, FALSE)
  /\ UNCHANGED <<fleet, conns, paused, dcsDown, others, main, closing>>

\* A heavy tier keeps what its walks returned and reports no error, whatever
\* failed; a deadline closes the socket and leaves the client in the session, so
\* that the next FAST poll of the session fails on it.
HeavyCollected(t) ==
  LET c == w[t].conn IN
  /\ w[t].pc = "collect" /\ ~IsFast(t)
  /\ \E lost \in SUBSET Families(t), expired \in {FALSE, cl[c] = "open"}, ok \in {TRUE, ~Stop} :
       /\ cl[c] # "open" => lost = Families(t)
       /\ IF cl[c] = "open" /\ (lost # {} \/ expired) /\ ~Stop THEN Fault ELSE UNCHANGED faults
       /\ cl' = IF expired THEN [cl EXCEPT ![c] = "cut"] ELSE cl
       /\ IF lost = {} THEN Return(t, ok) ELSE ReturnPart(t, ok)
  /\ SetBreaker(t, Closed)
  /\ UNCHANGED <<fleet, conns, paused, dcsDown, others, main, closing>>

Poll(t) ==
  \/ Skip(t) \/ Admit(t) \/ Lock(t) \/ TakeHeavy(t) \/ GiveUp(t) \/ TakeSocket(t)
  \/ FastOk(t) \/ FastFails(t) \/ HeavyCollected(t)

-----------------------------------------------------------------------------
(* healthMonitor, health.Gate, discovery's sockets                         *)

HealthTick ==
  LET running == {t \in Targets : w[t].pc # "off"}
      open    == {t \in Targets : heavy[t].open} IN
  /\ ~Stop /\ running # {}
  /\ paused' = (paused \/ 10 * Cardinality(open) >= 3 * Cardinality(running))
  /\ UNCHANGED <<fleet, w, conns, cl, live, heavy, dcsDown, others, main, closing, faults>>

PauseOver ==
  /\ paused /\ paused' = FALSE
  /\ UNCHANGED <<fleet, w, conns, cl, live, heavy, dcsDown, others, main, closing, faults>>

GateCloses ==
  /\ ~dcsDown /\ Fault /\ dcsDown' = TRUE
  /\ UNCHANGED <<fleet, w, conns, cl, live, heavy, paused, others, main, closing>>

GateOpens ==
  /\ dcsDown /\ dcsDown' = FALSE
  /\ UNCHANGED <<fleet, w, conns, cl, live, heavy, paused, others, main, closing, faults>>

OtherAcquires ==
  /\ others < MaxOthers /\ ~SocketsFull /\ others' = others + 1
  /\ UNCHANGED <<fleet, w, conns, cl, live, heavy, paused, dcsDown, main, closing, faults>>

OtherReleases ==
  /\ others > 0 /\ others' = others - 1
  /\ UNCHANGED <<fleet, w, conns, cl, live, heavy, paused, dcsDown, main, closing, faults>>

-----------------------------------------------------------------------------
(* Run                                                                     *)

Cancel ==
  /\ main = "run" /\ main' = "drain"
  /\ UNCHANGED <<fleet, w, conns, cl, live, heavy, paused, dcsDown, others, closing, faults>>

\* The startup walkers have ended, or five seconds are over.
DrainOver ==
  /\ main = "drain" /\ main' = "close"
  /\ closing' = {k \in Keys : conns[k] # NoConn}
  /\ UNCHANGED <<fleet, w, conns, cl, live, heavy, paused, dcsDown, others, faults>>

\* closeConns, one session at a time, each under its lock.
CloseConn(k) ==
  /\ main = "close" /\ k \in closing
  /\ IF conns[k] = NoConn THEN UNCHANGED cl
     ELSE Unlocked(conns[k]) /\ cl' = [cl EXCEPT ![conns[k]] = "none"]
  /\ closing' = closing \ {k}
  /\ UNCHANGED <<fleet, w, conns, live, heavy, paused, dcsDown, others, main, faults>>

-----------------------------------------------------------------------------
Init ==
  /\ fleet \in Layouts
  /\ w = [t \in Targets |-> Walker(IF t \in Startup THEN "sleep" ELSE "off")]
  /\ conns = [k \in Keys |-> NoConn] /\ cl = [c \in Conns |-> "none"]
  /\ live = [t \in Targets |-> Closed] /\ heavy = [t \in Targets |-> Closed]
  /\ paused = FALSE /\ dcsDown = FALSE /\ others = 0
  /\ main = "run" /\ closing = {}
  /\ faults = 0

Walk(t) == Quit(t) \/ Release(t) \/ Free(t) \/ Poll(t)

Next ==
  \/ \E t \in Targets : AddTarget(t) \/ Walk(t) \/ CooldownOver(t)
  \/ HealthTick \/ PauseOver \/ GateCloses \/ GateOpens
  \/ OtherAcquires \/ OtherReleases
  \/ Cancel \/ DrainOver \/ \E k \in Keys : CloseConn(k)

Spec == Init /\ [][Next]_vars

\* Goroutines run, timers fire, DCS comes back and probes end.  A mutex and a
\* channel serve their waiters in turn: a walker that is offered its lock or its
\* slot again and again gets it.
FairSpec ==
  /\ Spec
  /\ \A t \in Targets : SF_vars(Walk(t)) /\ WF_vars(CooldownOver(t))
  /\ WF_vars(PauseOver) /\ WF_vars(GateOpens) /\ WF_vars(OtherReleases)

-----------------------------------------------------------------------------
(* Properties.                                                             *)

Pcs == {"off", "gate", "lock", "heavy", "socket", "collect", "sleep", "release", "free", "end"}

\* The poller's state is well formed, and two polls never use one session at
\* once: a client is not safe for concurrent use (targetConn 470-477).
TypeOK ==
  /\ fleet \in Layouts
  /\ \A t \in Targets :
       /\ w[t].pc \in Pcs /\ w[t].tier \in 1..Len(Tiers)
       /\ w[t].conn = NoConn <=> w[t].pc \notin {"lock", "heavy", "socket", "collect", "free"}
  /\ \A c \in Conns : Cardinality(Holders(c)) <= 1
  /\ conns \in [Keys -> {NoConn} \cup Conns] /\ cl \in [Conns -> {"none", "open", "dead", "cut"}]
  /\ live \in [Targets -> [fails : 0..FastThreshold, open : BOOLEAN, own : BOOLEAN]]
  /\ heavy \in [Targets -> [fails : 0..HeavyThreshold, open : BOOLEAN, own : BOOLEAN]]
  /\ paused \in BOOLEAN /\ dcsDown \in BOOLEAN
  /\ others \in 0..MaxOthers /\ Cardinality(SocketHolders) + others <= SocketCap
  /\ main \in {"run", "drain", "close"}
  /\ closing \subseteq Keys /\ faults \in 0..MaxFaults

\* Heavy walks never hold every socket, so that a liveness probe never waits for
\* them alone (heavySem, 587-598), unless there is one socket in all.
FastSlotKept ==
  SocketCap > 1 => Cardinality({t \in SocketHolders : ~IsFast(t)}) < SocketCap

\* The client of a session is never closed and forgotten under a poll that uses
\* it, though closeConn takes whole sessions out of the map and devices added
\* later may share them (closeConn 388-402, closeConns 529-541).
SessionNotPulled == \A t \in Targets : w[t].pc = "collect" => cl[w[t].conn] # "none"

\* A session is used by one poll at a time and stays until the poll is over, and
\* the sockets are never all in heavy polls (getConn, closeConn, heavySem).
SessionsSafe == TypeOK /\ SessionNotPulled /\ FastSlotKept

\* "Splitting them keeps a flapping heavy walk from ever silencing the liveness
\* heartbeat" (getBreaker, 849-852): a liveness breaker that is open has counted
\* a miss of the device itself, and not only of sessions that heavy polls had cut.
HeavyNeverSilences ==
  \A t \in Targets : live[t].open => live[t].own

\* Every device is asked for its liveness again and again until the program
\* stops, or a one-shot walk is over: no order of session locks, semaphores,
\* pauses, open breakers and outages of DCS leaves a walker waiting for ever.
HeartbeatGoesOn ==
  \A t \in Targets :
    []<>(Stop \/ w[t].pc = "off" \/ (w[t].pc = "collect" /\ IsFast(t))
              \/ (w[t].pc = "end" /\ Mode = "oneshot"))

\* "Returns true when the FAST liveness tier succeeded, i.e. the device answered
\* and was inventoried" (walkAll): a one-shot walker that ends has collected
\* every tier.
InventoriedBeforeDone ==
  \A t \in Targets :
    w[t].pc = "release" /\ Mode = "oneshot" => ~w[t].part
=============================================================================
