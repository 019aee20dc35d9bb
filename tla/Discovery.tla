----------------------------- MODULE Discovery ------------------------------
(***************************************************************************)
(* How the collector finds its devices (fwEDR/main.go, internal/discovery, *)
(* poller.AddTarget): at start the targets of the configuration, or those  *)
(* of targets.json while it is fresh, or those of an SNMP sweep, which is  *)
(* saved; then, if an interval is configured, a sweep now and again that   *)
(* adds what it has not seen.                                              *)
(* Devices come up, go down and are renamed at any time, probes are lost,  *)
(* registrations are dropped, and the collector may restart.               *)
(*                                                                         *)
(* A target is known by the name the device gave when it was probed; the   *)
(* hub knows a device by its management address.                           *)
(***************************************************************************)
EXTENDS Integers, FiniteSets

CONSTANTS
  Ips,          \* management addresses of the subnets
  Names,        \* names devices may have
  FirstName,    \* name of each device at the beginning
  Unnamed,      \* what a device without a sysName says
  Agent,        \* the address probes are sent to, the name of unnamed devices
  Configured,   \* targets of the topology file and the configuration
  Seed,         \* addresses whose answer the sweep waits for, at most one
  Hours,        \* values of discovery.interval_hours; 0, the default, is no rediscovery
  Heartbeat,    \* walkers keep asking for the name after the first answer
  GnmiEnabled,  \* gnmi.enabled
  MaxChanges,   \* bound: devices that come up, go down or are renamed
  MaxLosses     \* bound: lost probes, registrations and saves, and restarts

Target == [ip : Ips, name : Names \cup {Agent}, gnmi : BOOLEAN]

ASSUME DiscoveryAssumption ==
  /\ IsFiniteSet(Ips) /\ Seed \subseteq Ips /\ Configured \subseteq Target
  /\ FirstName \in [Ips -> Names \cup {Unnamed}]
  /\ Unnamed \notin Names /\ Agent \notin Names
  /\ Hours \subseteq Nat
  /\ Heartbeat \in BOOLEAN /\ GnmiEnabled \in BOOLEAN
  /\ MaxChanges \in Nat /\ MaxLosses \in Nat

VARIABLES
  hours,      \* discovery.interval_hours
  dev,        \* the devices: up, their name, their gNMI port reachable
  file,       \* targets.json: its targets, and whether it is fresh
  phase,      \* "load", "sweep", "run", "resweep"
  left,       \* addresses the sweep has still to probe
  found,      \* targets of the sweep
  targets,    \* targets the collectors are started with
  walkers,    \* runTarget: the target, its key in running, its name now, and
              \* whether it has answered
  known,      \* names the rediscovery loop has seen
  announced,  \* addresses the hub has a device for
  changes, losses

fleet  == <<hours, file, phase, left, found, targets, walkers, known, announced>>
dvars  == <<dev, fleet, changes, losses>>

Change == changes < MaxChanges /\ changes' = changes + 1
Loss   == losses < MaxLosses /\ losses' = losses + 1

-----------------------------------------------------------------------------
(* The devices.                                                            *)

Flap(ip) ==
  /\ Change
  /\ \/ dev' = [dev EXCEPT ![ip].up = ~@]
     \/ dev' = [dev EXCEPT ![ip].gnmi = ~@]
     \/ \E n \in Names \cup {Unnamed} : n # dev[ip].name /\ dev' = [dev EXCEPT ![ip].name = n]
  /\ UNCHANGED <<fleet, losses>>

-----------------------------------------------------------------------------
(* Sweep                                                                   *)

\* expandSubnets; or nothing, when the seed has not answered for a minute.
SweepBegins(next) ==
  /\ phase' = next /\ found' = {}
  /\ \/ left' = Ips
     \/ (\E ip \in Seed : ~dev[ip].up) /\ left' = {}

\* snmpGet: a device without a name is called after the address that was asked.
HostName(ip) == IF dev[ip].name = Unnamed THEN Agent ELSE dev[ip].name

ProbedAs(ip) == [ip |-> ip, name |-> HostName(ip), gnmi |-> GnmiEnabled /\ dev[ip].gnmi]

\* probe: one try, in a worker of its own.
Probe(ip) ==
  /\ phase \in {"sweep", "resweep"} /\ ip \in left
  /\ left' = left \ {ip}
  /\ IF dev[ip].up THEN \/ found' = found \cup {ProbedAs(ip)} /\ UNCHANGED losses
                        \/ Loss /\ UNCHANGED found
     ELSE UNCHANGED <<found, losses>>
  /\ UNCHANGED <<hours, dev, file, phase, targets, walkers, known, announced, changes>>

-----------------------------------------------------------------------------
(* run: targets, registration, the poller's walkers.                       *)

Walker(t) == [ip |-> t.ip, key |-> t.name, name |-> t.name, ok |-> FALSE]

\* emitRegistrationPackets: a packet that finds the channel full is dropped.
Register(S) ==
  \/ announced' = announced \cup {t.ip : t \in S} /\ UNCHANGED losses
  \/ \E D \in SUBSET S : D # {} /\ Loss /\ announced' = announced \cup {t.ip : t \in S \ D}

Start(S) ==
  /\ phase' = "run" /\ targets' = S
  /\ walkers' = {Walker(t) : t \in S}
  /\ known' = {t.name : t \in S}
  /\ Register(S)

\* Load: a file that is missing, damaged or a day old is as good as none.
Load == IF file.fresh THEN file.targets ELSE {}

\* Save: a temporary file and a rename, the old file or the new one is there; an
\* error is only logged.
Save(S) == file' = [targets |-> S, fresh |-> TRUE] \/ UNCHANGED file

\* Load, unless the configuration has targets; a sweep when it has none either, or
\* when the collector is started with --rediscover.
LoadTargets ==
  /\ phase = "load"
  /\ \E forced \in BOOLEAN :
       IF Configured # {} THEN Start(Configured) /\ UNCHANGED <<left, found>>
       ELSE IF ~forced /\ Load # {} THEN Start(Load) /\ UNCHANGED <<left, found>>
       ELSE SweepBegins("sweep") /\ UNCHANGED <<targets, walkers, known, announced, losses>>
  /\ UNCHANGED <<hours, dev, file, changes>>

\* What was found is saved, however little it is.
SweepDone ==
  /\ phase = "sweep" /\ left = {}
  /\ Start(found)
  /\ IF found = {} THEN UNCHANGED file ELSE Save(found)
  /\ found' = {}
  /\ UNCHANGED <<hours, dev, left, changes>>

\* A walker asks its device: an answer tells the hub of it and renames the target.
Walk(r) ==
  /\ r \in walkers /\ (Heartbeat \/ ~r.ok) /\ dev[r.ip].up
  /\ walkers' = (walkers \ {r}) \cup
       {[r EXCEPT !.ok = TRUE, !.name = IF dev[r.ip].name = Unnamed THEN @ ELSE dev[r.ip].name]}
  /\ announced' = announced \cup {r.ip}
  /\ UNCHANGED <<hours, dev, file, phase, left, found, targets, known, changes, losses>>

-----------------------------------------------------------------------------
(* rediscoveryLoop                                                         *)

\* The loop is started only for subnets and an interval.
Rediscovers == Ips # {} /\ hours > 0

Rediscover ==
  /\ phase = "run" /\ Rediscovers
  /\ SweepBegins("resweep")
  /\ UNCHANGED <<hours, dev, file, targets, walkers, known, announced, changes, losses>>

\* AddTarget: not a second time under one key.
AddTarget(S) == walkers' = walkers \cup {Walker(t) : t \in {u \in S : \A r \in walkers : r.key # u.name}}

NewTargetsMut == IF known = {} THEN found ELSE {}

\* The targets whose name is new; of those that share one, the first.
NewTargets == {t \in found : t.name \notin known}

ResweepDone ==
  /\ phase = "resweep" /\ left = {}
  /\ \E S \in SUBSET NewTargets :
       /\ \A t \in NewTargets : \E u \in S : u.name = t.name
       /\ \A t, u \in S : t.name = u.name => t = u
       /\ known' = known \cup {t.name : t \in S}
       /\ Register(S)
       /\ AddTarget(S)
  /\ phase' = "run"
  /\ found' = {}
  /\ UNCHANGED <<hours, dev, file, left, targets, changes>>

-----------------------------------------------------------------------------
\* The file is a day old.
Expire ==
  /\ file.fresh /\ file' = [file EXCEPT !.fresh = FALSE]
  /\ UNCHANGED <<hours, dev, phase, left, found, targets, walkers, known, announced, changes, losses>>

\* The collector stops and starts again: targets.json is all that is left.
RestartCollector ==
  /\ Loss
  /\ phase' = "load" /\ left' = {} /\ found' = {}
  /\ targets' = {} /\ walkers' = {} /\ known' = {}
  /\ UNCHANGED <<hours, dev, file, announced, changes>>

DiscoveryInit ==
  /\ hours \in Hours
  /\ \E up \in [Ips -> BOOLEAN] : dev = [ip \in Ips |-> [up |-> up[ip], name |-> FirstName[ip], gnmi |-> TRUE]]
  /\ file = [targets |-> {}, fresh |-> FALSE]
  /\ phase = "load" /\ left = {} /\ found = {}
  /\ targets = {} /\ walkers = {} /\ known = {} /\ announced = {}
  /\ changes = 0 /\ losses = 0

Sweeping == (\E ip \in Ips : Probe(ip)) \/ SweepDone \/ ResweepDone \/ Rediscover \/ LoadTargets

DiscoveryNext ==
  \/ \E ip \in Ips : Flap(ip)
  \/ Sweeping
  \/ \E r \in walkers : Walk(r)
  \/ Expire

-----------------------------------------------------------------------------
(* Properties.                                                             *)

DiscoveryTypeOK ==
  /\ hours \in Hours
  /\ dev \in [Ips -> [up : BOOLEAN, name : Names \cup {Unnamed}, gnmi : BOOLEAN]]
  /\ file.targets \subseteq Target /\ file.fresh \in BOOLEAN
  /\ phase \in {"load", "sweep", "run", "resweep"} /\ left \subseteq Ips
  /\ found \subseteq Target /\ targets \subseteq Target
  /\ known \subseteq Names \cup {Agent} /\ announced \subseteq Ips
  /\ changes \in 0..MaxChanges /\ losses \in 0..MaxLosses

\* Another device's walker was started under the name of this one.
Shadowed(ip) == \E r \in walkers : r.ip # ip /\ r.key = HostName(ip)

\* Nothing looks for the device any more: the start did not find it, and there is no
\* rediscovery, so that only a restart finds it.
Missed(ip) == ~Rediscovers /\ \A r \in walkers : r.ip # ip

\* A device that is up is found, or found again after a lost probe, a dropped
\* registration, a partial sweep kept in targets.json, a rename or a restart, and
\* the hub hears of it; unless the seed is down, or its name was another device's
\* when that one was added.  Without rediscovery, as shipped, this is so of the
\* devices the start found (Sweep, rediscoveryLoop, emitRegistrationPackets).
EveryDeviceAnnounced ==
  \A ip \in Ips :
    []<>(\/ ~dev[ip].up \/ ip \in announced
         \/ Shadowed(ip) \/ Missed(ip) \/ \E s \in Seed : ~dev[s].up)

\* "Idempotent, duplicates are ignored" (AddTarget): a device has one walker.
OneWalkerPerDevice == \A r, q \in walkers : r.ip = q.ip => r = q
=============================================================================
