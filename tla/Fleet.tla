-------------------------------- MODULE Fleet -------------------------------
(***************************************************************************)
(* Discovery and the gNMI manager together: the manager is made once, from *)
(* the targets the collector started with, when each of them has been      *)
(* walked once or the wait is over (startGNMIAfterDiscovery).  Devices are *)
(* streamed from the gNMI servers discovery probed.                        *)
(***************************************************************************)
EXTENDS Discovery, Gnmi

\* The resolver is asked for the addresses the targets have.
ASSUME FleetAssumption == Addresses = Ips

fleetVars == <<dvars, gvars>>

GnmiUp(ip) == dev[ip].up /\ dev[ip].gnmi

\* The wave of first walks is over, or the wait for it is: either way the same
\* targets, those with the capability, are handed over.
StartGNMI ==
  /\ phase \in {"run", "resweep"}
  /\ StartManager({t.ip : t \in {u \in targets : u.gnmi}})
  /\ UNCHANGED dvars

Restart == RestartCollector /\ StopManager

DeviceStreams(d) == DirectStep(d, GnmiUp(d))

FleetInit == DiscoveryInit /\ GnmiInit

FleetNext ==
  \/ DiscoveryNext /\ UNCHANGED gvars
  \/ Manage /\ UNCHANGED dvars
  \/ (\E d \in Addresses : DeviceStreams(d)) /\ UNCHANGED dvars
  \/ ProxyFlaps /\ UNCHANGED dvars
  \/ StartGNMI
  \/ Restart

\* Probes return, walkers run, timers fire; a broken stream is noticed.  Devices,
\* the proxy and the collector stop changing when the bounds are reached.
FleetSpec == FleetInit /\ [][FleetNext]_fleetVars

FleetFairSpec ==
  /\ FleetInit /\ [][FleetNext]_fleetVars
  /\ WF_fleetVars(Sweeping /\ UNCHANGED gvars)
  /\ \A ip \in Ips : WF_fleetVars((\E r \in walkers : r.ip = ip /\ Walk(r)) /\ UNCHANGED gvars)
  /\ WF_fleetVars(StartGNMI)
  /\ WF_fleetVars(Manage /\ UNCHANGED dvars)
  /\ \A d \in Addresses : WF_fleetVars(DeviceStreams(d) /\ UNCHANGED dvars)

-----------------------------------------------------------------------------
(* Properties.                                                             *)

\* The fleet's state is well formed, and nothing but a target of the start is
\* ever streamed: the manager is not told of devices found later (NewManager).
FleetTypeOK ==
  /\ DiscoveryTypeOK /\ GnmiTypeOK
  /\ \A d \in Addresses : Streamed(d) => d \in {t.ip : t \in targets}

\* Only targets of the start are streamed, and each of them once at a time.
StreamsSound == FleetTypeOK /\ OneFeed

\* Every managed device is streamed again and again, however the proxy and the
\* devices come and go, as long as one of the two ways is there; through a proxy
\* that answers, even when the device itself does not.
StreamsGoOn ==
  \A d \in Addresses : []<>(d \in managed => Streamed(d) \/ (~ProxyUp /\ ~GnmiUp(d)))
=============================================================================
