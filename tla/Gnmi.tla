-------------------------------- MODULE Gnmi --------------------------------
(***************************************************************************)
(* The collector's gNMI manager (fwEDR/internal/gnmi/manager.go, RunStream *)
(* and decodeNotification of client.go): one aggregated subscription to a  *)
(* proxy for all the devices it was made for, direct subscriptions to each *)
(* of them while the proxy cannot be reached, and the way back.            *)
(***************************************************************************)
EXTENDS FiniteSets, Integers

CONSTANTS
  Addresses,   \* management addresses
  HasProxy,    \* gnmi.proxy_addr is configured
  MaxOutages   \* bound: proxy outages and refusals

ASSUME GnmiAssumption == IsFiniteSet(Addresses) /\ HasProxy \in BOOLEAN /\ MaxOutages \in Nat

VARIABLES
  managed,  \* devices of the resolver: those with the gNMI capability
  mgr,      \* Run: "off", "evaluate", "proxy", "fallback", "drain", "backoff"
  direct,   \* direct subscription of each device: "none", "stream", "wait"
  proxy,    \* the proxy answers
  outages

gvars == <<managed, mgr, direct, proxy, outages>>

Outage == outages < MaxOutages /\ outages' = outages + 1

ProxyUp == HasProxy /\ proxy

ProxyFlaps ==
  /\ HasProxy /\ Outage /\ proxy' = ~proxy
  /\ UNCHANGED <<managed, mgr, direct>>

-----------------------------------------------------------------------------
(* Run                                                                     *)

\* NewManager: a manager of no device returns at once.
StartManager(S) ==
  /\ mgr = "off"
  /\ managed' = S /\ mgr' = IF S = {} THEN "end" ELSE "evaluate"
  /\ UNCHANGED <<direct, proxy, outages>>

StopManager ==
  /\ managed' = {} /\ mgr' = "off" /\ direct' = [d \in Addresses |-> "none"]
  /\ UNCHANGED <<proxy, outages>>

\* proxyUp: a TCP connection, before the subscription is opened.
Evaluate ==
  /\ mgr = "evaluate"
  /\ IF ProxyUp THEN mgr' = "proxy" /\ UNCHANGED direct
     ELSE /\ mgr' = "fallback"
          /\ direct' = [d \in Addresses |-> IF d \in managed THEN "wait" ELSE "none"]
  /\ UNCHANGED <<managed, proxy, outages>>

ProxyEndsMut ==
  /\ mgr = "proxy"
  /\ \/ ~ProxyUp /\ UNCHANGED outages
     \/ Outage
  /\ mgr' = "end"
  /\ UNCHANGED <<managed, direct, proxy>>

\* runProxy returns: the stream broke, or was refused though the port answered.
ProxyEnds ==
  /\ mgr = "proxy"
  /\ \/ ~ProxyUp /\ UNCHANGED outages
     \/ Outage
  /\ mgr' = "backoff"
  /\ UNCHANGED <<managed, direct, proxy>>

Backoff ==
  /\ mgr = "backoff" /\ mgr' = "evaluate"
  /\ UNCHANGED <<managed, direct, proxy, outages>>

-----------------------------------------------------------------------------
(* runFallback                                                             *)

\* RunStream of one device, while the fallback is not cancelled: an attempt that
\* fails is made again after a delay that doubles up to 32 seconds.
DirectOpens(d, up) ==
  /\ mgr = "fallback" /\ direct[d] = "wait" /\ up
  /\ direct' = [direct EXCEPT ![d] = "stream"]
  /\ UNCHANGED <<managed, mgr, proxy, outages>>

DirectBreaks(d, up) ==
  /\ mgr = "fallback" /\ direct[d] = "stream" /\ ~up
  /\ direct' = [direct EXCEPT ![d] = "wait"]
  /\ UNCHANGED <<managed, mgr, proxy, outages>>

ProbeTickMut ==
  /\ mgr = "fallback" /\ ProxyUp
  /\ mgr' = "backoff"
  /\ UNCHANGED <<managed, direct, proxy, outages>>

\* The ticker finds the proxy back: the direct subscriptions are cancelled.
ProbeTick ==
  /\ mgr = "fallback" /\ ProxyUp
  /\ mgr' = "drain"
  /\ UNCHANGED <<managed, direct, proxy, outages>>

\* A cancelled subscription returns from wherever it is.
DirectReturns(d) ==
  /\ mgr = "drain" /\ direct[d] # "none"
  /\ direct' = [direct EXCEPT ![d] = "none"]
  /\ UNCHANGED <<managed, mgr, proxy, outages>>

\* wg.Wait
FallbackDone ==
  /\ mgr = "drain" /\ \A d \in Addresses : direct[d] = "none"
  /\ mgr' = "backoff"
  /\ UNCHANGED <<managed, direct, proxy, outages>>

GnmiInit ==
  /\ managed = {} /\ mgr = "off" /\ direct = [d \in Addresses |-> "none"]
  /\ proxy \in BOOLEAN /\ outages = 0

Manage == Evaluate \/ ProxyEnds \/ Backoff \/ ProbeTick \/ FallbackDone

DirectStep(d, up) == DirectOpens(d, up) \/ DirectBreaks(d, up) \/ DirectReturns(d)

-----------------------------------------------------------------------------
(* Properties.                                                             *)

GnmiTypeOK ==
  /\ managed \subseteq Addresses
  /\ mgr \in {"off", "end", "evaluate", "proxy", "fallback", "drain", "backoff"}
  /\ direct \in [Addresses -> {"none", "stream", "wait"}]
  /\ proxy \in BOOLEAN /\ outages \in 0..MaxOutages

\* A device's telemetry arrives once: its direct subscription is over before the
\* aggregated one is opened (runFallback, cancel and wg.Wait).
OneFeed == mgr = "proxy" => \A d \in Addresses : direct[d] = "none"

\* decodeNotification: the packets of a device are emitted while it has a direct
\* stream, or the aggregated stream runs and the resolver has the device.
Streamed(d) == direct[d] = "stream" \/ (mgr = "proxy" /\ d \in managed)
=============================================================================
