------------------------------- MODULE Bacnet -------------------------------
(***************************************************************************)
(* The collector's BACnet manager (fwEDR/internal/bacnet/manager.go,       *)
(* client.go): a loop that reads every device in turn and, beside it, a    *)
(* listener of change-of-value notifications with a subscription renewed   *)
(* on a ticker.  Both emit what they learn: a metric each time, an alarm   *)
(* event when the alarm they see differs from the last one either saw.     *)
(*                                                                         *)
(* A device has one alarm object, and the chunk of objects that holds it   *)
(* is read with one request.  Datagrams are lost, late and reordered.      *)
(***************************************************************************)
EXTENDS Integers, Sequences, FiniteSets

CONSTANTS
  Bindings,    \* the devices, in the order they are read
  Plant,       \* those of the chiller plant: read, never subscribed
  FirstAlarms, \* devices whose alarm is active at the beginning
  UseCOV,      \* bacnet.use_cov
  Retries,     \* bacnet.retries
  ChannelCap,  \* capacity of the fan-in's channel, as far as it is free
  MaxToggles,  \* bound: alarms that change
  MaxFaults    \* bound: lost or late datagrams, subscriptions and sockets lost

Devices == {Bindings[i] : i \in 1..Len(Bindings)}
Threads == {"poll", "cov"}
InvokeIds == 0..(MaxFaults + 1)

\* Run returns at once when there is no device to read.
ASSUME BacnetAssumption ==
  /\ Bindings \in Seq(Devices) /\ Bindings # <<>>
  /\ Plant \subseteq Devices /\ FirstAlarms \subseteq Devices /\ UseCOV \in BOOLEAN
  /\ Retries \in Nat /\ ChannelCap \in Nat \ {0}
  /\ MaxToggles \in Nat /\ MaxFaults \in Nat

VARIABLES
  alarm,    \* the alarm of each device
  sub,      \* the device holds a subscription of the listener
  net,      \* datagrams on their way to the manager or in its sockets
  conn,     \* devices whose socket is open
  th,       \* the two goroutines: program counter, device, value emitted, and the
            \* invoke id and attempts of the request
  at,       \* poll loop: index of the device it reads
  last,     \* lastAlarm
  out,      \* packets in the channel
  balance,  \* history: raises less clears of each device sent before the stop
  stop,     \* the context is cancelled
  toggles, faults

device == <<alarm, sub>>
loop   == <<conn, at>>
sent   == <<out, balance>>
vars   == <<device, net, loop, th, last, sent, stop, toggles, faults>>

Fault == faults < MaxFaults /\ faults' = faults + 1

Push(d, v)      == [to |-> "cov", dev |-> d, id |-> 0, val |-> v]
Reply(d, id, v) == [to |-> "poll", dev |-> d, id |-> id, val |-> v]
For(g)          == {m \in net : m.to = g}

Thread(pc)  == [pc |-> pc, dev |-> Bindings[1], val |-> FALSE, id |-> 0, tries |-> 0]
Goto(g, pc) == th' = [th EXCEPT ![g].pc = pc]

-----------------------------------------------------------------------------
(* Devices and network.                                                    *)

Toggle(d) ==
  /\ toggles < MaxToggles /\ toggles' = toggles + 1
  /\ alarm' = [alarm EXCEPT ![d] = ~@]
  /\ net' = IF sub[d] THEN net \cup {Push(d, ~alarm[d])} ELSE net
  /\ UNCHANGED <<sub, loop, th, last, sent, stop, faults>>

\* The device restarts, or a renewal came too late.
Lapse(d) ==
  /\ sub[d] /\ Fault /\ sub' = [sub EXCEPT ![d] = FALSE]
  /\ UNCHANGED <<alarm, net, loop, th, last, sent, stop, toggles>>

Lose(m) ==
  /\ Fault /\ net' = net \ {m}
  /\ UNCHANGED <<device, loop, th, last, sent, stop, toggles>>

-----------------------------------------------------------------------------
(* emit, by the goroutine g                                                *)

\* send: blocks while the channel is full; dropped when the program stops.
Send == \/ out < ChannelCap /\ out' = out + 1
        \/ stop /\ UNCHANGED out

\* What g does after an emission: the next device, or the next datagram.
Resume(g) == th' = [th EXCEPT ![g] = Thread(IF g = "poll" THEN "next" ELSE "listen")]

EmitMetric(g) ==
  /\ th[g].pc = "metric" /\ Send /\ Goto(g, "decide")
  /\ UNCHANGED <<device, net, loop, last, balance, stop, toggles, faults>>

AlarmChangedMut(d, active) == active

\* alarmChanged, under alarmMu: the state is recorded whether it changed or not.
AlarmChanged(d, active) == active # last[d]

Decide(g) ==
  LET d == th[g].dev IN
  /\ th[g].pc = "decide"
  /\ last' = [last EXCEPT ![d] = th[g].val]
  /\ IF AlarmChanged(d, th[g].val) THEN Goto(g, "event") ELSE Resume(g)
  /\ UNCHANGED <<device, net, loop, sent, stop, toggles, faults>>

Edge(active) == IF active THEN 1 ELSE -1

\* The event leaves after the lock is gone.
EmitEvent(g) ==
  /\ th[g].pc = "event" /\ Send /\ Resume(g)
  /\ balance' = IF stop THEN balance ELSE [balance EXCEPT ![th[g].dev] = @ + Edge(th[g].val)]
  /\ UNCHANGED <<device, net, loop, last, stop, toggles, faults>>

Emit(g) == EmitMetric(g) \/ Decide(g) \/ EmitEvent(g)

\* The fan-in takes a packet.
Consume ==
  /\ out > 0 /\ out' = out - 1
  /\ UNCHANGED <<device, net, loop, th, last, balance, stop, toggles, faults>>

-----------------------------------------------------------------------------
(* Run, pollAll, readObjects                                               *)

\* A pass, at once and then on the ticker.
StartPass ==
  /\ th["poll"].pc = "idle"
  /\ Goto("poll", "next")
  /\ at' = 0
  /\ UNCHANGED <<device, net, conn, last, sent, stop, toggles, faults>>

\* nextInvoke: an id no datagram in flight carries; the counter's low byte comes
\* round after 256 requests, when those are long gone.
NextInvoke == CHOOSE i \in InvokeIds : \A m \in For("poll") : m.id # i

\* The next device, dialled on first use; a failed dial leaves it out of the pass.
NextDevice ==
  /\ th["poll"].pc = "next" /\ ~stop /\ at < Len(Bindings)
  /\ at' = at + 1
  /\ LET d == Bindings[at'] IN
       \/ /\ conn' = conn \cup {d}
          /\ th' = [th EXCEPT !["poll"] = [Thread("ask") EXCEPT !.dev = d, !.id = NextInvoke]]
          /\ UNCHANGED faults
       \/ d \notin conn /\ Fault /\ UNCHANGED <<conn, th>>
  /\ UNCHANGED <<device, net, last, sent, stop, toggles>>

\* sendAndDecode: the request reaches the device, which answers what it sees then;
\* or it cannot be written, and there is no data of this device.
Ask ==
  LET d == th["poll"].dev IN
  /\ th["poll"].pc = "ask"
  /\ \/ /\ net' = net \cup {Reply(d, th["poll"].id, alarm[d])}
        /\ th' = [th EXCEPT !["poll"].pc = "read", !["poll"].tries = @ + 1]
        /\ UNCHANGED faults
     \/ Fault /\ Resume("poll") /\ UNCHANGED net
  /\ UNCHANGED <<device, loop, last, sent, stop, toggles>>

\* The id compared without its mask: no answer is ever recognised.
ReadMut ==
  /\ th["poll"].pc = "read"
  /\ \E m \in {x \in For("poll") : x.dev = th["poll"].dev} :
       /\ net' = net \ {m}
       /\ Goto("poll", "read")
  /\ UNCHANGED <<device, loop, last, sent, stop, toggles, faults>>

\* The answer to this request, of whichever attempt; others are skipped.
Read ==
  /\ th["poll"].pc = "read"
  /\ \E m \in {x \in For("poll") : x.dev = th["poll"].dev} :
       /\ net' = net \ {m}
       /\ th' = IF m.id # th["poll"].id THEN th
                ELSE [th EXCEPT !["poll"] = [Thread("metric") EXCEPT !.dev = m.dev, !.val = m.val]]
  /\ UNCHANGED <<device, loop, last, sent, stop, toggles, faults>>

\* No answer by the deadline: the same request again, or no data of this device.
Timeout ==
  /\ th["poll"].pc = "read"
  /\ IF \E m \in For("poll") : m.dev = th["poll"].dev THEN Fault ELSE UNCHANGED faults
  /\ IF th["poll"].tries <= Retries THEN Goto("poll", "ask") ELSE Resume("poll")
  /\ UNCHANGED <<device, net, loop, last, sent, stop, toggles>>

EndPass ==
  /\ th["poll"].pc = "next" /\ (stop \/ at = Len(Bindings))
  /\ Goto("poll", "idle")
  /\ UNCHANGED <<device, net, loop, last, sent, stop, toggles, faults>>

\* closeConns
EndPoll ==
  /\ th["poll"].pc = "idle" /\ stop
  /\ conn' = {} /\ Goto("poll", "end")
  /\ UNCHANGED <<device, net, at, last, sent, stop, toggles, faults>>

-----------------------------------------------------------------------------
(* runCOV                                                                  *)

\* subscribe: a request to every device but those of the plant, each on its own;
\* a device that gets it sends its state at once.
Subscribe ==
  \E got \in SUBSET (Devices \ Plant) :
    /\ IF got = Devices \ Plant THEN UNCHANGED faults ELSE Fault
    /\ sub' = [d \in Devices |-> sub[d] \/ d \in got]
    /\ net' = net \cup {Push(d, alarm[d]) : d \in got}

StartCOV ==
  /\ th["cov"].pc = "idle"
  /\ \/ Subscribe /\ Goto("cov", "listen")
     \/ Fault /\ Goto("cov", "end") /\ UNCHANGED <<sub, net>>
  /\ UNCHANGED <<alarm, loop, last, sent, stop, toggles>>

\* The renewal ticker has a goroutine of its own.
Renew ==
  /\ th["cov"].pc \notin {"idle", "end"} /\ ~stop
  /\ Subscribe
  /\ UNCHANGED <<alarm, loop, th, last, sent, stop, toggles>>

Notified ==
  /\ th["cov"].pc = "listen"
  /\ \E m \in For("cov") :
       /\ net' = net \ {m}
       /\ th' = [th EXCEPT !["cov"] = [Thread("metric") EXCEPT !.dev = m.dev, !.val = m.val]]
  /\ UNCHANGED <<device, loop, last, sent, stop, toggles, faults>>

EndCOV ==
  /\ th["cov"].pc = "listen" /\ stop /\ Goto("cov", "end")
  /\ UNCHANGED <<device, net, loop, last, sent, stop, toggles, faults>>

-----------------------------------------------------------------------------
Cancel ==
  /\ ~stop /\ stop' = TRUE
  /\ UNCHANGED <<device, net, loop, th, last, sent, toggles, faults>>

Init ==
  /\ alarm = [d \in Devices |-> d \in FirstAlarms]
  /\ sub = [d \in Devices |-> FALSE] /\ net = {} /\ conn = {}
  /\ th = [g \in Threads |-> Thread(IF g = "cov" /\ ~UseCOV THEN "end" ELSE "idle")]
  /\ at = 0
  /\ last = [d \in Devices |-> FALSE]
  /\ out = 0 /\ balance = [d \in Devices |-> 0]
  /\ stop = FALSE /\ toggles = 0 /\ faults = 0

PollLoop == StartPass \/ NextDevice \/ Ask \/ Read \/ Timeout \/ EndPass \/ EndPoll \/ Emit("poll")
Listener == StartCOV \/ Notified \/ EndCOV \/ Emit("cov")

Next ==
  \/ \E d \in Devices : Toggle(d) \/ Lapse(d)
  \/ \E m \in net : Lose(m)
  \/ PollLoop \/ Listener \/ Renew
  \/ Consume \/ Cancel

Spec == Init /\ [][Next]_vars

\* Goroutines run, the fan-in takes what is sent, and a full channel serves the
\* goroutines that wait for it in turn.
FairSpec == Spec /\ SF_vars(PollLoop) /\ SF_vars(Listener) /\ WF_vars(Consume)

-----------------------------------------------------------------------------
(* Properties.                                                             *)

TypeOK ==
  /\ alarm \in [Devices -> BOOLEAN] /\ sub \in [Devices -> BOOLEAN] /\ last \in [Devices -> BOOLEAN]
  /\ net \subseteq [to : Threads, dev : Devices, id : InvokeIds, val : BOOLEAN]
  /\ conn \subseteq Devices /\ at \in 0..Len(Bindings)
  /\ th \in [Threads -> [pc : {"idle", "next", "ask", "read", "listen", "metric", "decide", "event", "end"},
                         dev : Devices, val : BOOLEAN, id : InvokeIds, tries : 0..(Retries + 1)]]
  /\ out \in 0..ChannelCap /\ balance \in [Devices -> -1..2]
  /\ stop \in BOOLEAN /\ toggles \in 0..MaxToggles /\ faults \in 0..MaxFaults

\* Raises decided and not yet sent, less the clears.
PendingOf(g, d) == IF th[g].pc = "event" /\ th[g].dev = d THEN Edge(th[g].val) ELSE 0
Pending(d) == PendingOf("poll", d) + PendingOf("cov", d)

\* An event is fired "once per edge" (alarmChanged): whatever the loop and the
\* listener learn, late or twice, the raises and clears of a device, sent or about
\* to be, differ by the alarm recorded last; and a plant device is never notified.
OncePerEdge ==
  /\ TypeOK
  /\ ~stop => \A d \in Devices : balance[d] + Pending(d) = (IF last[d] THEN 1 ELSE 0)
  /\ \A m \in For("cov") : m.dev \notin Plant

\* In the end the alarm recorded is the device's, through lost and late answers, a
\* notification that comes after a newer reading, and subscriptions lost: the loop
\* makes up for the listener (pollAll, runCOV).
AlarmKnown == \A d \in Devices : <>[](stop \/ last[d] = alarm[d])
=============================================================================
