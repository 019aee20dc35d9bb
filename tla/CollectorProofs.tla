-------------------------- MODULE CollectorProofs ---------------------------
(***************************************************************************)
(* Proofs about the collector's sources.  OncePerEdge of the BACnet        *)
(* manager, for any devices, number of retries, channel capacity, alarms   *)
(* that change and datagrams that fail; and StreamsSound of discovery and  *)
(* the gNMI manager together, for any addresses, names, targets and        *)
(* bounds.                                                                 *)
(***************************************************************************)
EXTENDS Bacnet, Fleet, FiniteSetTheorems, TLAPS

-----------------------------------------------------------------------------
(* The inductive invariant.                                                *)

\* While the program runs, what was sent and what is about to be sent for a device
\* adds up to its last alarm.
Balanced == ~stop => \A d \in Devices : balance[d] + Pending(d) = (IF last[d] THEN 1 ELSE 0)

\* No device of the plant is subscribed or heard from.
PlantSilent ==
  /\ \A d \in Devices : sub[d] => d \notin Plant
  /\ \A m \in For("cov") : m.dev \notin Plant

\* A request is sent again only while attempts are left.
AttemptsLeft == th["poll"].pc = "ask" => th["poll"].tries <= Retries

\* Answers in flight: one for the request that waits, and one for every fault.
Others == {m \in For("poll") : m.dev # th["poll"].dev}
InFlight ==
  /\ IsFiniteSet(net)
  /\ th["poll"].pc # "read" => Cardinality(For("poll")) <= faults
  /\ th["poll"].pc = "read" => Cardinality(For("poll")) <= faults + 1 /\ Cardinality(Others) <= faults

IInv == TypeOK /\ Balanced /\ PlantSilent /\ AttemptsLeft /\ InFlight

-----------------------------------------------------------------------------
(* Frames of the goroutines.                                               *)

PCs == {"idle", "next", "ask", "read", "listen", "metric", "decide", "event", "end"}
Frame == [pc : PCs, dev : Devices, val : BOOLEAN, id : InvokeIds, tries : 0..(Retries + 1)]
Datagram == [to : Threads, dev : Devices, id : InvokeIds, val : BOOLEAN]

LEMMA BindingsAreDevices ==
  /\ Len(Bindings) \in Nat \ {0} /\ \A i \in 1..Len(Bindings) : Bindings[i] \in Devices
  BY BacnetAssumption DEF Devices

LEMMA ThreadTyped == ASSUME NEW pc \in PCs PROVE Thread(pc) \in Frame
<1>1. Bindings[1] \in Devices /\ 0 \in InvokeIds /\ 0 \in 0..(Retries + 1)
  BY BindingsAreDevices, BacnetAssumption DEF InvokeIds
<1>2. QED
  BY <1>1 DEF Thread, Frame

\* A jump changes nothing but the program counter of one goroutine.
LEMMA GotoStep ==
  ASSUME TypeOK, NEW g \in Threads, NEW pc \in PCs, Goto(g, pc)
  PROVE  /\ th' \in [Threads -> Frame]
         /\ th'[g] = [th[g] EXCEPT !.pc = pc]
         /\ th'[g].pc = pc /\ th'[g].dev = th[g].dev /\ th'[g].val = th[g].val /\ th'[g].tries = th[g].tries
         /\ \A h \in Threads : h # g => th'[h] = th[h]
<1>1. th \in [Threads -> Frame] /\ th' = [th EXCEPT ![g] = [th[g] EXCEPT !.pc = pc]]
  BY DEF TypeOK, Goto, Frame, PCs
<1>2. th[g] \in Frame
  BY <1>1
<1>3. LET f == [th[g] EXCEPT !.pc = pc] IN
        f \in Frame /\ f.pc = pc /\ f.dev = th[g].dev /\ f.val = th[g].val /\ f.tries = th[g].tries
  BY <1>2 DEF Frame
<1>4. QED
  BY <1>1, <1>3

\* The start of a goroutine's next frame.
LEMMA FrameStep ==
  ASSUME TypeOK, NEW g \in Threads, NEW f \in Frame, th' = [th EXCEPT ![g] = f]
  PROVE  /\ th' \in [Threads -> Frame] /\ th'[g] = f
         /\ \A h \in Threads : h # g => th'[h] = th[h]
  BY DEF TypeOK, Frame, PCs

LEMMA ResumeStep ==
  ASSUME TypeOK, NEW g \in Threads, Resume(g)
  PROVE  /\ th' \in [Threads -> Frame] /\ th'[g].pc \in {"next", "listen"}
         /\ \A h \in Threads : h # g => th'[h] = th[h]
<1>1. PICK pc \in {"next", "listen"} : th' = [th EXCEPT ![g] = Thread(pc)]
  BY DEF Resume
<1>2. Thread(pc) \in Frame /\ Thread(pc).pc = pc
  BY ThreadTyped DEF PCs, Thread
<1>3. QED
  BY <1>1, <1>2, FrameStep

-----------------------------------------------------------------------------
(* What leaves each part of the invariant alone.                           *)

\* Steps that neither decide nor send an event.
LEMMA QuietEvents ==
  ASSUME Balanced,
         \A g \in Threads : th[g].pc = "event" \/ th'[g].pc = "event" => th'[g] = th[g],
         last' = last, balance' = balance, stop => stop'
  PROVE  Balanced'
<1>1. \A g \in Threads, d \in Devices : PendingOf(g, d)' = PendingOf(g, d)
  BY DEF PendingOf, Edge
<1>2. \A d \in Devices : Pending(d)' = Pending(d)
  BY <1>1 DEF Pending, Threads
<1>3. QED
  BY <1>2, Zenon DEF Balanced

\* Steps of others than the poll loop, and losses.
LEMMA QuietNet ==
  ASSUME InFlight, faults \in Nat, faults' \in Nat, faults' >= faults, IsFiniteSet(net'),
         For("poll")' \subseteq For("poll"),
         th'["poll"] = th["poll"] \/ (th["poll"].pc # "read" /\ th'["poll"].pc # "read")
  PROVE  InFlight'
<1>2. /\ Cardinality(For("poll")') <= Cardinality(For("poll"))
      /\ Cardinality(For("poll")) \in Nat /\ Cardinality(For("poll")') \in Nat
  BY FS_Subset, FS_CardinalityType DEF InFlight, For
<1>3. CASE th'["poll"] = th["poll"]
  <2>1. IsFiniteSet(Others) /\ Others' \subseteq Others
    BY <1>3, FS_Subset DEF InFlight, For, Others
  <2>2. Cardinality(Others') <= Cardinality(Others) /\ Cardinality(Others) \in Nat /\ Cardinality(Others') \in Nat
    BY <2>1, FS_Subset, FS_CardinalityType
  <2>3. QED
    BY <1>2, <1>3, <2>2 DEF InFlight
<1>4. CASE th["poll"].pc # "read" /\ th'["poll"].pc # "read"
  BY <1>2, <1>4 DEF InFlight
<1>5. QED
  BY <1>3, <1>4

-----------------------------------------------------------------------------
(* Initial states and actions.                                             *)

LEMMA InitIInv == Init => IInv
<1> SUFFICES ASSUME Init PROVE IInv
  OBVIOUS
<1>1. th \in [Threads -> Frame] /\ \A g \in Threads : th[g].pc \in {"end", "idle"}
  <2>1. \A pc \in {"end", "idle"} : Thread(pc) \in Frame /\ Thread(pc).pc = pc
    BY ThreadTyped DEF PCs, Thread
  <2>2. th = [g \in Threads |-> Thread(IF g = "cov" /\ ~UseCOV THEN "end" ELSE "idle")]
    BY DEF Init
  <2>3. QED
    BY <2>1, <2>2
<1>2. TypeOK
  <2>1. /\ at \in 0..Len(Bindings) /\ out \in 0..ChannelCap /\ balance \in [Devices -> -1..2]
        /\ toggles \in 0..MaxToggles /\ faults \in 0..MaxFaults
    BY BindingsAreDevices, BacnetAssumption DEF Init
  <2>2. alarm \in [Devices -> BOOLEAN] /\ sub \in [Devices -> BOOLEAN] /\ last \in [Devices -> BOOLEAN]
    BY DEF Init
  <2>3. stop \in BOOLEAN /\ conn \subseteq Devices
    BY Zenon DEF Init
  <2>4. net \subseteq Datagram
    BY DEF Init
  <2>5. QED
    BY <1>1, <2>1, <2>2, <2>3, <2>4 DEF TypeOK, Frame, PCs, Datagram
<1>3. \A d \in Devices : Pending(d) = 0 /\ balance[d] = 0 /\ ~last[d]
  BY <1>1 DEF Pending, PendingOf, Threads, Init
<1>4. Balanced
  BY <1>3 DEF Balanced
<1>5. AttemptsLeft
  BY <1>1 DEF AttemptsLeft, Threads
<1>6. PlantSilent
  BY DEF PlantSilent, Init, For
<1>7. InFlight
  <2>1. For("poll") = {} /\ net = {} /\ th["poll"].pc # "read" /\ faults = 0
    BY <1>1 DEF Init, For, Threads
  <2>2. QED
    BY <2>1, FS_EmptySet DEF InFlight
<1>8. QED
  BY <1>2, <1>4, <1>5, <1>6, <1>7 DEF IInv

\* Devices and network, the fan-in, the cancellation: no goroutine moves.
LEMMA WorldIInv ==
  ASSUME IInv,
         \/ \E d \in Devices : Toggle(d) \/ Lapse(d)
         \/ \E m \in net : Lose(m)
         \/ Consume \/ Cancel
  PROVE  IInv'
<1> USE DEF IInv
<1>1. th' = th /\ last' = last /\ balance' = balance /\ (stop => stop') /\ conn' = conn /\ at' = at
  BY DEF Toggle, Lapse, Lose, Consume, Cancel, loop, sent
<1>2. stop' \in BOOLEAN /\ faults' \in 0..MaxFaults /\ faults' >= faults /\ toggles' \in 0..MaxToggles
      /\ faults \in Nat /\ faults' \in Nat
  <2>1. stop' \in BOOLEAN
    BY DEF Toggle, Lapse, Lose, Consume, Cancel, TypeOK
  <2>2. faults' = faults \/ (faults < MaxFaults /\ faults' = faults + 1)
    BY DEF Toggle, Lapse, Lose, Consume, Cancel, Fault
  <2>3. toggles' = toggles \/ (toggles < MaxToggles /\ toggles' = toggles + 1)
    BY DEF Toggle, Lapse, Lose, Consume, Cancel
  <2>4. QED
    BY <2>1, <2>2, <2>3, BacnetAssumption DEF TypeOK
<1>3. out' \in 0..ChannelCap
  BY BacnetAssumption DEF Toggle, Lapse, Lose, Consume, Cancel, TypeOK, sent
<1>4. alarm' \in [Devices -> BOOLEAN] /\ sub' \in [Devices -> BOOLEAN] /\ \A d \in Devices : sub'[d] => sub[d]
  BY DEF Toggle, Lapse, Lose, Consume, Cancel, TypeOK, device
<1>5. /\ net' \subseteq Datagram /\ IsFiniteSet(net') /\ For("poll")' \subseteq For("poll")
      /\ \A m \in For("cov")' : m.dev \notin Plant
  <2>1. net \subseteq Datagram /\ IsFiniteSet(net)
    BY DEF TypeOK, Datagram, InFlight
  <2>2. CASE \E d \in Devices : Toggle(d)
    <3>1. PICK d \in Devices : Toggle(d)
      BY <2>2
    <3>2. (~alarm[d]) \in BOOLEAN /\ 0 \in InvokeIds
      BY BacnetAssumption DEF InvokeIds
    <3>3. Push(d, ~alarm[d]) \in Datagram /\ Push(d, ~alarm[d]).to = "cov" /\ Push(d, ~alarm[d]).dev = d
      BY <3>2 DEF Push, Datagram, Threads
    <3>4. net' = net \/ (net' = net \cup {Push(d, ~alarm[d])} /\ sub[d])
      BY <3>1 DEF Toggle
    <3>5. QED
      BY <2>1, <3>3, <3>4, FS_AddElement DEF For, PlantSilent
  <2>3. CASE ~\E d \in Devices : Toggle(d)
    <3>1. net' \subseteq net
      BY <2>3 DEF Lapse, Lose, Consume, Cancel
    <3>2. QED
      BY <2>1, <3>1, FS_Subset DEF For, PlantSilent
  <2>4. QED
    BY <2>2, <2>3
<1>6. TypeOK'
  BY <1>1, <1>2, <1>3, <1>4, <1>5 DEF TypeOK, Datagram
<1>7. Balanced'
  BY <1>1, QuietEvents
<1>8. InFlight'
  BY <1>1, <1>2, <1>5, QuietNet
<1>9. PlantSilent' /\ AttemptsLeft'
  BY <1>1, <1>4, <1>5 DEF PlantSilent, AttemptsLeft
<1>10. QED
  BY <1>6, <1>7, <1>8, <1>9

\* emit: the metric, the decision under the lock, the event.
LEMMA EmitIInv ==
  ASSUME IInv, NEW g \in Threads, Emit(g)
  PROVE  IInv'
<1> USE DEF IInv
<1>0. th \in [Threads -> Frame] /\ th[g].dev \in Devices /\ th[g].val \in BOOLEAN
  BY DEF TypeOK, Frame, PCs
<1>1. PICK d \in Devices, v \in BOOLEAN : d = th[g].dev /\ v = th[g].val
  BY <1>0
<1>2. th[g].pc \in {"metric", "decide", "event"} /\ UNCHANGED <<device, net, loop, stop, toggles, faults>>
  BY DEF Emit, EmitMetric, Decide, EmitEvent
<1>3. /\ th' \in [Threads -> Frame] /\ th'[g].pc \in {"next", "listen", "decide", "event"}
      /\ \A h \in Threads : h # g => th'[h] = th[h]
  BY GotoStep, ResumeStep DEF Emit, EmitMetric, Decide, EmitEvent, PCs
<1>4. out' \in 0..ChannelCap
  <2>1. out' = out \/ (out < ChannelCap /\ out' = out + 1)
    BY DEF Emit, EmitMetric, Decide, EmitEvent, Send, sent
  <2>2. QED
    BY <2>1, BacnetAssumption DEF TypeOK
<1>5. last' \in [Devices -> BOOLEAN]
  BY <1>1 DEF Emit, EmitMetric, Decide, EmitEvent, TypeOK
<1>7. balance' \in [Devices -> -1..2] /\ Balanced'
  <2>1. CASE EmitMetric(g)
    <3>1. last' = last /\ balance' = balance /\ th'[g].pc = "decide" /\ th[g].pc = "metric"
      BY <2>1, GotoStep DEF EmitMetric, PCs
    <3>2. QED
      BY <1>2, <1>3, <3>1, QuietEvents DEF TypeOK
  <2>2. CASE Decide(g) /\ v = last[d]
    <3>1. last' = last /\ balance' = balance /\ Resume(g)
      BY <1>1, <2>2 DEF Decide, AlarmChanged, TypeOK, sent
    <3>2. th'[g].pc # "event" /\ th[g].pc # "event"
      BY <2>2, <3>1, ResumeStep DEF Decide
    <3>3. QED
      BY <1>2, <1>3, <3>1, <3>2, QuietEvents DEF TypeOK
  <2>3. CASE Decide(g) /\ v # last[d]
    <3>1. /\ last' = [last EXCEPT ![d] = v] /\ balance' = balance /\ stop' = stop
          /\ Goto(g, "event") /\ th[g].pc = "decide"
      BY <1>1, <2>3 DEF Decide, AlarmChanged, TypeOK, sent
    <3>2. th'[g].pc = "event" /\ th'[g].dev = d /\ th'[g].val = v
      BY <1>1, <3>1, GotoStep DEF PCs
    <3>3. \A e \in Devices : Pending(e)' = Pending(e) + (IF e = d THEN Edge(v) ELSE 0)
      BY <1>1, <1>3, <3>1, <3>2 DEF Pending, PendingOf, Edge, Threads
    <3>4. \A e \in Devices : Pending(e) \in Int /\ balance[e] \in Int
      <4>1. \A e \in Devices : Pending(e) \in Int
        BY DEF Pending, PendingOf, Edge
      <4>2. balance \in [Devices -> -1..2] /\ -1..2 \subseteq Int
        BY DEF TypeOK
      <4>3. \A e \in Devices : balance[e] \in -1..2
        BY <4>2
      <4>4. QED
        BY <4>1, <4>2, <4>3
    <3>5. \A e \in Devices : e # d => last'[e] = last[e]
      BY <1>1, <3>1 DEF TypeOK
    <3>6. (IF last'[d] THEN 1 ELSE 0) = (IF last[d] THEN 1 ELSE 0) + Edge(v)
      BY <1>1, <2>3, <3>1 DEF TypeOK, Edge
    <3>7. ASSUME ~stop', NEW e \in Devices
          PROVE  balance'[e] + Pending(e)' = (IF last'[e] THEN 1 ELSE 0)
      <4>1. balance[e] + Pending(e) = (IF last[e] THEN 1 ELSE 0) /\ balance'[e] = balance[e]
        BY <3>1, <3>7 DEF Balanced
      <4>2. CASE e = d
        <5>1. Edge(v) \in Int
          BY DEF Edge
        <5>2. Pending(e)' = Pending(e) + Edge(v)
          BY <3>3, <4>2
        <5>3. QED
          BY <3>4, <3>6, <4>1, <4>2, <5>1, <5>2
      <4>3. CASE e # d
        BY <3>3, <3>4, <3>5, <4>1, <4>3
      <4>4. QED
        BY <4>2, <4>3
    <3>8. QED
      BY <3>1, <3>7 DEF Balanced, TypeOK
  <2>4. CASE EmitEvent(g)
    <3>1. /\ last' = last /\ stop' = stop /\ th[g].pc = "event" /\ Resume(g)
          /\ balance' = IF stop THEN balance ELSE [balance EXCEPT ![d] = @ + Edge(v)]
      BY <1>1, <2>4 DEF EmitEvent
    <3>2. th'[g].pc # "event"
      BY <3>1, ResumeStep
    <3>3. CASE stop
      BY <3>1, <3>3 DEF Balanced, TypeOK
    <3>4. CASE ~stop
      <4>1. balance \in [Devices -> -1..2] /\ Edge(v) \in Int
        BY DEF TypeOK, Edge
      <4>2. \A e \in Devices : Pending(e) \in Int /\ Pending(e)' = Pending(e) - (IF e = d THEN Edge(v) ELSE 0)
        BY <1>1, <1>3, <3>1, <3>2 DEF Pending, PendingOf, Edge, Threads
      <4>3. \A e \in Devices : balance'[e] = balance[e] + (IF e = d THEN Edge(v) ELSE 0)
        BY <3>1, <3>4, <4>1
      <4>4. \A e \in Devices : balance'[e] + Pending(e)' = balance[e] + Pending(e)
        BY <4>1, <4>2, <4>3
      <4>5. Balanced'
        BY <3>1, <3>4, <4>4 DEF Balanced
      <4>6. Pending(d)' \in -1..1
        BY <1>3, <3>2 DEF Pending, PendingOf, Edge, Threads
      <4>7. balance'[d] \in -1..2
        <5>1. balance'[d] \in Int
          BY <1>1, <4>1, <4>3
        <5>2. balance'[d] + Pending(d)' \in 0..1
          BY <1>1, <3>1, <3>4, <4>5 DEF Balanced
        <5>3. QED
          BY <4>6, <5>1, <5>2
      <4>8. balance' \in [Devices -> -1..2]
        BY <3>1, <3>4, <4>1, <4>7
      <4>9. QED
        BY <4>5, <4>8
    <3>5. QED
      BY <3>3, <3>4
  <2>5. QED
    BY <2>1, <2>2, <2>3, <2>4 DEF Emit
<1>8. TypeOK'
  BY <1>2, <1>3, <1>4, <1>5, <1>7 DEF TypeOK, Frame, PCs, device, loop
<1>9. InFlight'
  <2>1. faults \in Nat /\ faults' \in Nat /\ faults' >= faults /\ IsFiniteSet(net')
          /\ For("poll")' \subseteq For("poll")
    BY <1>2, BacnetAssumption DEF TypeOK, InFlight, For
  <2>2. th'["poll"] = th["poll"] \/ (th["poll"].pc # "read" /\ th'["poll"].pc # "read")
    BY <1>2, <1>3 DEF Threads
  <2>3. QED
    BY <2>1, <2>2, QuietNet
<1>10. PlantSilent' /\ AttemptsLeft'
  BY <1>2, <1>3 DEF PlantSilent, For, AttemptsLeft, device, Threads
<1>11. QED
  BY <1>7, <1>8, <1>9, <1>10

\* Fewer answers than invoke ids are in flight when a request is made.
LEMMA NextInvokeFree ==
  ASSUME IInv, th["poll"].pc # "read"
  PROVE  NextInvoke \in InvokeIds
<1> DEFINE P == For("poll")
           used == {m.id : m \in P}
<1>1. IsFiniteSet(P) /\ Cardinality(P) <= MaxFaults /\ P \subseteq Datagram
  <2>1. IsFiniteSet(P) /\ Cardinality(P) \in Nat
    BY FS_Subset, FS_CardinalityType DEF IInv, InFlight, For
  <2>2. Cardinality(P) <= faults /\ faults <= MaxFaults /\ faults \in Int
    BY BacnetAssumption DEF IInv, InFlight, TypeOK
  <2>3. QED
    BY <2>1, <2>2, BacnetAssumption DEF IInv, TypeOK, For, Datagram
<1>2. IsFiniteSet(used) /\ Cardinality(used) <= Cardinality(P) /\ Cardinality(used) \in Nat /\ Cardinality(P) \in Nat
  <2> DEFINE idOf == [m \in P |-> m.id]
  <2>1. idOf \in Surjection(P, used)
    BY DEF Surjection
  <2>2. QED
    BY <1>1, <2>1, FS_Surjection, FS_CardinalityType
<1>3. IsFiniteSet(InvokeIds) /\ Cardinality(InvokeIds) = MaxFaults + 2
  <2>1. 0 \in Int /\ MaxFaults + 1 \in Int /\ ~(0 > MaxFaults + 1) /\ (MaxFaults + 1) - 0 + 1 = MaxFaults + 2
    BY BacnetAssumption
  <2>2. QED
    BY <2>1, FS_Interval DEF InvokeIds
<1>4. ~(InvokeIds \subseteq used)
  <2>1. SUFFICES ASSUME InvokeIds \subseteq used PROVE FALSE
    OBVIOUS
  <2>2. Cardinality(InvokeIds) <= Cardinality(used)
    BY <1>2, <2>1, FS_Subset
  <2>3. QED
    BY <1>1, <1>2, <1>3, <2>2, BacnetAssumption
<1>5. \E i \in InvokeIds : \A m \in P : m.id # i
  BY <1>4
<1>6. QED
  BY <1>5 DEF NextInvoke

\* The poll loop between two emissions.
LEMMA PollIInv ==
  ASSUME IInv, StartPass \/ NextDevice \/ Ask \/ Read \/ Timeout \/ EndPass \/ EndPoll
  PROVE  IInv'
<1> USE DEF IInv
<1> DEFINE pc == th["poll"].pc
           asked == th["poll"].dev
<1>1. /\ th \in [Threads -> Frame] /\ net \subseteq Datagram /\ IsFiniteSet(net)
      /\ "poll" \in Threads /\ th["poll"] \in Frame /\ asked \in Devices
  BY DEF TypeOK, Frame, PCs, Datagram, Threads, InFlight
<1>2. /\ pc \in {"idle", "next", "ask", "read"}
      /\ last' = last /\ balance' = balance /\ stop' = stop /\ out' = out
      /\ alarm' = alarm /\ sub' = sub /\ toggles' = toggles
  BY DEF StartPass, NextDevice, Ask, Read, Timeout, EndPass, EndPoll, device, sent
<1>3. faults' \in 0..MaxFaults /\ faults' >= faults /\ faults \in Nat /\ faults' \in Nat
  <2>1. faults' = faults \/ (faults < MaxFaults /\ faults' = faults + 1)
    BY DEF StartPass, NextDevice, Ask, Read, Timeout, EndPass, EndPoll, Fault
  <2>2. QED
    BY <2>1, BacnetAssumption DEF TypeOK
<1>4. at' \in 0..Len(Bindings) /\ conn' \subseteq Devices
  <2>1. CASE NextDevice
    <3>1. at' \in 1..Len(Bindings)
      BY <2>1, BindingsAreDevices DEF NextDevice, TypeOK
    <3>2. Bindings[at'] \in Devices
      BY <3>1, BindingsAreDevices
    <3>3. conn' = conn \cup {Bindings[at']} \/ conn' = conn
      BY <2>1 DEF NextDevice
    <3>4. QED
      BY <3>1, <3>2, <3>3, BindingsAreDevices DEF TypeOK
  <2>2. CASE ~NextDevice
    <3>1. (at' = at \/ at' = 0) /\ (conn' = conn \/ conn' = {})
      BY <2>2 DEF StartPass, Ask, Read, Timeout, EndPass, EndPoll, loop
    <3>2. QED
      BY <3>1, BindingsAreDevices DEF TypeOK
  <2>3. QED
    BY <2>1, <2>2
<1> DEFINE P == For("poll")
           Kept == /\ th' \in [Threads -> Frame] /\ th'["poll"].pc # "event" /\ th'["cov"] = th["cov"]
                   /\ AttemptsLeft' /\ net' \subseteq Datagram /\ For("cov")' = For("cov") /\ InFlight'
<1>5. IsFiniteSet(P) /\ Cardinality(P) \in Nat
  BY <1>1, FS_Subset, FS_CardinalityType DEF For
<1>6. ASSUME StartPass \/ EndPass \/ EndPoll PROVE Kept
  <2>1. PICK next \in {"next", "idle", "end"} : Goto("poll", next) /\ pc # "read" /\ net' = net /\ faults' = faults
    BY <1>6 DEF StartPass, EndPass, EndPoll
  <2>2. /\ th' \in [Threads -> Frame] /\ th'["poll"].pc = next /\ th'["cov"] = th["cov"]
    BY <2>1, GotoStep, <1>1 DEF PCs, Threads
  <2>3. InFlight'
    BY <1>1, <1>3, <2>1, <2>2, QuietNet DEF For
  <2>4. QED
    BY <1>1, <2>1, <2>2, <2>3 DEF For, AttemptsLeft
<1>7. ASSUME NextDevice PROVE Kept
  <2>1. pc = "next" /\ net' = net
    BY <1>7 DEF NextDevice
  <2>2. \/ th' = th
        \/ \E d \in Devices : th' = [th EXCEPT !["poll"] = [Thread("ask") EXCEPT !.dev = d, !.id = NextInvoke]]
    <3>1. at' \in 1..Len(Bindings)
      BY <1>7, BindingsAreDevices DEF NextDevice, TypeOK
    <3>2. QED
      BY <1>7, <3>1, BindingsAreDevices DEF NextDevice
  <2>3. /\ th' \in [Threads -> Frame] /\ th'["poll"].pc \in {"next", "ask"} /\ th'["cov"] = th["cov"]
        /\ th'["poll"].pc = "ask" => th'["poll"].tries = 0
    <3>1. CASE th' = th
      BY <1>1, <2>1, <3>1
    <3>2. CASE \E d \in Devices : th' = [th EXCEPT !["poll"] = [Thread("ask") EXCEPT !.dev = d, !.id = NextInvoke]]
      <4>1. PICK d \in Devices : th' = [th EXCEPT !["poll"] = [Thread("ask") EXCEPT !.dev = d, !.id = NextInvoke]]
        BY <3>2
      <4> DEFINE f == [Thread("ask") EXCEPT !.dev = d, !.id = NextInvoke]
      <4>2. Thread("ask") \in Frame /\ NextInvoke \in InvokeIds
        BY <2>1, ThreadTyped, NextInvokeFree DEF PCs
      <4>3. f \in Frame /\ f.pc = "ask" /\ f.tries = 0
        BY <4>2 DEF Frame, Thread
      <4>4. QED
        BY <1>1, <4>1, <4>3, FrameStep DEF Threads
    <3>3. QED
      BY <2>2, <3>1, <3>2
  <2>4. InFlight'
    BY <1>1, <1>3, <2>1, <2>3, QuietNet DEF For
  <2>5. QED
    BY <1>1, <2>1, <2>3, <2>4, BacnetAssumption DEF For, AttemptsLeft
<1>8. ASSUME Ask PROVE Kept
  <2>1. CASE Resume("poll") /\ net' = net
    <3>1. th' \in [Threads -> Frame] /\ th'["poll"].pc \in {"next", "listen"} /\ th'["cov"] = th["cov"]
      BY <2>1, <1>1, ResumeStep DEF Threads
    <3>2. InFlight'
      BY <1>1, <1>3, <1>8, <2>1, <3>1, QuietNet DEF For, Ask
    <3>3. QED
      BY <1>1, <2>1, <3>1, <3>2 DEF For, AttemptsLeft
  <2>2. CASE ~(Resume("poll") /\ net' = net)
    <3> DEFINE r == Reply(asked, th["poll"].id, alarm[asked])
               f == [th["poll"] EXCEPT !.pc = "read", !.tries = @ + 1]
    <3>1. /\ net' = net \cup {r} /\ faults' = faults /\ pc = "ask"
          /\ th' = [th EXCEPT !["poll"] = f]
      BY <1>1, <1>8, <2>2 DEF Ask
    <3>2. r \in Datagram /\ r.to = "poll" /\ r.dev = asked
      BY <1>1 DEF TypeOK, Reply, Datagram, Frame, Threads
    <3>3. f \in Frame /\ f.pc = "read" /\ f.dev = asked
      <4>1. th["poll"].tries \in 0..Retries
        BY <1>1, <3>1, BacnetAssumption DEF AttemptsLeft, Frame
      <4>2. th["poll"].tries + 1 \in 0..(Retries + 1)
        BY <4>1, BacnetAssumption
      <4>3. QED
        BY <1>1, <4>2 DEF Frame, PCs
    <3>4. th' \in [Threads -> Frame] /\ th'["poll"] = f /\ th'["cov"] = th["cov"]
      BY <1>1, <3>1, <3>3, FrameStep DEF Threads
    <3>5. P' = P \cup {r} /\ For("cov")' = For("cov") /\ IsFiniteSet(net')
      BY <1>1, <3>1, <3>2, FS_AddElement DEF For
    <3>6. Cardinality(P) <= faults
      BY <3>1 DEF InFlight
    <3>7. Cardinality(P') <= faults' + 1
      <4> DEFINE n == Cardinality(P)
                 k == Cardinality(P')
      <4>1. k = n \/ k = n + 1
        BY <1>5, <3>5, FS_AddElement
      <4>2. n \in Nat /\ n <= faults /\ faults' = faults
        BY <1>5, <3>1, <3>6
      <4> HIDE DEF n, k
      <4>3. k <= faults' + 1
        BY <1>3, <4>1, <4>2
      <4>4. QED
        BY <4>3 DEF k
    <3>8. Others' \subseteq P
      BY <3>2, <3>3, <3>4, <3>5 DEF Others
    <3>9. Cardinality(Others') <= faults'
      BY <1>3, <1>5, <3>1, <3>6, <3>8, FS_Subset, FS_CardinalityType
    <3>10. InFlight'
      BY <3>3, <3>4, <3>5, <3>7, <3>9 DEF InFlight
    <3>11. QED
      BY <1>1, <3>1, <3>2, <3>3, <3>4, <3>5, <3>10 DEF AttemptsLeft
  <2>3. QED
    BY <2>1, <2>2
<1>9. ASSUME Read PROVE Kept
  <2>1. PICK m \in P : /\ m.dev = asked /\ net' = net \ {m} /\ faults' = faults /\ pc = "read"
                       /\ th' = IF m.id # th["poll"].id THEN th
                                ELSE [th EXCEPT !["poll"] = [Thread("metric") EXCEPT !.dev = m.dev, !.val = m.val]]
    BY <1>9 DEF Read
  <2>2. m \in net /\ m.to = "poll" /\ m.val \in BOOLEAN
    BY <1>1 DEF For, Datagram
  <2>3. P' = P \ {m} /\ For("cov")' = For("cov") /\ IsFiniteSet(net') /\ net' \subseteq Datagram
    BY <1>1, <2>1, <2>2, FS_RemoveElement DEF For
  <2>4. CASE th' = th
    BY <1>1, <1>3, <2>1, <2>3, <2>4, QuietNet DEF AttemptsLeft
  <2>5. CASE th' # th
    <3> DEFINE f == [Thread("metric") EXCEPT !.dev = m.dev, !.val = m.val]
    <3>1. f \in Frame /\ f.pc = "metric"
      <4>1. Thread("metric") \in Frame
        BY ThreadTyped DEF PCs
      <4>2. QED
        BY <1>1, <2>1, <2>2, <4>1 DEF Frame, Thread
    <3>2. th' \in [Threads -> Frame] /\ th'["poll"] = f /\ th'["cov"] = th["cov"]
      BY <1>1, <2>1, <2>5, <3>1, FrameStep DEF Threads
    <3>3. Cardinality(P') = Cardinality(P) - 1
      BY <1>5, <2>3, FS_RemoveElement
    <3>4. Cardinality(P') <= faults'
      BY <1>3, <1>5, <2>1, <3>3 DEF InFlight
    <3>5. InFlight'
      BY <2>3, <3>1, <3>2, <3>4 DEF InFlight
    <3>6. QED
      BY <2>3, <3>1, <3>2, <3>5 DEF AttemptsLeft
  <2>6. QED
    BY <2>4, <2>5
<1>10. ASSUME Timeout PROVE Kept
  <2>1. pc = "read" /\ net' = net /\ Cardinality(P) <= faults + 1 /\ Cardinality(Others) <= faults
    BY <1>10 DEF Timeout, InFlight
  <2>2. Cardinality(P) <= faults'
    <3>1. CASE \E m \in P : m.dev = asked
      BY <1>3, <1>5, <1>10, <2>1, <3>1 DEF Timeout, Fault
    <3>2. CASE ~\E m \in P : m.dev = asked
      <4>1. Others = P
        BY <3>2 DEF Others
      <4>2. QED
        BY <1>3, <1>5, <2>1, <4>1
    <3>3. QED
      BY <3>1, <3>2
  <2>3. CASE th["poll"].tries <= Retries
    <3>1. Goto("poll", "ask")
      BY <1>10, <2>3 DEF Timeout
    <3>2. /\ th' \in [Threads -> Frame] /\ th'["poll"].pc = "ask" /\ th'["poll"].tries = th["poll"].tries
          /\ th'["cov"] = th["cov"]
      BY <1>1, <3>1, GotoStep DEF PCs, Threads
    <3>3. QED
      BY <1>1, <2>1, <2>2, <2>3, <3>2 DEF For, AttemptsLeft, InFlight
  <2>4. CASE ~(th["poll"].tries <= Retries)
    <3>1. Resume("poll")
      BY <1>10, <2>4 DEF Timeout
    <3>2. th' \in [Threads -> Frame] /\ th'["poll"].pc \in {"next", "listen"} /\ th'["cov"] = th["cov"]
      BY <1>1, <3>1, ResumeStep DEF Threads
    <3>3. QED
      BY <1>1, <2>1, <2>2, <3>2 DEF For, AttemptsLeft, InFlight
  <2>5. QED
    BY <2>3, <2>4
<1>11. Kept
  BY <1>6, <1>7, <1>8, <1>9, <1>10
<1>12. TypeOK'
  BY <1>2, <1>3, <1>4, <1>11 DEF TypeOK, Frame, PCs, Datagram
<1>13. Balanced'
  BY <1>2, <1>11, QuietEvents DEF Threads
<1>14. PlantSilent'
  BY <1>2, <1>11 DEF PlantSilent
<1>15. QED
  BY <1>11, <1>12, <1>13, <1>14

\* The listener and the renewal of subscriptions.
LEMMA ListenIInv ==
  ASSUME IInv, StartCOV \/ Notified \/ EndCOV \/ Renew
  PROVE  IInv'
<1> USE DEF IInv
<1>1. /\ th \in [Threads -> Frame] /\ net \subseteq Datagram /\ IsFiniteSet(net)
      /\ "cov" \in Threads /\ th["cov"] \in Frame
  BY DEF TypeOK, Frame, PCs, Datagram, Threads, InFlight
<1>2. /\ last' = last /\ balance' = balance /\ stop' = stop /\ out' = out
      /\ alarm' = alarm /\ toggles' = toggles /\ conn' = conn /\ at' = at
  BY DEF StartCOV, Notified, EndCOV, Renew, device, sent, loop
<1>3. faults' \in 0..MaxFaults /\ faults' >= faults /\ faults \in Nat /\ faults' \in Nat
  <2>1. faults' = faults \/ (faults < MaxFaults /\ faults' = faults + 1)
    BY DEF StartCOV, Notified, EndCOV, Renew, Subscribe, Fault
  <2>2. QED
    BY <2>1, BacnetAssumption DEF TypeOK
<1>4. /\ th' \in [Threads -> Frame] /\ th'["poll"] = th["poll"]
      /\ th'["cov"] = th["cov"] \/ (th["cov"].pc # "event" /\ th'["cov"].pc # "event")
  <2>1. CASE th' = th
    BY <1>1, <2>1
  <2>2. CASE \E pc \in {"listen", "end"} : Goto("cov", pc)
    BY <1>1, <2>2, GotoStep DEF PCs, Threads, StartCOV, Notified, EndCOV, Renew
  <2>3. CASE Notified
    <3>1. PICK m \in For("cov") : th' = [th EXCEPT !["cov"] = [Thread("metric") EXCEPT !.dev = m.dev, !.val = m.val]]
      BY <2>3 DEF Notified
    <3> DEFINE f == [Thread("metric") EXCEPT !.dev = m.dev, !.val = m.val]
    <3>2. f \in Frame /\ f.pc = "metric"
      <4>1. Thread("metric") \in Frame /\ m.dev \in Devices /\ m.val \in BOOLEAN
        BY <1>1, ThreadTyped DEF PCs, For, Datagram
      <4>2. QED
        BY <4>1 DEF Frame, Thread
    <3>3. QED
      BY <1>1, <2>3, <3>1, <3>2, FrameStep DEF Threads, Notified
  <2>4. QED
    BY <2>1, <2>2, <2>3 DEF StartCOV, EndCOV, Renew
<1>5. /\ net' \subseteq Datagram /\ IsFiniteSet(net') /\ For("poll")' \subseteq For("poll")
      /\ \A m \in For("cov")' : m.dev \notin Plant
      /\ sub' \in [Devices -> BOOLEAN] /\ \A d \in Devices : sub'[d] => d \notin Plant
  <2>1. CASE Subscribe
    <3>1. PICK got \in SUBSET (Devices \ Plant) :
            /\ sub' = [d \in Devices |-> sub[d] \/ d \in got]
            /\ net' = net \cup {Push(d, alarm[d]) : d \in got}
      BY <2>1 DEF Subscribe
    <3>2. \A d \in got : /\ Push(d, alarm[d]) \in Datagram /\ Push(d, alarm[d]).to = "cov"
                         /\ Push(d, alarm[d]).dev \notin Plant
      <4>1. 0 \in InvokeIds
        BY BacnetAssumption DEF InvokeIds
      <4>2. QED
        BY <4>1 DEF Push, Datagram, Threads, TypeOK
    <3>3. IsFiniteSet({Push(d, alarm[d]) : d \in got})
      <4>1. IsFiniteSet(got)
        <5>1. IsFiniteSet(Devices)
          <6>1. IsFiniteSet(1..Len(Bindings))
            BY BindingsAreDevices, FS_Interval
          <6>2. [i \in 1..Len(Bindings) |-> Bindings[i]] \in Surjection(1..Len(Bindings), Devices)
            BY DEF Surjection, Devices
          <6>3. QED
            BY <6>1, <6>2, FS_Surjection
        <5>2. QED
          BY <5>1, FS_Subset
      <4>2. [d \in got |-> Push(d, alarm[d])] \in Surjection(got, {Push(d, alarm[d]) : d \in got})
        BY DEF Surjection
      <4>3. QED
        BY <4>1, <4>2, FS_Surjection
    <3>4. IsFiniteSet(net')
      BY <1>1, <3>1, <3>3, FS_Union
    <3>5. QED
      BY <1>1, <3>1, <3>2, <3>4 DEF PlantSilent, For, TypeOK
  <2>2. CASE net' \subseteq net /\ sub' = sub
    BY <1>1, <2>2, FS_Subset DEF PlantSilent, For, TypeOK
  <2>3. QED
    BY <2>1, <2>2 DEF StartCOV, Notified, EndCOV, Renew, device
<1>6. TypeOK'
  BY <1>2, <1>3, <1>4, <1>5 DEF TypeOK, Frame, PCs, Datagram
<1>7. Balanced'
  BY <1>2, <1>4, QuietEvents DEF Threads
<1>8. InFlight'
  BY <1>3, <1>4, <1>5, QuietNet
<1>9. PlantSilent' /\ AttemptsLeft'
  BY <1>4, <1>5 DEF PlantSilent, AttemptsLeft
<1>10. QED
  BY <1>6, <1>7, <1>8, <1>9

-----------------------------------------------------------------------------
(* The theorem.                                                            *)

LEMMA NextIInv == IInv /\ [Next]_vars => IInv'
<1> SUFFICES ASSUME IInv, [Next]_vars PROVE IInv'
  OBVIOUS
<1>1. CASE \/ \E d \in Devices : Toggle(d) \/ Lapse(d)
           \/ \E m \in net : Lose(m)
           \/ Consume \/ Cancel
  BY <1>1, WorldIInv
<1>2. CASE \E g \in Threads : Emit(g)
  BY <1>2, EmitIInv
<1>3. CASE StartPass \/ NextDevice \/ Ask \/ Read \/ Timeout \/ EndPass \/ EndPoll
  BY <1>3, PollIInv
<1>4. CASE StartCOV \/ Notified \/ EndCOV \/ Renew
  BY <1>4, ListenIInv
<1>5. CASE UNCHANGED vars
  BY <1>5 DEF vars, device, loop, sent, IInv, TypeOK, Balanced, Pending, PendingOf, PlantSilent, AttemptsLeft,
              InFlight, Others, For
<1>6. QED
  BY <1>1, <1>2, <1>3, <1>4, <1>5 DEF Next, PollLoop, Listener, Threads

\* alarmChanged fires an event "once per edge": in every state before the stop the
\* raises and clears of a device, sent or decided, add up to the alarm recorded last,
\* although the poll loop and the listener decide under the lock and send after it; and
\* the listener hears of no device of the plant.
THEOREM BacnetOncePerEdge == Spec => []OncePerEdge
<1>1. IInv => OncePerEdge
  BY DEF IInv, OncePerEdge, Balanced, PlantSilent
<1>2. QED
  BY InitIInv, NextIInv, <1>1, PTL DEF Spec

-----------------------------------------------------------------------------
(* The fleet.  The inductive invariant.                                    *)

\* Walkers ask addresses of the subnets.
WalkerState  == [ip : Ips, key : Names \cup {Agent}, name : Names \cup {Agent}, ok : BOOLEAN]
WalkersTyped == walkers \subseteq WalkerState

\* The manager is made when the targets are known, and knows no others.
ManagedAreTargets ==
  /\ phase \in {"load", "sweep"} => mgr = "off"
  /\ mgr = "off" => managed = {}
  /\ managed \subseteq {t.ip : t \in targets}

\* Direct subscriptions are open only in a fallback or while it is wound up.
DirectOnlyInFallback ==
  \A d \in Addresses : direct[d] # "none" => mgr \in {"fallback", "drain"} /\ d \in managed

FleetIInv == DiscoveryTypeOK /\ WalkersTyped /\ GnmiTypeOK /\ ManagedAreTargets /\ DirectOnlyInFallback

-----------------------------------------------------------------------------
(* The two halves.                                                         *)

LEMMA RegisterTyped ==
  ASSUME DiscoveryTypeOK, NEW S \in SUBSET Target, Register(S)
  PROVE  announced' \subseteq Ips /\ losses' \in 0..MaxLosses
  BY DiscoveryAssumption DEF DiscoveryTypeOK, Register, Target, Loss

LEMMA StartTyped ==
  ASSUME DiscoveryTypeOK, NEW S \in SUBSET Target, Start(S)
  PROVE  /\ phase' = "run" /\ targets' \subseteq Target /\ known' \subseteq Names \cup {Agent}
         /\ announced' \subseteq Ips /\ losses' \in 0..MaxLosses /\ WalkersTyped'
<1>1. phase' = "run" /\ targets' = S /\ walkers' = {Walker(t) : t \in S} /\ known' = {t.name : t \in S}
  BY DEF Start
<1>2. announced' \subseteq Ips /\ losses' \in 0..MaxLosses
  BY RegisterTyped DEF Start
<1>3. \A t \in S : t.name \in Names \cup {Agent} /\ t.ip \in Ips
  BY DEF Target
<1>4. \A t \in S : Walker(t) \in WalkerState
  BY <1>3 DEF Walker, WalkerState
<1>5. QED
  BY <1>1, <1>2, <1>3, <1>4 DEF WalkersTyped

\* A sweep begins with nothing found.
LEMMA SweepTyped ==
  ASSUME NEW next \in {"sweep", "resweep"}, SweepBegins(next)
  PROVE  phase' = next /\ found' = {} /\ left' \subseteq Ips
  BY DEF SweepBegins

LEMMA DiscoveryStep ==
  ASSUME FleetIInv, DiscoveryNext, UNCHANGED gvars
  PROVE  FleetIInv'
<1> USE DiscoveryAssumption, FleetAssumption
<1>1. GnmiTypeOK' /\ UNCHANGED <<managed, mgr, direct>>
  BY DEF FleetIInv, GnmiTypeOK, gvars
<1>2. DirectOnlyInFallback'
  BY <1>1 DEF FleetIInv, DirectOnlyInFallback
<1>3. ASSUME NEW ip \in Ips, Flap(ip) PROVE DiscoveryTypeOK' /\ WalkersTyped' /\ ManagedAreTargets'
  <2>1. dev' \in [Ips -> [up : BOOLEAN, name : Names \cup {Unnamed}, gnmi : BOOLEAN]]
    <3>1. dev \in [Ips -> [up : BOOLEAN, name : Names \cup {Unnamed}, gnmi : BOOLEAN]]
      BY DEF FleetIInv, DiscoveryTypeOK
    <3>2. CASE dev' = [dev EXCEPT ![ip].up = ~@]
      BY <3>1, <3>2
    <3>3. CASE dev' = [dev EXCEPT ![ip].gnmi = ~@]
      BY <3>1, <3>3
    <3>4. ASSUME NEW n \in Names \cup {Unnamed}, dev' = [dev EXCEPT ![ip].name = n]
          PROVE  dev' \in [Ips -> [up : BOOLEAN, name : Names \cup {Unnamed}, gnmi : BOOLEAN]]
      BY <3>1, <3>4
    <3>5. QED
      BY <1>3, <3>2, <3>3, <3>4 DEF Flap
  <2>2. changes' \in 0..MaxChanges /\ UNCHANGED <<fleet, losses>>
    BY <1>3 DEF FleetIInv, DiscoveryTypeOK, Flap, Change
  <2>3. QED
    BY <1>1, <2>1, <2>2 DEF FleetIInv, DiscoveryTypeOK, WalkersTyped, ManagedAreTargets, fleet
<1>4. ASSUME NEW ip \in Ips, Probe(ip) PROVE DiscoveryTypeOK' /\ WalkersTyped' /\ ManagedAreTargets'
  <2>1. ProbedAs(ip) \in Target
    BY DEF FleetIInv, DiscoveryTypeOK, ProbedAs, HostName, Target
  <2>2. found' \subseteq Target /\ losses' \in 0..MaxLosses /\ left' \subseteq Ips
    BY <1>4, <2>1 DEF FleetIInv, DiscoveryTypeOK, Probe, Loss
  <2>3. UNCHANGED <<hours, dev, file, phase, targets, walkers, known, announced, changes>>
    BY <1>4 DEF Probe
  <2>4. QED
    BY <1>1, <2>2, <2>3 DEF FleetIInv, DiscoveryTypeOK, WalkersTyped, ManagedAreTargets
<1>5. ASSUME LoadTargets PROVE DiscoveryTypeOK' /\ WalkersTyped' /\ ManagedAreTargets'
  <2>1. phase = "load" /\ mgr' = "off" /\ managed' = {} /\ UNCHANGED <<hours, dev, file, changes>>
    BY <1>1, <1>5 DEF FleetIInv, ManagedAreTargets, LoadTargets
  <2>2. ASSUME NEW S \in SUBSET Target, Start(S), UNCHANGED <<left, found>>
        PROVE  DiscoveryTypeOK' /\ WalkersTyped' /\ ManagedAreTargets'
    BY <2>1, <2>2, StartTyped DEF FleetIInv, DiscoveryTypeOK, ManagedAreTargets
  <2>3. ASSUME SweepBegins("sweep"), UNCHANGED <<targets, walkers, known, announced, losses>>
        PROVE  DiscoveryTypeOK' /\ WalkersTyped' /\ ManagedAreTargets'
    BY <2>1, <2>3, SweepTyped DEF FleetIInv, DiscoveryTypeOK, WalkersTyped, ManagedAreTargets
  <2>4. Configured \in SUBSET Target /\ Load \in SUBSET Target
    BY DEF FleetIInv, DiscoveryTypeOK, Load
  <2>5. QED
    BY <1>5, <2>2, <2>3, <2>4 DEF LoadTargets
<1>6. ASSUME SweepDone PROVE DiscoveryTypeOK' /\ WalkersTyped' /\ ManagedAreTargets'
  <2>1. phase = "sweep" /\ mgr' = "off" /\ managed' = {} /\ found' = {} /\ UNCHANGED <<hours, dev, left, changes>>
    BY <1>1, <1>6 DEF FleetIInv, ManagedAreTargets, SweepDone
  <2>2. found \in SUBSET Target /\ Start(found)
    BY <1>6 DEF FleetIInv, DiscoveryTypeOK, SweepDone
  <2>3. file'.targets \subseteq Target /\ file'.fresh \in BOOLEAN
    <3>1. file' = file \/ file' = [targets |-> found, fresh |-> TRUE]
      BY <1>6 DEF SweepDone, Save
    <3>2. CASE file' = file
      BY <3>2 DEF FleetIInv, DiscoveryTypeOK
    <3>3. CASE file' = [targets |-> found, fresh |-> TRUE]
      BY <2>2, <3>3
    <3>4. QED
      BY <3>1, <3>2, <3>3
  <2>4. QED
    BY <2>1, <2>2, <2>3, StartTyped DEF FleetIInv, DiscoveryTypeOK, ManagedAreTargets
<1>7. ASSUME Rediscover PROVE DiscoveryTypeOK' /\ WalkersTyped' /\ ManagedAreTargets'
  BY <1>1, <1>7, SweepTyped DEF FleetIInv, DiscoveryTypeOK, WalkersTyped, ManagedAreTargets, Rediscover
<1>8. ASSUME ResweepDone PROVE DiscoveryTypeOK' /\ WalkersTyped' /\ ManagedAreTargets'
  <2>1. PICK S \in SUBSET NewTargets :
          known' = known \cup {t.name : t \in S} /\ Register(S) /\ AddTarget(S)
    BY <1>8 DEF ResweepDone
  <2>2. S \in SUBSET Target
    BY DEF NewTargets, FleetIInv, DiscoveryTypeOK
  <2>3. announced' \subseteq Ips /\ losses' \in 0..MaxLosses
    BY <2>1, <2>2, RegisterTyped DEF FleetIInv
  <2>4. known' \subseteq Names \cup {Agent} /\ WalkersTyped'
    <3>1. \A t \in S : t.name \in Names \cup {Agent} /\ Walker(t) \in WalkerState
      BY <2>2 DEF Walker, WalkerState, Target
    <3>2. walkers' \subseteq walkers \cup {Walker(t) : t \in S}
      BY <2>1 DEF AddTarget
    <3>3. QED
      BY <2>1, <3>1, <3>2 DEF FleetIInv, DiscoveryTypeOK, WalkersTyped
  <2>5. phase = "resweep" /\ phase' = "run" /\ found' = {} /\ UNCHANGED <<hours, dev, file, left, targets, changes>>
    BY <1>8 DEF ResweepDone
  <2>6. QED
    BY <1>1, <2>3, <2>4, <2>5 DEF FleetIInv, DiscoveryTypeOK, ManagedAreTargets
<1>9. ASSUME NEW r \in walkers, Walk(r) PROVE DiscoveryTypeOK' /\ WalkersTyped' /\ ManagedAreTargets'
  <2>1. r \in WalkerState
    BY DEF FleetIInv, WalkersTyped
  <2>2. announced' \subseteq Ips
    BY <1>9, <2>1 DEF FleetIInv, DiscoveryTypeOK, WalkerState, Walk
  <2>3. WalkersTyped'
    <3>1. dev[r.ip].name \in Names \cup {Unnamed}
      BY <2>1 DEF FleetIInv, DiscoveryTypeOK, WalkerState
    <3>2. QED
      BY <1>9, <2>1, <3>1 DEF FleetIInv, WalkersTyped, WalkerState, Walk
  <2>4. UNCHANGED <<hours, dev, file, phase, left, found, targets, known, changes, losses>>
    BY <1>9 DEF Walk
  <2>5. QED
    BY <1>1, <2>2, <2>3, <2>4 DEF FleetIInv, DiscoveryTypeOK, ManagedAreTargets
<1>10. ASSUME Expire PROVE DiscoveryTypeOK' /\ WalkersTyped' /\ ManagedAreTargets'
  <2>1. file'.targets = file.targets /\ file'.fresh \in BOOLEAN
    BY <1>10 DEF Expire, FleetIInv, DiscoveryTypeOK
  <2>2. UNCHANGED <<hours, dev, phase, left, found, targets, walkers, known, announced, changes, losses>>
    BY <1>10 DEF Expire
  <2>3. QED
    BY <1>1, <2>1, <2>2 DEF FleetIInv, DiscoveryTypeOK, WalkersTyped, ManagedAreTargets
<1>11. QED
  BY <1>1, <1>2, <1>3, <1>4, <1>5, <1>6, <1>7, <1>8, <1>9, <1>10 DEF FleetIInv, DiscoveryNext, Sweeping

LEMMA GnmiStep ==
  ASSUME FleetIInv, UNCHANGED dvars,
         Manage \/ (\E d \in Addresses : DeviceStreams(d)) \/ ProxyFlaps
  PROVE  FleetIInv'
<1> USE GnmiAssumption
<1>1. /\ DiscoveryTypeOK' /\ WalkersTyped' /\ UNCHANGED <<phase, targets>>
      /\ managed' = managed /\ proxy' \in BOOLEAN /\ outages' \in 0..MaxOutages
  <2>1. DiscoveryTypeOK' /\ WalkersTyped' /\ UNCHANGED <<phase, targets>>
    BY DEF FleetIInv, DiscoveryTypeOK, WalkersTyped, dvars, fleet
  <2>2. /\ managed' = managed /\ (proxy' = proxy \/ proxy' = ~proxy)
        /\ outages' = outages \/ Outage
    BY DEF Manage, DeviceStreams, DirectStep, Evaluate, ProxyEnds, Backoff, ProbeTick,
           FallbackDone, DirectOpens, DirectBreaks, DirectReturns, ProxyFlaps
  <2>3. proxy' \in BOOLEAN
    BY <2>2 DEF FleetIInv, GnmiTypeOK
  <2>4. outages' \in 0..MaxOutages
    BY <2>2 DEF FleetIInv, GnmiTypeOK, Outage
  <2>5. QED
    BY <2>1, <2>2, <2>3, <2>4
<1>2. ManagedAreTargets' /\ mgr' \in {"off", "end", "evaluate", "proxy", "fallback", "drain", "backoff"}
  BY <1>1 DEF FleetIInv, ManagedAreTargets, GnmiTypeOK, Manage, DeviceStreams, DirectStep,
         Evaluate, ProxyEnds, Backoff, ProbeTick, FallbackDone, DirectOpens, DirectBreaks,
         DirectReturns, ProxyFlaps
<1>3. direct' \in [Addresses -> {"none", "stream", "wait"}] /\ DirectOnlyInFallback'
  <2>1. CASE Evaluate
    BY <1>1, <2>1 DEF FleetIInv, GnmiTypeOK, DirectOnlyInFallback, Evaluate
  <2>2. CASE ProxyEnds \/ Backoff \/ ProbeTick \/ FallbackDone \/ ProxyFlaps
    BY <1>1, <2>2 DEF FleetIInv, GnmiTypeOK, DirectOnlyInFallback, ProxyEnds, Backoff, ProbeTick, FallbackDone,
                      ProxyFlaps
  <2>3. ASSUME NEW d \in Addresses, DeviceStreams(d)
        PROVE  direct' \in [Addresses -> {"none", "stream", "wait"}] /\ DirectOnlyInFallback'
    BY <1>1, <2>3 DEF FleetIInv, GnmiTypeOK, DirectOnlyInFallback, DeviceStreams, DirectStep, DirectOpens,
                      DirectBreaks, DirectReturns
  <2>4. QED
    BY <2>1, <2>2, <2>3 DEF Manage
<1>4. QED
  BY <1>1, <1>2, <1>3 DEF FleetIInv, GnmiTypeOK

\* The manager is handed addresses of targets, so no others are ever managed.
LEMMA StartStep == ASSUME FleetIInv, StartGNMI PROVE FleetIInv'
<1>1. /\ DiscoveryTypeOK' /\ WalkersTyped' /\ UNCHANGED <<phase, targets>>
  BY DEF StartGNMI, FleetIInv, DiscoveryTypeOK, WalkersTyped, dvars, fleet
<1>2. /\ mgr = "off" /\ mgr' \in {"end", "evaluate"} /\ UNCHANGED <<direct, proxy, outages>>
      /\ managed' = {t.ip : t \in {u \in targets : u.gnmi}} /\ phase \notin {"load", "sweep"}
  BY DEF StartGNMI, StartManager
<1>3. managed' \subseteq {t.ip : t \in targets} /\ managed' \subseteq Addresses
  BY <1>2, FleetAssumption DEF FleetIInv, DiscoveryTypeOK, Target
<1>4. QED
  BY <1>1, <1>2, <1>3 DEF FleetIInv, GnmiTypeOK, ManagedAreTargets, DirectOnlyInFallback

LEMMA RestartStep == ASSUME FleetIInv, Restart PROVE FleetIInv'
<1>1. DiscoveryTypeOK' /\ WalkersTyped' /\ phase' = "load"
  BY DiscoveryAssumption DEF Restart, RestartCollector, Loss, FleetIInv, DiscoveryTypeOK, WalkersTyped
<1>2. GnmiTypeOK' /\ managed' = {} /\ mgr' = "off" /\ direct' = [d \in Addresses |-> "none"]
  BY DEF Restart, StopManager, FleetIInv, GnmiTypeOK
<1>3. QED
  BY <1>1, <1>2 DEF FleetIInv, ManagedAreTargets, DirectOnlyInFallback

LEMMA FleetInitIInv == FleetInit => FleetIInv
<1> SUFFICES ASSUME FleetInit PROVE FleetIInv
  OBVIOUS
<1>1. DiscoveryTypeOK /\ WalkersTyped
  <2>1. dev \in [Ips -> [up : BOOLEAN, name : Names \cup {Unnamed}, gnmi : BOOLEAN]]
    BY DiscoveryAssumption DEF FleetInit, DiscoveryInit
  <2>2. QED
    BY <2>1, DiscoveryAssumption DEF FleetInit, DiscoveryInit, DiscoveryTypeOK, WalkersTyped
<1>2. QED
  BY <1>1, GnmiAssumption DEF FleetInit, DiscoveryInit, GnmiInit, FleetIInv, GnmiTypeOK, ManagedAreTargets, DirectOnlyInFallback

LEMMA FleetNextIInv == FleetIInv /\ [FleetNext]_fleetVars => FleetIInv'
<1> SUFFICES ASSUME FleetIInv, [FleetNext]_fleetVars PROVE FleetIInv'
  OBVIOUS
<1>1. CASE UNCHANGED fleetVars
  BY <1>1 DEF fleetVars, dvars, fleet, gvars, FleetIInv, DiscoveryTypeOK, WalkersTyped, GnmiTypeOK, ManagedAreTargets,
              DirectOnlyInFallback
<1>2. QED
  BY <1>1, DiscoveryStep, GnmiStep, StartStep, RestartStep DEF FleetNext

LEMMA FleetIInvSound == FleetIInv => StreamsSound
<1> SUFFICES ASSUME FleetIInv PROVE StreamsSound
  OBVIOUS
<1>1. OneFeed
  BY DEF FleetIInv, OneFeed, DirectOnlyInFallback
<1>2. \A d \in Addresses : Streamed(d) => d \in {t.ip : t \in targets}
  BY DEF FleetIInv, Streamed, DirectOnlyInFallback, ManagedAreTargets
<1>3. QED
  BY <1>1, <1>2 DEF FleetIInv, StreamsSound, FleetTypeOK

\* Whatever devices do while the collector sweeps, loads its targets or is restarted,
\* only targets of its start are streamed, none of them over the proxy and directly at
\* a time, and what the two managers keep is well formed (main.go
\* startGNMIAfterDiscovery, discovery/manager.go, gnmi/manager.go Run).
THEOREM FleetStreamsSound == FleetSpec => []StreamsSound
  BY FleetInitIInv, FleetNextIInv, FleetIInvSound, PTL DEF FleetSpec
=============================================================================
