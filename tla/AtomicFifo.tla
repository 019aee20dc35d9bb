----------------------------- MODULE AtomicFifo -----------------------------
(***************************************************************************)
(* What the collector's queue promises its callers: a batch is added whole *)
(* or not at all, a pop takes from the head, and making room costs at most *)
(* one packet, the oldest one, for each urgent packet of the batch.        *)
(***************************************************************************)
EXTENDS Integers, Sequences, FiniteSets

CONSTANTS Packets, Urgent, MaxBatch

VARIABLES
  q,    \* the packets, oldest first
  call  \* the batch of the PushBatch under way, <<>> when there is none

Drop(s, n) == SubSeq(s, n + 1, Len(s))

Call(batch) ==
  /\ call = <<>> /\ call' = batch
  /\ UNCHANGED q

PushBatch ==
  /\ call # <<>> /\ call' = <<>>
  /\ \E evicted \in 0..Cardinality({i \in DOMAIN call : call[i] \in Urgent}) :
       q' = Drop(q \o call, evicted)

\* ErrFull, or the end of the process.
PushFails ==
  /\ call # <<>> /\ call' = <<>>
  /\ UNCHANGED q

PopBatch(n) ==
  /\ call = <<>> /\ q # <<>>
  /\ q' = Drop(q, n)
  /\ UNCHANGED call

Init == q = <<>> /\ call = <<>>

Next == \/ \E n \in 1..MaxBatch : \E batch \in [1..n -> Packets] : Call(batch)
        \/ PushBatch \/ PushFails
        \/ \E n \in 1..MaxBatch : PopBatch(n)

Spec == Init /\ [][Next]_<<q, call>>
=============================================================================
