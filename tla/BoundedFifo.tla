---- MODULE BoundedFifo ----
(***************************************************************************)
(* What consumer_bo/safe_queue.h promises: a first-in first-out queue of   *)
(* bounded length, whose operations happen at one instant each.  SafeQueue *)
(* implements it; Consumer is built on it.                                 *)
(***************************************************************************)
EXTENDS Naturals, Sequences

CONSTANTS
    Messages,   \* what is put into the queue
    Capacity    \* max_queue_size_

ASSUME CapacityAssumption == Capacity \in Nat \ {0}

VARIABLE buf   \* queue_to_save_, oldest message first

FifoTypeOK == buf \in Seq(Messages) /\ Len(buf) <= Capacity

FifoInit == buf = <<>>

(* Mutated form of Put: no bound. *)
PutUnbounded(m) == buf' = Append(buf, m)

Put(m) == Len(buf) < Capacity /\ buf' = Append(buf, m)

(* Mutated form of Take: the newest message first. *)
TakeNewest(m) ==
    buf # <<>> /\ m = buf[Len(buf)] /\ buf' = SubSeq(buf, 1, Len(buf) - 1)

(* Mutated form of Take: the message stays in the queue. *)
TakeKeeping(m) == buf # <<>> /\ m = Head(buf) /\ UNCHANGED buf

Take(m) == buf # <<>> /\ m = Head(buf) /\ buf' = Tail(buf)

FifoNext == \E m \in Messages : Put(m) \/ Take(m)

(* Callers on both sides come back for ever, and neither waits for ever    *)
(* while its operation is possible.                                        *)
FifoSpec ==
    /\ FifoInit /\ [][FifoNext]_buf
    /\ WF_buf(\E m \in Messages : Put(m))
    /\ WF_buf(\E m \in Messages : Take(m))
====
