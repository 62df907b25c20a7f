---- MODULE SafeQueue ----
(***************************************************************************)
(* consumer_bo/safe_queue.h: a queue guarded by one mutex with a condition *)
(* variable for each side.  Threads are those that call push and those     *)
(* that call pop, each again and again.  The steps are those between which *)
(* another thread can run: taking the mutex, the section under it (ending  *)
(* in a wait or an unlock), and the notification after the unlock.         *)
(***************************************************************************)
EXTENDS Naturals, Sequences, FiniteSets

CONSTANTS
    Pushers,    \* threads that call push
    Poppers,    \* threads that call pop
    Messages,   \* what they pass
    Capacity,   \* max_queue_size_
    NoThread    \* the mutex is free

ASSUME ThreadAssumption ==
    /\ IsFiniteSet(Pushers) /\ IsFiniteSet(Poppers)
    /\ Pushers \cap Poppers = {}
    /\ NoThread \notin Pushers \cup Poppers
    /\ Capacity \in Nat \ {0}

Threads == Pushers \cup Poppers

VARIABLES
    q,       \* queue_to_save_
    mutex,   \* the holder of queue_mutex_
    pc       \* where each thread is, see Places

vars == <<q, mutex, pc>>

(* start    about to lock the mutex, on entry or after a wait              *)
(* locked   holds the mutex, about to evaluate the predicate               *)
(* waiting  in the wait set of its condition variable                      *)
(* notify   done with the queue, about to notify the other side            *)
Places == {"start", "locked", "waiting", "notify"}

TypeOK ==
    /\ q \in Seq(Messages) /\ Len(q) <= Capacity
    /\ mutex \in Threads \cup {NoThread}
    /\ pc \in [Threads -> Places]

Init ==
    /\ q = <<>>
    /\ mutex = NoThread
    /\ pc = [t \in Threads |-> "start"]

Goto(t, place) == pc' = [pc EXCEPT ![t] = place]

Lock(t) ==
    /\ pc[t] = "start"
    /\ mutex = NoThread
    /\ mutex' = t
    /\ Goto(t, "locked")
    /\ UNCHANGED q

(* wait(lock, predicate) with a false predicate: the mutex is released and *)
(* the thread joins the wait set, in one step.                             *)
Wait(t) ==
    /\ pc[t] = "locked"
    /\ mutex' = NoThread
    /\ Goto(t, "waiting")
    /\ UNCHANGED q

WaitPush(t) == Len(q) >= Capacity /\ Wait(t)

WaitPop(t) == q = <<>> /\ Wait(t)

(* Mutated form of Enqueue: it does not look at the size. *)
EnqueueUnbounded(t) ==
    /\ pc[t] = "locked"
    /\ \E m \in Messages : q' = Append(q, m)
    /\ mutex' = NoThread
    /\ Goto(t, "notify")

(* Mutated form of Enqueue: only a push into an empty queue notifies. *)
EnqueueQuiet(t) ==
    /\ pc[t] = "locked"
    /\ Len(q) < Capacity
    /\ \E m \in Messages : q' = Append(q, m)
    /\ mutex' = NoThread
    /\ Goto(t, IF q = <<>> THEN "notify" ELSE "start")

(* The predicate holds: the queue is changed and the mutex released. *)
Enqueue(t) ==
    /\ pc[t] = "locked"
    /\ Len(q) < Capacity
    /\ \E m \in Messages : q' = Append(q, m)
    /\ mutex' = NoThread
    /\ Goto(t, "notify")

Dequeue(t) ==
    /\ pc[t] = "locked"
    /\ q # <<>>
    /\ q' = Tail(q)
    /\ mutex' = NoThread
    /\ Goto(t, "notify")

Waiting(side) == {t \in side : pc[t] = "waiting"}

(* notify_one wakes one thread of the wait set, any one, or nobody when it *)
(* is empty; the caller's operation is over and it comes again.            *)
Notify(t, side) ==
    /\ pc[t] = "notify"
    /\ IF Waiting(side) = {}
       THEN Goto(t, "start")
       ELSE \E w \in Waiting(side) :
               pc' = [pc EXCEPT ![t] = "start", ![w] = "start"]
    /\ UNCHANGED <<q, mutex>>

(* A condition variable may wake a thread that nobody notified. *)
SpuriousWakeup(t) ==
    /\ pc[t] = "waiting"
    /\ Goto(t, "start")
    /\ UNCHANGED <<q, mutex>>

Push(t) == WaitPush(t) \/ Enqueue(t) \/ Notify(t, Poppers)

(* Mutated form of Pop: it notifies the side it is on. *)
PopWakesPoppers(t) == WaitPop(t) \/ Dequeue(t) \/ Notify(t, Poppers)

Pop(t) == WaitPop(t) \/ Dequeue(t) \/ Notify(t, Pushers)

Next ==
    \/ \E t \in Threads : Lock(t) \/ SpuriousWakeup(t)
    \/ \E t \in Pushers : Push(t)
    \/ \E t \in Poppers : Pop(t)

Spec == Init /\ [][Next]_vars

(* Threads are scheduled and each gets the mutex in the end.  No spurious  *)
(* wakeup is counted on.                                                   *)
Fairness ==
    /\ \A t \in Threads : SF_vars(Lock(t))
    /\ \A t \in Pushers : WF_vars(Push(t))
    /\ \A t \in Poppers : WF_vars(Pop(t))

FairSpec == Spec /\ Fairness
----------------------------------------------------------------------------
(* Properties *)

Awake(side) == {t \in side : pc[t] \in {"start", "locked"}}
Notifying(side) == {t \in side : pc[t] = "notify"}

(* No wakeup is lost, with the notification after the unlock and           *)
(* notify_one: while a popper waits, each message in the queue has a       *)
(* popper that will look at the queue again or a notification on its way,  *)
(* and likewise each free place while a pusher waits.                      *)
NoLostWakeup ==
    /\ Waiting(Poppers) # {} =>
          Len(q) <= Cardinality(Notifying(Pushers)) + Cardinality(Awake(Poppers))
    /\ Waiting(Pushers) # {} =>
          Capacity - Len(q) <= Cardinality(Notifying(Poppers)) + Cardinality(Awake(Pushers))

Fifo == INSTANCE BoundedFifo WITH buf <- q

(* The queue implements the abstract one, its progress included: bounded,  *)
(* first in first out, and neither side stuck.                             *)
ImplementsFifo == Fifo!FifoSpec

(* Each single thread gets through, for the one pusher and the one popper  *)
(* the consumer process has.                                               *)
EveryCallReturns == \A t \in Threads : pc[t] = "waiting" ~> pc[t] = "notify"
====
