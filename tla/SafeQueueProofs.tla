---- MODULE SafeQueueProofs ----
(***************************************************************************)
(* Proofs about SafeQueue for any number of threads and any capacity.      *)
(***************************************************************************)
EXTENDS SafeQueue, FiniteSetTheorems, TLAPS

IInv == TypeOK /\ NoLostWakeup

LEMMA TypeInit == Init => TypeOK
<1> SUFFICES ASSUME Init PROVE TypeOK
  OBVIOUS
<1>1. <<>> \in Seq(Messages) /\ Len(<<>>) = 0
  OBVIOUS
<1>2. QED BY <1>1, ThreadAssumption DEF Init, TypeOK, Threads, Places

LEMMA TypeStep == TypeOK /\ [Next]_vars => TypeOK'
<1> SUFFICES ASSUME TypeOK, [Next]_vars PROVE TypeOK'
  OBVIOUS
<1> USE ThreadAssumption DEF TypeOK, Threads, Places
<1>1. ASSUME NEW t \in Threads, Lock(t) \/ SpuriousWakeup(t) PROVE TypeOK'
  BY <1>1 DEF Lock, SpuriousWakeup, Goto
<1>2. ASSUME NEW t \in Threads, WaitPush(t) \/ WaitPop(t) PROVE TypeOK'
  BY <1>2 DEF WaitPush, WaitPop, Wait, Goto
<1>3. ASSUME NEW t \in Pushers, Enqueue(t) PROVE TypeOK'
  <2>1. q' \in Seq(Messages) /\ Len(q') <= Capacity
    BY <1>3 DEF Enqueue
  <2>2. QED BY <1>3, <2>1 DEF Enqueue, Goto
<1>4. ASSUME NEW t \in Poppers, Dequeue(t) PROVE TypeOK'
  <2>1. q' \in Seq(Messages) /\ Len(q') <= Capacity
    BY <1>4 DEF Dequeue
  <2>2. QED BY <1>4, <2>1 DEF Dequeue, Goto
<1>5. ASSUME NEW t \in Threads, Notify(t, Poppers) \/ Notify(t, Pushers) PROVE TypeOK'
  BY <1>5 DEF Notify, Goto, Waiting
<1>6. CASE UNCHANGED vars
  BY <1>6 DEF vars
<1>7. QED BY <1>1, <1>2, <1>3, <1>4, <1>5, <1>6 DEF Next, Push, Pop
----------------------------------------------------------------------------
(* Counting threads *)

LEMMA Finite ==
    ASSUME NEW side, side = Pushers \/ side = Poppers
    PROVE  /\ IsFiniteSet(Awake(side)) /\ Cardinality(Awake(side)) \in Nat
           /\ IsFiniteSet(Notifying(side)) /\ Cardinality(Notifying(side)) \in Nat
<1>1. IsFiniteSet(side)
  BY ThreadAssumption
<1>2. IsFiniteSet(Awake(side)) /\ IsFiniteSet(Notifying(side))
  BY <1>1, FS_Subset DEF Awake, Notifying
<1>3. QED BY <1>2, FS_CardinalityType

CountsTyped ==
    /\ Cardinality(Awake(Pushers)) \in Nat /\ Cardinality(Awake(Poppers)) \in Nat
    /\ Cardinality(Notifying(Pushers)) \in Nat /\ Cardinality(Notifying(Poppers)) \in Nat

LEMMA CountTypes == CountsTyped
BY Finite DEF CountsTyped

LEMMA Joins ==
    ASSUME NEW S, NEW T, NEW t, IsFiniteSet(S), t \notin S, T = S \cup {t}
    PROVE  Cardinality(T) = Cardinality(S) + 1
BY FS_AddElement

LEMMA Leaves ==
    ASSUME NEW S, NEW T, NEW t, IsFiniteSet(S), t \in S, T = S \ {t}
    PROVE  Cardinality(T) = Cardinality(S) - 1
BY FS_RemoveElement

(* What a move of one thread does to the counts of a side.                 *)
LEMMA Moves ==
    ASSUME TypeOK, NEW side, side = Pushers \/ side = Poppers,
           NEW t \in Threads, NEW place \in Places, Goto(t, place)
    PROVE  /\ t \notin side \/ (pc[t] \in {"start", "locked"} /\ place \in {"start", "locked"}) =>
                 UNCHANGED <<Waiting(side), Awake(side), Notifying(side)>>
           /\ t \in side /\ pc[t] = "locked" /\ place = "notify" =>
                 /\ Waiting(side)' = Waiting(side)
                 /\ Cardinality(Awake(side))' = Cardinality(Awake(side)) - 1
                 /\ Cardinality(Notifying(side))' = Cardinality(Notifying(side)) + 1
           /\ t \in side /\ pc[t] = "locked" /\ place = "waiting" =>
                 Notifying(side)' = Notifying(side)
           /\ t \in side /\ pc[t] = "waiting" /\ place = "start" =>
                 /\ Waiting(side)' \subseteq Waiting(side)
                 /\ Cardinality(Awake(side))' = Cardinality(Awake(side)) + 1
                 /\ Notifying(side)' = Notifying(side)
           /\ t \in side /\ pc[t] = "notify" /\ place = "start" =>
                 /\ Waiting(side)' = Waiting(side)
                 /\ Cardinality(Awake(side))' = Cardinality(Awake(side)) + 1
                 /\ Cardinality(Notifying(side))' = Cardinality(Notifying(side)) - 1
<1> USE DEF Waiting, Awake, Notifying
<1>1. /\ side \subseteq Threads
      /\ pc'[t] = place
      /\ \A u \in Threads : u # t => pc'[u] = pc[u]
  BY DEF Goto, TypeOK, Threads
<1>2. CASE t \notin side \/ (pc[t] \in {"start", "locked"} /\ place \in {"start", "locked"})
  <2>1. Waiting(side)' = Waiting(side) /\ Awake(side)' = Awake(side)
        /\ Notifying(side)' = Notifying(side)
    BY <1>1, <1>2
  <2>2. QED BY <1>2, <2>1
<1>3. CASE t \in side /\ pc[t] = "locked" /\ place = "notify"
  <2>1. /\ Waiting(side)' = Waiting(side)
        /\ t \in Awake(side) /\ Awake(side)' = Awake(side) \ {t}
        /\ t \notin Notifying(side) /\ Notifying(side)' = Notifying(side) \cup {t}
    BY <1>1, <1>3
  <2> HIDE DEF Waiting, Awake, Notifying
  <2>2. /\ Cardinality(Awake(side)') = Cardinality(Awake(side)) - 1
        /\ Cardinality(Notifying(side)') = Cardinality(Notifying(side)) + 1
    BY <2>1, Finite, Joins, Leaves
  <2>3. QED BY <1>3, <2>1, <2>2
<1>4. CASE t \in side /\ pc[t] = "locked" /\ place = "waiting"
  <2>1. Notifying(side)' = Notifying(side)
    BY <1>1, <1>4
  <2>2. QED BY <1>4, <2>1
<1>5. CASE t \in side /\ pc[t] = "waiting" /\ place = "start"
  <2>1. /\ Waiting(side)' \subseteq Waiting(side)
        /\ t \notin Awake(side) /\ Awake(side)' = Awake(side) \cup {t}
        /\ Notifying(side)' = Notifying(side)
    BY <1>1, <1>5
  <2> HIDE DEF Waiting, Awake, Notifying
  <2>2. Cardinality(Awake(side)') = Cardinality(Awake(side)) + 1
    BY <2>1, Finite, Joins
  <2>3. QED BY <1>5, <2>1, <2>2
<1>6. CASE t \in side /\ pc[t] = "notify" /\ place = "start"
  <2>1. /\ Waiting(side)' = Waiting(side)
        /\ t \notin Awake(side) /\ Awake(side)' = Awake(side) \cup {t}
        /\ t \in Notifying(side) /\ Notifying(side)' = Notifying(side) \ {t}
    BY <1>1, <1>6
  <2> HIDE DEF Waiting, Awake, Notifying
  <2>2. /\ Cardinality(Awake(side)') = Cardinality(Awake(side)) + 1
        /\ Cardinality(Notifying(side)') = Cardinality(Notifying(side)) - 1
    BY <2>1, Finite, Joins, Leaves
  <2>3. QED BY <1>6, <2>1, <2>2
<1> HIDE DEF Waiting, Awake, Notifying
<1>7. QED BY <1>2, <1>3, <1>4, <1>5, <1>6

(* What a notification that reaches a waiting thread does.                 *)
LEMMA Wakes ==
    ASSUME TypeOK, NEW side, NEW other,
           \/ side = Pushers /\ other = Poppers
           \/ side = Poppers /\ other = Pushers,
           NEW t \in side, NEW w \in Waiting(other), pc[t] = "notify",
           pc' = [pc EXCEPT ![t] = "start", ![w] = "start"]
    PROVE  /\ Waiting(side)' = Waiting(side)
           /\ Cardinality(Awake(side))' = Cardinality(Awake(side)) + 1
           /\ Notifying(other)' = Notifying(other)
           /\ Waiting(other)' \subseteq Waiting(other)
           /\ Cardinality(Awake(other))' = Cardinality(Awake(other)) + 1
           /\ Cardinality(Notifying(side))' = Cardinality(Notifying(side)) - 1
<1> USE DEF Waiting, Awake, Notifying
<1>1. /\ side \cap other = {} /\ side \subseteq Threads /\ other \subseteq Threads
      /\ w \in other /\ pc[w] = "waiting" /\ w \notin side
      /\ pc'[t] = "start" /\ pc'[w] = "start"
      /\ \A u \in Threads : u # t /\ u # w => pc'[u] = pc[u]
  BY ThreadAssumption DEF TypeOK, Threads
<1>2. /\ Waiting(side)' = Waiting(side)
      /\ t \notin Awake(side) /\ Awake(side)' = Awake(side) \cup {t}
      /\ t \in Notifying(side) /\ Notifying(side)' = Notifying(side) \ {t}
  BY <1>1
<1>3. /\ Waiting(other)' \subseteq Waiting(other)
      /\ w \notin Awake(other) /\ Awake(other)' = Awake(other) \cup {w}
      /\ Notifying(other)' = Notifying(other)
  BY <1>1
<1> HIDE DEF Waiting, Awake, Notifying
<1>4. /\ Cardinality(Awake(side)') = Cardinality(Awake(side)) + 1
      /\ Cardinality(Notifying(side)') = Cardinality(Notifying(side)) - 1
  BY <1>2, Finite, Joins, Leaves
<1>5. Cardinality(Awake(other)') = Cardinality(Awake(other)) + 1
  BY <1>3, Finite, Joins
<1>6. QED BY <1>2, <1>3, <1>4, <1>5
----------------------------------------------------------------------------
(* The inductive step: what becomes possible is matched by a thread that   *)
(* is awake or by a notification, before and after each step.              *)
LEMMA WakeupStep == IInv /\ [Next]_vars => NoLostWakeup'
<1> SUFFICES ASSUME IInv, [Next]_vars PROVE NoLostWakeup'
  OBVIOUS
<1>1. /\ TypeOK /\ NoLostWakeup /\ Len(q) \in Nat /\ Capacity \in Nat
      /\ Pushers \subseteq Threads /\ Poppers \subseteq Threads /\ Pushers \cap Poppers = {}
  BY ThreadAssumption DEF IInv, TypeOK, Threads
<1>2. /\ Cardinality(Awake(Pushers)) \in Nat /\ Cardinality(Awake(Poppers)) \in Nat
      /\ Cardinality(Notifying(Pushers)) \in Nat /\ Cardinality(Notifying(Poppers)) \in Nat
  BY CountTypes DEF CountsTyped
<1>counts. /\ Cardinality(Awake(Pushers)') \in Nat /\ Cardinality(Awake(Poppers)') \in Nat
      /\ Cardinality(Notifying(Pushers)') \in Nat /\ Cardinality(Notifying(Poppers)') \in Nat
  <2>1. CountsTyped'
    BY CountTypes, PTL
  <2>2. QED BY <2>1 DEF CountsTyped
<1> USE <1>1, <1>2
<1> USE DEF Places
<1>3. ASSUME NEW t \in Threads, Lock(t) PROVE NoLostWakeup'
  <2>1. Goto(t, "locked") /\ pc[t] = "start" /\ q' = q
    BY <1>3 DEF Lock
  <2>2. /\ UNCHANGED <<Waiting(Pushers), Awake(Pushers), Notifying(Pushers)>>
        /\ UNCHANGED <<Waiting(Poppers), Awake(Poppers), Notifying(Poppers)>>
    BY <2>1, Moves
  <2>3. QED BY <2>1, <2>2 DEF NoLostWakeup
<1>4. ASSUME NEW t \in Threads, SpuriousWakeup(t) PROVE NoLostWakeup'
  <2>1. Goto(t, "start") /\ pc[t] = "waiting" /\ q' = q
    BY <1>4 DEF SpuriousWakeup
  <2>2. ASSUME NEW side, side = Pushers \/ side = Poppers
        PROVE  /\ Waiting(side)' \subseteq Waiting(side)
               /\ Cardinality(Awake(side))' \in {Cardinality(Awake(side)), Cardinality(Awake(side)) + 1}
               /\ Notifying(side)' = Notifying(side)
    <3>1. CASE t \in side
      BY <2>1, <2>2, <3>1, Moves
    <3>2. CASE t \notin side
      <4>1. UNCHANGED <<Waiting(side), Awake(side), Notifying(side)>>
        BY <2>1, <2>2, <3>2, Moves
      <4>2. QED BY <4>1
    <3>3. QED BY <3>1, <3>2
  <2>3. QED BY <2>1, <2>2 DEF NoLostWakeup
<1>5. ASSUME NEW t \in Pushers, WaitPush(t) PROVE NoLostWakeup'
  <2>1. Goto(t, "waiting") /\ pc[t] = "locked" /\ q' = q /\ Len(q) >= Capacity
    BY <1>5 DEF WaitPush, Wait
  <2>2. UNCHANGED <<Waiting(Poppers), Awake(Poppers), Notifying(Poppers)>>
    BY <2>1, Moves
  <2>3. Notifying(Pushers)' = Notifying(Pushers)
    BY <2>1, Moves
  <2>4. QED BY <1>counts, <2>1, <2>2, <2>3 DEF NoLostWakeup
<1>6. ASSUME NEW t \in Poppers, WaitPop(t) PROVE NoLostWakeup'
  <2>1. Goto(t, "waiting") /\ pc[t] = "locked" /\ q' = q /\ Len(q) = 0
    BY <1>6 DEF WaitPop, Wait
  <2>2. UNCHANGED <<Waiting(Pushers), Awake(Pushers), Notifying(Pushers)>>
    BY <2>1, Moves
  <2>3. Notifying(Poppers)' = Notifying(Poppers)
    BY <2>1, Moves
  <2>4. QED BY <1>counts, <2>1, <2>2, <2>3 DEF NoLostWakeup
<1>7. ASSUME NEW t \in Pushers, Enqueue(t) PROVE NoLostWakeup'
  <2>1. Goto(t, "notify") /\ pc[t] = "locked" /\ Len(q') = Len(q) + 1
    BY <1>7 DEF Enqueue, TypeOK
  <2>2. UNCHANGED <<Waiting(Poppers), Awake(Poppers), Notifying(Poppers)>>
    BY <2>1, Moves
  <2>3. /\ Waiting(Pushers)' = Waiting(Pushers)
        /\ Cardinality(Awake(Pushers))' = Cardinality(Awake(Pushers)) - 1
        /\ Cardinality(Notifying(Pushers))' = Cardinality(Notifying(Pushers)) + 1
    BY <2>1, Moves
  <2>4. QED BY <2>1, <2>2, <2>3 DEF NoLostWakeup
<1>8. ASSUME NEW t \in Poppers, Dequeue(t) PROVE NoLostWakeup'
  <2>1. Goto(t, "notify") /\ pc[t] = "locked" /\ Len(q') = Len(q) - 1
    BY <1>8 DEF Dequeue, TypeOK
  <2>2. UNCHANGED <<Waiting(Pushers), Awake(Pushers), Notifying(Pushers)>>
    BY <2>1, Moves
  <2>3. /\ Waiting(Poppers)' = Waiting(Poppers)
        /\ Cardinality(Awake(Poppers))' = Cardinality(Awake(Poppers)) - 1
        /\ Cardinality(Notifying(Poppers))' = Cardinality(Notifying(Poppers)) + 1
    BY <2>1, Moves
  <2>4. QED BY <2>1, <2>2, <2>3 DEF NoLostWakeup
<1>9. ASSUME NEW t \in Pushers, Notify(t, Poppers) PROVE NoLostWakeup'
  <2>1. pc[t] = "notify" /\ q' = q
    BY <1>9 DEF Notify
  <2>2. CASE Waiting(Poppers) = {}
    <3>1. Goto(t, "start")
      BY <1>9, <2>2 DEF Notify
    <3>2. UNCHANGED <<Waiting(Poppers), Awake(Poppers), Notifying(Poppers)>>
      BY <2>1, <3>1, Moves
    <3>3. /\ Waiting(Pushers)' = Waiting(Pushers)
          /\ Cardinality(Awake(Pushers))' = Cardinality(Awake(Pushers)) + 1
      BY <2>1, <3>1, Moves
    <3>4. QED BY <2>1, <2>2, <3>2, <3>3 DEF NoLostWakeup
  <2>3. CASE Waiting(Poppers) # {}
    <3>1. PICK w \in Waiting(Poppers) : pc' = [pc EXCEPT ![t] = "start", ![w] = "start"]
      BY <1>9, <2>3 DEF Notify
    <3>2. /\ Waiting(Pushers)' = Waiting(Pushers)
          /\ Cardinality(Awake(Pushers))' = Cardinality(Awake(Pushers)) + 1
          /\ Notifying(Poppers)' = Notifying(Poppers)
          /\ Waiting(Poppers)' \subseteq Waiting(Poppers)
          /\ Cardinality(Awake(Poppers))' = Cardinality(Awake(Poppers)) + 1
          /\ Cardinality(Notifying(Pushers))' = Cardinality(Notifying(Pushers)) - 1
      BY <2>1, <3>1, Wakes
    <3>3. QED BY <2>1, <2>3, <3>2 DEF NoLostWakeup
  <2>4. QED BY <2>2, <2>3
<1>10. ASSUME NEW t \in Poppers, Notify(t, Pushers) PROVE NoLostWakeup'
  <2>1. pc[t] = "notify" /\ q' = q
    BY <1>10 DEF Notify
  <2>2. CASE Waiting(Pushers) = {}
    <3>1. Goto(t, "start")
      BY <1>10, <2>2 DEF Notify
    <3>2. UNCHANGED <<Waiting(Pushers), Awake(Pushers), Notifying(Pushers)>>
      BY <2>1, <3>1, Moves
    <3>3. /\ Waiting(Poppers)' = Waiting(Poppers)
          /\ Cardinality(Awake(Poppers))' = Cardinality(Awake(Poppers)) + 1
      BY <2>1, <3>1, Moves
    <3>4. QED BY <2>1, <2>2, <3>2, <3>3 DEF NoLostWakeup
  <2>3. CASE Waiting(Pushers) # {}
    <3>1. PICK w \in Waiting(Pushers) : pc' = [pc EXCEPT ![t] = "start", ![w] = "start"]
      BY <1>10, <2>3 DEF Notify
    <3>2. /\ Waiting(Poppers)' = Waiting(Poppers)
          /\ Cardinality(Awake(Poppers))' = Cardinality(Awake(Poppers)) + 1
          /\ Notifying(Pushers)' = Notifying(Pushers)
          /\ Waiting(Pushers)' \subseteq Waiting(Pushers)
          /\ Cardinality(Awake(Pushers))' = Cardinality(Awake(Pushers)) + 1
          /\ Cardinality(Notifying(Poppers))' = Cardinality(Notifying(Poppers)) - 1
      BY <2>1, <3>1, Wakes
    <3>3. QED BY <2>1, <2>3, <3>2 DEF NoLostWakeup
  <2>4. QED BY <2>2, <2>3
<1>11. CASE UNCHANGED vars
  BY <1>11 DEF vars, NoLostWakeup, Waiting, Awake, Notifying
<1>12. QED
  BY <1>3, <1>4, <1>5, <1>6, <1>7, <1>8, <1>9, <1>10, <1>11 DEF Next, Push, Pop

(* The queue never exceeds its bound, whoever calls it.                    *)
THEOREM TypeCorrect == Spec => []TypeOK
BY TypeInit, TypeStep, PTL DEF Spec

(* No wakeup is lost, for any number of threads on either side.            *)
THEOREM WakeupsSuffice == Spec => []NoLostWakeup
<1>1. Init => NoLostWakeup
  BY DEF Init, NoLostWakeup, Waiting, Threads
<1>2. Init => IInv
  BY <1>1, TypeInit DEF IInv
<1>3. IInv /\ [Next]_vars => IInv'
  BY TypeStep, WakeupStep DEF IInv
<1>4. IInv => NoLostWakeup
  BY DEF IInv
<1>5. QED BY <1>2, <1>3, <1>4, PTL DEF Spec

(* Each step is a Put, a Take or nothing to the abstract queue: SafeQueue  *)
(* is a bounded first-in first-out queue (its progress is model-checked).  *)
THEOREM RefinesFifo == Spec => Fifo!FifoInit /\ [][Fifo!FifoNext]_q
<1>1. Init => Fifo!FifoInit
  BY DEF Init, Fifo!FifoInit
<1>2. TypeOK /\ [Next]_vars => [Fifo!FifoNext]_q
  <2> SUFFICES ASSUME TypeOK, Next, q' # q PROVE Fifo!FifoNext
    BY DEF vars
  <2>1. (\E t \in Pushers : Enqueue(t)) \/ (\E t \in Poppers : Dequeue(t))
    BY DEF Next, Lock, SpuriousWakeup, Push, Pop, WaitPush, WaitPop, Wait, Notify
  <2>2. ASSUME NEW t \in Pushers, Enqueue(t) PROVE Fifo!FifoNext
    BY <2>2 DEF Enqueue, Fifo!FifoNext, Fifo!Put
  <2>3. ASSUME NEW t \in Poppers, Dequeue(t) PROVE Fifo!FifoNext
    <3>1. q # <<>> /\ Head(q) \in Messages /\ q' = Tail(q)
      BY <2>3 DEF Dequeue, TypeOK
    <3>2. QED BY <3>1 DEF Fifo!FifoNext, Fifo!Take
  <2>4. QED BY <2>1, <2>2, <2>3
<1>3. QED BY <1>1, <1>2, TypeInit, TypeStep, PTL DEF Spec
====
