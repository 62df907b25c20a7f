---- MODULE ConsumerProofs ----
(***************************************************************************)
(* Proofs about Consumer for any topic and any capacity of the queue.      *)
(***************************************************************************)
EXTENDS Consumer, FiniteSetTheorems, SequenceTheorems, TLAPS

Contents(s) == {s[k] : k \in DOMAIN s}

Accounted == Handled \cup lost \cup InProcess

(* What is consumed in this run of the process is accounted for as well as *)
(* what is committed, and consuming never lags behind committing.          *)
ConsumedAccounted ==
    state = "up" =>
        /\ committed <= position
        /\ \A o \in Messages \ Malformed : o < position => o \in Accounted

IInv == TypeOK /\ CommittedAccounted /\ ConsumedAccounted
----------------------------------------------------------------------------
(* Sequences *)

LEMMA AppendRange ==
    ASSUME NEW S, NEW s \in Seq(S), NEW e \in S
    PROVE  Contents(Append(s, e)) = Contents(s) \cup {e}
<1>1. DOMAIN Append(s, e) = DOMAIN s \cup {Len(s) + 1}
  OBVIOUS
<1>2. /\ Append(s, e)[Len(s) + 1] = e
      /\ \A k \in DOMAIN s : Append(s, e)[k] = s[k]
  OBVIOUS
<1>3. QED BY <1>1, <1>2 DEF Contents

LEMMA TailRange ==
    ASSUME NEW S, NEW s \in Seq(S), s # <<>>
    PROVE  Contents(s) = {Head(s)} \cup Contents(Tail(s))
<1>1. DOMAIN Tail(s) = 1 .. Len(s) - 1 /\ DOMAIN s = 1 .. Len(s) /\ Len(s) \in Nat \ {0}
  OBVIOUS
<1>2. Head(s) = s[1] /\ \A k \in DOMAIN Tail(s) : Tail(s)[k] = s[k + 1]
  OBVIOUS
<1>3. \A k \in DOMAIN s : k # 1 => k - 1 \in DOMAIN Tail(s) /\ s[k] = Tail(s)[k - 1]
  BY <1>1, <1>2
<1>4. \A k \in DOMAIN Tail(s) : k + 1 \in DOMAIN s
  BY <1>1
<1>5. 1 \in DOMAIN s
  BY <1>1
<1>6. Contents(s) \subseteq {Head(s)} \cup Contents(Tail(s))
  BY <1>2, <1>3 DEF Contents
<1>7. {Head(s)} \cup Contents(Tail(s)) \subseteq Contents(s)
  BY <1>2, <1>4, <1>5 DEF Contents
<1>8. QED BY <1>6, <1>7

LEMMA InProcessIs == InProcess = (Contents(buf) \cup {inHand, writing}) \ {0}
BY DEF InProcess, Contents
----------------------------------------------------------------------------
(* Types *)

LEMMA TypeInit == Init => TypeOK
<1> SUFFICES ASSUME Init PROVE TypeOK
  OBVIOUS
<1>1. connected \in BOOLEAN
  BY DEF Init
<1>2. buf \in Seq(Messages) /\ Len(buf) <= Capacity
  BY CapacityAssumption DEF Init, FifoInit
<1>3. QED BY <1>1, <1>2, TopicAssumption DEF Init, TypeOK, FifoTypeOK, States, Slot

LEMMA InProcessMessages ==
    ASSUME TypeOK
    PROVE  InProcess \subseteq Messages
<1>1. \A k \in DOMAIN buf : buf[k] \in Messages
  BY DEF TypeOK, FifoTypeOK
<1>2. {inHand, writing} \ {0} \subseteq Messages
  BY TopicAssumption DEF TypeOK, Slot
<1>3. QED BY <1>1, <1>2 DEF InProcess

LEMMA TypeStep == TypeOK /\ [Next]_vars => TypeOK'
<1> SUFFICES ASSUME TypeOK, [Next]_vars PROVE TypeOK'
  OBVIOUS
<1>connected. connected' \in BOOLEAN
  BY DEF Next, vars, TypeOK, Start, StartFails, OperatorStart, Die, Consume, Push,
     Pop, Write, LoseConnection, AutoCommit, Evict
<1> USE <1>connected, TopicAssumption, CapacityAssumption DEF TypeOK, FifoTypeOK, States, Slot
<1>1. ASSUME Start \/ StartFails \/ OperatorStart \/ LoseConnection \/ AutoCommit \/ Evict
      PROVE  TypeOK'
  <2>1. UNCHANGED <<buf, inHand, writing, written, failed, lost, deaths>>
    BY <1>1 DEF Start, StartFails, OperatorStart, LoseConnection, AutoCommit, Evict
  <2>2. /\ state' = state \/ state' \in States
        /\ position' = position \/ position' = committed
        /\ committed' = committed \/ committed' = position
        /\ evictions' = evictions \/ evictions' = evictions + 1
    BY <1>1 DEF Start, StartFails, OperatorStart, LoseConnection, AutoCommit, Evict
  <2>3. QED BY <2>1, <2>2
<1>2. CASE Die
  <2>1. InProcess \subseteq Messages
    BY InProcessMessages
  <2>2. lost' \in SUBSET Messages
    BY <1>2, <2>1 DEF Die
  <2>3. buf' \in Seq(Messages) /\ Len(buf') <= Capacity
    BY <1>2 DEF Die
  <2>4. QED BY <1>2, <2>2, <2>3 DEF Die
<1>3. CASE Consume
  BY <1>3 DEF Consume
<1>4. CASE Push
  <2>1. buf' \in Seq(Messages) /\ Len(buf') <= Capacity
    BY <1>4 DEF Push, Put
  <2>2. QED BY <1>4, <2>1 DEF Push
<1>5. CASE Pop
  <2>1. buf' \in Seq(Messages) /\ Len(buf') <= Capacity
    BY <1>5 DEF Pop, Take
  <2>2. QED BY <1>5, <2>1 DEF Pop
<1>6. CASE Write
  <2>1. writing \in Messages /\ writing' = 0
    BY <1>6 DEF Write
  <2>2. /\ written' = written \/ written' = written \cup {writing}
        /\ failed' = failed \/ failed' = failed \cup {writing}
    BY <1>6 DEF Write
  <2>3. UNCHANGED <<buf, state, position, committed, inHand, lost, deaths, evictions>>
    BY <1>6 DEF Write
  <2>4. written' \in SUBSET Messages /\ failed' \in SUBSET Messages
    BY <2>1, <2>2
  <2>5. QED BY <2>1, <2>3, <2>4
<1>7. CASE UNCHANGED vars
  BY <1>7 DEF vars
<1>8. QED BY <1>1, <1>2, <1>3, <1>4, <1>5, <1>6, <1>7 DEF Next

(* Theorem: every variable keeps its type; in particular the queue never   *)
(* exceeds its capacity.                                                   *)
THEOREM TypeCorrect == Spec => []TypeOK
<1>1. QED BY TypeInit, TypeStep, PTL DEF Spec
----------------------------------------------------------------------------
(* What is committed is accounted for *)

LEMMA AccountInit == Init => CommittedAccounted /\ ConsumedAccounted
BY TopicAssumption DEF Init, CommittedAccounted, ConsumedAccounted

(* A step that only enlarges what is accounted for, without consuming or   *)
(* committing, preserves the invariant.                                    *)
LEMMA Grows ==
    ASSUME IInv, UNCHANGED <<state, position, committed>>,
           Accounted \subseteq Accounted'
    PROVE  CommittedAccounted' /\ ConsumedAccounted'
BY DEF IInv, CommittedAccounted, ConsumedAccounted, Accounted

LEMMA AccountStep ==
    IInv /\ [Next]_vars => CommittedAccounted' /\ ConsumedAccounted'
<1> SUFFICES ASSUME IInv, [Next]_vars
             PROVE  CommittedAccounted' /\ ConsumedAccounted'
  OBVIOUS
<1> USE TopicAssumption DEF IInv
<1>1. CASE Start
  <2>1. UNCHANGED <<buf, committed, inHand, writing, written, failed, lost>>
    BY <1>1 DEF Start
  <2>2. Accounted' = Accounted
    BY <2>1 DEF Accounted, Handled, InProcess
  <2>3. position' = committed
    BY <1>1 DEF Start
  <2>4. QED
    BY <2>1, <2>2, <2>3 DEF CommittedAccounted, ConsumedAccounted, Accounted, TypeOK
<1>2. CASE StartFails \/ OperatorStart
  <2>1. UNCHANGED <<buf, committed, inHand, writing, written, failed, lost>> /\ state' # "up"
    BY <1>2 DEF StartFails, OperatorStart
  <2>2. Accounted' = Accounted
    BY <2>1 DEF Accounted, Handled, InProcess
  <2>3. QED BY <2>1, <2>2 DEF CommittedAccounted, ConsumedAccounted, Accounted
<1>3. CASE Die
  <2>1. UNCHANGED <<committed, written, failed>> /\ state' # "up"
    BY <1>3 DEF Die
  <2>2. \A o \in Messages : o < committed /\ o \in Accounted => o \in Accounted'
    BY <1>3 DEF Die, Accounted, Handled
  <2>3. QED BY <2>1, <2>2 DEF CommittedAccounted, ConsumedAccounted, Accounted
<1>4. CASE Consume
  <2>1. UNCHANGED <<buf, state, committed, writing, written, failed, lost>>
    BY <1>4 DEF Consume
  <2>2. /\ inHand = 0 /\ position' = position + 1
        /\ state = "up"
        /\ position \notin Malformed => inHand' = position /\ position \in Messages
    BY <1>4 DEF Consume, TypeOK
  <2>3. Accounted \subseteq Accounted'
    BY <2>1, <2>2 DEF Accounted, Handled, InProcess
  <2>4. position \notin Malformed => position \in Accounted'
    BY <2>2 DEF Accounted, InProcess
  <2>5. \A o \in Messages : o < position' => o < position \/ o = position
    BY <2>2 DEF TypeOK
  <2>6. position \in Int /\ committed \in Int
    BY DEF TypeOK
  <2>7. \A o \in Messages \ Malformed : o < position' => o \in Accounted'
    BY <2>2, <2>3, <2>4, <2>5 DEF ConsumedAccounted
  <2>8. ConsumedAccounted'
    BY <2>1, <2>2, <2>6, <2>7 DEF ConsumedAccounted
  <2>9. CommittedAccounted'
    BY <2>1, <2>3 DEF CommittedAccounted, Accounted
  <2>10. QED BY <2>8, <2>9
<1>5. CASE Push
  <2>1. UNCHANGED <<state, position, committed, writing, written, failed, lost>>
    BY <1>5 DEF Push
  <2>2. inHand \in Messages /\ buf' = Append(buf, inHand) /\ inHand' = 0
    BY <1>5 DEF Push, Put, TypeOK, Slot
  <2>3. Contents(buf') = Contents(buf) \cup {inHand}
    BY <2>2, AppendRange DEF TypeOK, FifoTypeOK
  <2>4. InProcess' = (Contents(buf') \cup {inHand', writing'}) \ {0}
    BY DEF InProcess, Contents
  <2>5. Accounted \subseteq Accounted'
    BY <2>1, <2>2, <2>3, <2>4, InProcessIs DEF Accounted, Handled
  <2>6. QED BY <2>1, <2>5, Grows
<1>6. CASE Pop
  <2>1. UNCHANGED <<state, position, committed, inHand, written, failed, lost>> /\ writing = 0
    BY <1>6 DEF Pop
  <2>2. buf # <<>> /\ buf' = Tail(buf) /\ writing' = Head(buf)
    BY <1>6 DEF Pop, Take
  <2>3. Contents(buf) = {writing'} \cup Contents(buf')
    BY <2>2, TailRange DEF TypeOK, FifoTypeOK
  <2>4. InProcess' = (Contents(buf') \cup {inHand', writing'}) \ {0}
    BY DEF InProcess, Contents
  <2>5. Accounted \subseteq Accounted'
    BY <2>1, <2>3, <2>4, InProcessIs DEF Accounted, Handled
  <2>6. QED BY <2>1, <2>5, Grows
<1>7. CASE Write
  <2>1. UNCHANGED <<buf, state, position, committed, inHand, lost>>
    BY <1>7 DEF Write
  <2>2. Handled' = Handled \cup {writing}
    BY <1>7 DEF Write, Handled
  <2>3. Accounted \subseteq Accounted'
    BY <2>1, <2>2 DEF Accounted, InProcess
  <2>4. QED BY <2>1, <2>3, Grows
<1>8. CASE AutoCommit
  <2>1. Accounted' = Accounted
    BY <1>8 DEF AutoCommit, Accounted, Handled, InProcess
  <2>2. state = "up" /\ state' = state /\ position' = position /\ committed' = position
    BY <1>8 DEF AutoCommit
  <2>3. QED BY <2>1, <2>2 DEF CommittedAccounted, ConsumedAccounted, Accounted, TypeOK
<1>9. CASE Evict
  <2>1. Accounted' = Accounted
    BY <1>9 DEF Evict, Accounted, Handled, InProcess
  <2>2. UNCHANGED <<state, committed>> /\ position' = committed
    BY <1>9 DEF Evict
  <2>3. QED BY <2>1, <2>2 DEF CommittedAccounted, ConsumedAccounted, Accounted, TypeOK
<1>10. ASSUME LoseConnection \/ UNCHANGED vars
       PROVE  CommittedAccounted' /\ ConsumedAccounted'
  <2>1. UNCHANGED <<state, position, committed>> /\ Accounted' = Accounted
    BY <1>10 DEF LoseConnection, vars, Accounted, Handled, InProcess
  <2>2. QED BY <2>1, Grows
<1>11. QED
  BY <1>1, <1>2, <1>3, <1>4, <1>5, <1>6, <1>7, <1>8, <1>9, <1>10 DEF Next

(* Theorem: IInv is an invariant. *)
THEOREM Inductive == Spec => []IInv
<1>1. Init => IInv
  BY TypeInit, AccountInit DEF IInv
<1>2. IInv /\ [Next]_vars => IInv'
  BY TypeStep, AccountStep DEF IInv
<1>3. QED BY <1>1, <1>2, PTL DEF Spec

(* Theorem: a message the group will not consume again was tried on the    *)
(* database, is in the process, or died with one.                          *)
THEOREM NothingElseDropped == Spec => []CommittedAccounted
<1>1. IInv => CommittedAccounted
  BY DEF IInv
<1>2. QED BY <1>1, Inductive, PTL
----------------------------------------------------------------------------
(* How much is lost *)

LEMMA ProcessHolds ==
    ASSUME TypeOK
    PROVE  IsFiniteSet(InProcess) /\ Cardinality(InProcess) <= Capacity + 2
<1> USE CapacityAssumption
<1>1. buf \in Seq(Messages) /\ Len(buf) \in Nat /\ Len(buf) <= Capacity
  BY DEF TypeOK, FifoTypeOK
<1>2. buf \in Surjection(1 .. Len(buf), Contents(buf))
  BY <1>1 DEF Surjection, Contents
<1>3. IsFiniteSet(1 .. Len(buf)) /\ Cardinality(1 .. Len(buf)) = Len(buf)
  <2>1. /\ IsFiniteSet(1 .. Len(buf))
        /\ Cardinality(1 .. Len(buf)) = IF 1 > Len(buf) THEN 0 ELSE Len(buf) - 1 + 1
    BY <1>1, FS_Interval, 1 \in Int, Len(buf) \in Int
  <2>2. QED BY <1>1, <2>1
<1>4. IsFiniteSet(Contents(buf)) /\ Cardinality(Contents(buf)) <= Len(buf)
  BY <1>2, <1>3, FS_Surjection
<1> DEFINE A == Contents(buf) \cup {inHand}
           B == A \cup {writing}
<1>5. IsFiniteSet(A) /\ Cardinality(A) <= Len(buf) + 1
  <2>1. /\ IsFiniteSet(A)
        /\ \/ Cardinality(A) = Cardinality(Contents(buf))
           \/ Cardinality(A) = Cardinality(Contents(buf)) + 1
    BY <1>4, FS_AddElement
  <2>2. Cardinality(Contents(buf)) \in Nat
    BY <1>4, FS_CardinalityType
  <2>3. QED BY <1>1, <1>4, <2>1, <2>2
<1>6. IsFiniteSet(B) /\ Cardinality(B) <= Len(buf) + 2
  <2>1. /\ IsFiniteSet(B)
        /\ \/ Cardinality(B) = Cardinality(A)
           \/ Cardinality(B) = Cardinality(A) + 1
    BY <1>5, FS_AddElement
  <2>2. Cardinality(A) \in Nat
    BY <1>5, FS_CardinalityType
  <2>3. QED BY <1>1, <1>5, <2>1, <2>2
<1>7. InProcess \in SUBSET B
  BY InProcessIs
<1>8. IsFiniteSet(InProcess) /\ Cardinality(InProcess) <= Cardinality(B)
  BY <1>6, <1>7, FS_Subset
<1>9. Cardinality(InProcess) \in Nat /\ Cardinality(B) \in Nat
  BY <1>6, <1>8, FS_CardinalityType
<1>10. QED BY <1>1, <1>6, <1>8, <1>9

LEMMA LossStep == TypeOK /\ LossBounded /\ [Next]_vars => LossBounded'
<1> SUFFICES ASSUME TypeOK, LossBounded, [Next]_vars PROVE LossBounded'
  OBVIOUS
<1>1. CASE Die
  <2> DEFINE Gone == {o \in InProcess : o < committed /\ o \notin Handled}
  <2>1. lost' = lost \cup Gone /\ deaths' = deaths + 1 /\ deaths \in Nat
    BY <1>1 DEF Die, TypeOK
  <2>2. IsFiniteSet(Messages)
    BY TopicAssumption, FS_Interval
  <2>3. IsFiniteSet(lost)
    BY <2>2, FS_Subset DEF TypeOK
  <2>4. IsFiniteSet(InProcess) /\ Cardinality(InProcess) <= Capacity + 2
    BY ProcessHolds
  <2>5. IsFiniteSet(Gone) /\ Cardinality(Gone) <= Cardinality(InProcess)
    BY <2>4, FS_Subset
  <2>6. /\ Cardinality(Gone) \in Nat /\ Cardinality(lost) \in Nat
        /\ Cardinality(InProcess) \in Nat /\ Cardinality(lost \cap Gone) \in Nat
    BY <2>3, <2>4, <2>5, FS_CardinalityType, FS_Intersection
  <2>7. Cardinality(lost') = Cardinality(lost) + Cardinality(Gone) - Cardinality(lost \cap Gone)
    BY <2>1, <2>3, <2>5, FS_Union
  <2>8. Cardinality(lost') <= Cardinality(lost) + (Capacity + 2)
    BY <2>4, <2>5, <2>6, <2>7, CapacityAssumption
  <2>9. (deaths + 1) * (Capacity + 2) = deaths * (Capacity + 2) + (Capacity + 2)
    BY <2>1, CapacityAssumption
  <2>10. deaths * (Capacity + 2) \in Nat
    BY <2>1, CapacityAssumption
  <2>11. Cardinality(lost') \in Int
    BY <2>6, <2>7
  <2>12. QED
    BY <2>1, <2>6, <2>8, <2>9, <2>10, <2>11, CapacityAssumption DEF LossBounded
<1>2. CASE UNCHANGED <<lost, deaths>>
  BY <1>2 DEF LossBounded
<1>3. QED
  BY <1>1, <1>2 DEF Next, vars, Start, StartFails, OperatorStart, Consume, Push, Pop,
     Write, LoseConnection, AutoCommit, Evict

(* Theorem: each death of the process costs at most the capacity of the    *)
(* queue and one message in each of the two threads.                       *)
THEOREM LossIsBounded == Spec => []LossBounded
<1>1. Init => LossBounded
  BY FS_EmptySet, CapacityAssumption DEF Init, LossBounded
<1>2. QED BY <1>1, LossStep, TypeCorrect, PTL DEF Spec
----------------------------------------------------------------------------
(* The order of the pipeline *)

(* y may follow x in the pipeline after e evictions. *)
Follows(x, y, e) ==
    /\ \A o \in x + 1 .. y - 1 : o \in Malformed
    /\ e = 0 => x < y

InOrder(s, e) == \A k \in 1 .. Len(s) - 1 : Follows(s[k], s[k + 1], e)

Front == Held(writing) \o buf \o Held(inHand)

(* Nothing survives a process that is not running. *)
EmptyWhenDown == state # "up" => buf = <<>> /\ inHand = 0 /\ writing = 0

LEMMA Widen ==
    ASSUME NEW S, S \subseteq Int, NEW s \in Seq(S)
    PROVE  s \in Seq(Int)
<1>1. Len(s) \in Nat /\ s \in [1 .. Len(s) -> S]
  OBVIOUS
<1>2. s \in [1 .. Len(s) -> Int]
  BY <1>1
<1>3. QED BY <1>1, <1>2

LEMMA FrontTyped ==
    ASSUME NEW w \in Slot, NEW b \in Seq(Messages), NEW h \in Slot
    PROVE  /\ Held(w) \in Seq(Int) /\ b \in Seq(Int) /\ Held(h) \in Seq(Int)
           /\ Held(w) \o b \o Held(h) \in Seq(Int)
<1>1. w \in Int /\ h \in Int
  BY TopicAssumption DEF Slot
<1>2. Held(w) \in Seq(Int) /\ Held(h) \in Seq(Int)
  BY <1>1 DEF Held
<1>3. Messages \subseteq Int
  BY TopicAssumption
<1>4. b \in Seq(Int)
  BY <1>3, Widen
<1>5. QED BY <1>2, <1>4

LEMMA Regroup ==
    ASSUME NEW S, NEW a \in Seq(S), NEW b \in Seq(S), NEW c \in Seq(S), NEW d \in Seq(S)
    PROVE  ((a \o b) \o c) \o d = a \o ((b \o c) \o d)
<1> DEFINE lhs == ((a \o b) \o c) \o d
           rhs == a \o ((b \o c) \o d)
<1>1. lhs \in Seq(S) /\ rhs \in Seq(S)
  OBVIOUS
<1>2. Len(lhs) = Len(rhs)
  OBVIOUS
<1>3. \A k \in 1 .. Len(lhs) : lhs[k] = rhs[k]
  OBVIOUS
<1> HIDE DEF lhs, rhs
<1>4. lhs = rhs
  BY <1>1, <1>2, <1>3, SeqEqual
<1>5. QED BY <1>4 DEF lhs, rhs

LEMMA TailOfCons ==
    ASSUME NEW x \in Int, NEW s \in Seq(Int)
    PROVE  /\ <<x>> \o s \in Seq(Int)
           /\ <<x>> \o s # <<>>
           /\ Tail(<<x>> \o s) = s
<1> DEFINE t == <<x>> \o s
<1>1. /\ t \in Seq(Int) /\ Len(t) = Len(s) + 1 /\ Len(s) \in Nat
      /\ \A k \in 1 .. Len(s) : t[k + 1] = s[k]
  OBVIOUS
<1>2. t # <<>>
  BY <1>1
<1> HIDE DEF t
<1>3. /\ Tail(t) \in Seq(Int) /\ Len(Tail(t)) = Len(s)
      /\ \A k \in 1 .. Len(s) : Tail(t)[k] = t[k + 1]
  BY <1>1, <1>2, HeadTailProperties
<1>4. Tail(t) = s
  BY <1>1, <1>3, SeqEqual
<1>5. QED BY <1>1, <1>2, <1>4 DEF t

LEMMA InOrderTail ==
    ASSUME NEW s \in Seq(Int), s # <<>>, NEW e, InOrder(s, e)
    PROVE  InOrder(Tail(s), e)
<1>1. Tail(s) \in Seq(Int) /\ Len(Tail(s)) = Len(s) - 1 /\ Len(s) \in Nat
  OBVIOUS
<1>2. \A k \in 1 .. Len(s) - 1 : Tail(s)[k] = s[k + 1]
  OBVIOUS
<1>3. ASSUME NEW k \in 1 .. Len(Tail(s)) - 1 PROVE Follows(Tail(s)[k], Tail(s)[k + 1], e)
  <2>1. k + 1 \in 1 .. Len(s) - 1 /\ k \in 1 .. Len(s) - 1
    BY <1>1
  <2>2. Follows(s[k + 1], s[k + 1 + 1], e)
    BY <2>1 DEF InOrder
  <2>3. Tail(s)[k] = s[k + 1] /\ Tail(s)[k + 1] = s[k + 1 + 1]
    BY <1>2, <2>1
  <2>4. QED BY <2>2, <2>3
<1>4. QED BY <1>3 DEF InOrder

(* The last element may be replaced by one that what precedes it admits.   *)
LEMMA InOrderReplace ==
    ASSUME NEW s \in Seq(Int), NEW x \in Int, NEW y \in Int, NEW d, NEW e,
           InOrder(s \o <<x>>, d),
           \A w \in Int : Follows(w, x, d) => Follows(w, y, e),
           \A v, w \in Int : Follows(v, w, d) => Follows(v, w, e)
    PROVE  InOrder(s \o <<y>>, e)
<1> DEFINE t == s \o <<x>>
           u == s \o <<y>>
<1>1. /\ Len(s) \in Nat
      /\ Len(t) = Len(s) + 1 /\ Len(u) = Len(s) + 1
  OBVIOUS
<1>2. /\ \A k \in 1 .. Len(s) : t[k] = s[k] /\ u[k] = s[k] /\ s[k] \in Int
      /\ t[Len(s) + 1] = x /\ u[Len(s) + 1] = y
  OBVIOUS
<1>3. ASSUME NEW k \in 1 .. Len(u) - 1 PROVE Follows(u[k], u[k + 1], e)
  <2>1. k \in 1 .. Len(s) /\ k \in 1 .. Len(t) - 1
    BY <1>1
  <2>2. Follows(t[k], t[k + 1], d)
    BY <2>1 DEF InOrder
  <2>3. CASE k + 1 \in 1 .. Len(s)
    BY <1>2, <2>1, <2>2, <2>3
  <2>4. CASE k = Len(s)
    BY <1>2, <2>1, <2>2, <2>4
  <2>5. QED BY <1>1, <2>1, <2>3, <2>4
<1>4. QED BY <1>3 DEF InOrder

LEMMA InOrderSnoc ==
    ASSUME NEW s \in Seq(Int), NEW x \in Int, NEW y \in Int, NEW e,
           InOrder(s \o <<x>>, e), Follows(x, y, e)
    PROVE  InOrder((s \o <<x>>) \o <<y>>, e)
<1> DEFINE t == s \o <<x>>
           u == t \o <<y>>
<1>1. /\ Len(s) \in Nat /\ t \in Seq(Int)
      /\ Len(t) = Len(s) + 1 /\ Len(u) = Len(s) + 2
      /\ t[Len(s) + 1] = x
  OBVIOUS
<1>2. /\ \A k \in 1 .. Len(t) : u[k] = t[k]
      /\ u[Len(t) + 1] = y
  BY <1>1
<1>3. ASSUME NEW k \in 1 .. Len(u) - 1 PROVE Follows(u[k], u[k + 1], e)
  <2>1. CASE k \in 1 .. Len(t) - 1
    <3>1. u[k] = t[k] /\ u[k + 1] = t[k + 1]
      BY <1>1, <1>2, <2>1
    <3>2. Follows(t[k], t[k + 1], e)
      BY <2>1 DEF InOrder
    <3>3. QED BY <3>1, <3>2
  <2>2. CASE k = Len(t)
    <3>1. u[k] = x /\ u[k + 1] = y
      BY <1>1, <1>2, <2>2
    <3>2. QED BY <3>1
  <2>3. QED BY <1>1, <2>1, <2>2
<1>4. QED BY <1>3 DEF InOrder

LEMMA EmptyStep ==
    TypeOK /\ EmptyWhenDown /\ [Next]_vars => EmptyWhenDown'
<1> SUFFICES ASSUME TypeOK, EmptyWhenDown, [Next]_vars PROVE EmptyWhenDown'
  OBVIOUS
<1>1. CASE Push
  <2>1. inHand # 0 /\ state' = state
    BY <1>1 DEF Push
  <2>2. QED BY <2>1 DEF EmptyWhenDown
<1>2. CASE Write
  <2>1. writing # 0 /\ state' = state
    BY <1>2 DEF Write
  <2>2. QED BY <2>1 DEF EmptyWhenDown
<1>3. QED
  BY <1>1, <1>2 DEF EmptyWhenDown, Next, vars, Start, StartFails, OperatorStart, Die,
     Consume, Pop, LoseConnection, AutoCommit, Evict

LEMMA OrderStep ==
    ASSUME IInv, IInv', EmptyWhenDown, PipelineInOrder, [Next]_vars
    PROVE  PipelineInOrder'
<1> DEFINE Ordered == state = "up" => InOrder(Pipeline, evictions)
<1>types. /\ TypeOK /\ TypeOK' /\ position \in Int /\ position' \in Int
          /\ evictions \in Nat /\ evictions' \in Nat
  BY DEF IInv, TypeOK
<1>buf. /\ buf \in Seq(Messages) /\ writing \in Slot /\ inHand \in Slot
        /\ buf' \in Seq(Messages) /\ writing' \in Slot /\ inHand' \in Slot
  BY <1>types DEF TypeOK, FifoTypeOK
<1>now. /\ Front \in Seq(Int) /\ Pipeline = Front \o <<position>>
        /\ Ordered
  BY <1>buf, FrontTyped DEF Front, Pipeline, PipelineInOrder, InOrder, Follows
<1>next. /\ Front' \in Seq(Int) /\ Pipeline' = Front' \o <<position'>>
         /\ PipelineInOrder' <=> Ordered'
  BY <1>buf, FrontTyped DEF Front, Pipeline, PipelineInOrder, InOrder, Follows
<1>1. CASE Start
  <2>1. buf' = <<>> /\ inHand' = 0 /\ writing' = 0
    BY <1>1 DEF Start, EmptyWhenDown
  <2>2. Len(Pipeline') = 1
    BY <2>1, <1>types DEF Pipeline, Held
  <2>3. QED BY <2>2, <1>next DEF InOrder
<1>2. ASSUME StartFails \/ OperatorStart \/ Die PROVE PipelineInOrder'
  BY <1>2, <1>next DEF StartFails, OperatorStart, Die
<1>3. CASE Consume
  <2>1. /\ UNCHANGED <<buf, writing, evictions, state>> /\ state = "up"
        /\ inHand = 0 /\ position' = position + 1 /\ position # 0
        /\ position \in Malformed => inHand' = 0
        /\ position \notin Malformed => inHand' = position
    BY <1>3 DEF Consume, IInv, TypeOK
  <2>2. CASE position \in Malformed
    <3>1. Front' = Front
      BY <2>1, <2>2 DEF Front
    <3>2. \A w \in Int : Follows(w, position, evictions) => Follows(w, position', evictions)
      BY <2>1, <2>2, <1>types DEF Follows
    <3>3. InOrder(Front \o <<position'>>, evictions)
      BY <2>1, <3>2, <1>now, <1>types, InOrderReplace
    <3>4. QED BY <2>1, <3>1, <3>3, <1>next
  <2>3. CASE position \notin Malformed
    <3>1. Held(inHand) = <<>> /\ Held(inHand)' = <<position>>
      BY <2>1, <2>3 DEF Held
    <3>2. Held(writing) \o buf \in Seq(Int)
      BY <1>buf, FrontTyped, TopicAssumption DEF Slot
    <3>3. Front = Held(writing) \o buf
      BY <3>1, <3>2 DEF Front
    <3>4. Front' = Front \o <<position>>
      BY <2>1, <3>1, <3>3 DEF Front, Held
    <3>5. Follows(position, position', evictions)
      BY <2>1, <1>types DEF Follows
    <3>6. InOrder((Front \o <<position>>) \o <<position'>>, evictions)
      BY <2>1, <3>5, <1>now, <1>types, InOrderSnoc
    <3>7. QED BY <2>1, <3>4, <3>6, <1>next
  <2>4. QED BY <2>2, <2>3
<1>4. CASE Push
  <2>1. /\ UNCHANGED <<state, position, writing, evictions>>
        /\ buf' = Append(buf, inHand) /\ inHand # 0 /\ inHand' = 0
    BY <1>4 DEF Push, Put
  <2>2. buf \in Seq(Int) /\ inHand \in Int /\ Held(writing) \in Seq(Int)
    BY <1>buf, FrontTyped, TopicAssumption DEF Slot
  <2>3. Held(inHand) = <<inHand>> /\ Held(inHand)' = <<>> /\ Held(writing)' = Held(writing)
    BY <2>1 DEF Held
  <2>4. Front' = Front
    BY <2>1, <2>2, <2>3 DEF Front
  <2>5. QED BY <2>1, <2>4, <1>now, <1>next
<1>5. CASE Pop
  <2>1. /\ UNCHANGED <<state, position, inHand, evictions>>
        /\ buf # <<>> /\ buf' = Tail(buf) /\ writing = 0 /\ writing' = Head(buf)
        /\ writing' # 0
    BY <1>5, TopicAssumption DEF Pop, Take
  <2>2. buf \in Seq(Int) /\ Held(inHand) \in Seq(Int)
    BY <1>buf, FrontTyped, TopicAssumption DEF Slot
  <2>3. Held(writing) = <<>> /\ Held(writing)' = <<Head(buf)>> /\ Held(inHand)' = Held(inHand)
    BY <2>1 DEF Held
  <2>4. <<Head(buf)>> \o Tail(buf) = buf /\ <<>> \o buf = buf
    BY <2>1, <2>2
  <2>5. Front' = Front
    BY <2>1, <2>3, <2>4 DEF Front
  <2>6. QED BY <2>1, <2>5, <1>now, <1>next
<1>6. CASE Write
  <2>1. /\ UNCHANGED <<state, buf, position, inHand, evictions>>
        /\ writing # 0 /\ writing' = 0
    BY <1>6 DEF Write
  <2>2. /\ buf \in Seq(Int) /\ Held(inHand) \in Seq(Int) /\ writing \in Int
        /\ <<writing>> \in Seq(Int) /\ <<position>> \in Seq(Int)
    BY <1>types, <1>buf, FrontTyped, TopicAssumption DEF Slot
  <2>3. Held(writing) = <<writing>> /\ Held(writing)' = <<>> /\ Held(inHand)' = Held(inHand)
    BY <2>1 DEF Held
  <2> DEFINE rest == buf \o Held(inHand) \o <<position>>
  <2>4. rest \in Seq(Int)
    BY <2>2, <1>types
  <2>5. Pipeline = <<writing>> \o rest
    BY <2>2, <2>3, Regroup DEF Pipeline
  <2>6. Pipeline' = rest
    <3>1. Pipeline' = <<>> \o buf \o Held(inHand) \o <<position>>
      BY <2>1, <2>3 DEF Pipeline, Held
    <3>2. <<>> \o buf = buf
      BY <2>2
    <3>3. QED BY <3>1, <3>2
  <2>7. rest = Tail(Pipeline) /\ Pipeline # <<>> /\ Pipeline \in Seq(Int)
    BY <2>2, <2>4, <2>5, TailOfCons
  <2>8. QED BY <2>1, <2>6, <2>7, <1>now, <1>next, InOrderTail
<1>7. CASE Evict
  <2>1. /\ UNCHANGED <<state, buf, inHand, writing>> /\ state = "up"
        /\ position' = committed /\ evictions' = evictions + 1
    BY <1>7 DEF Evict
  <2>2. position' <= position
    BY <2>1 DEF IInv, ConsumedAccounted
  <2>3. \A w \in Int : Follows(w, position, evictions) => Follows(w, position', evictions')
    BY <2>1, <2>2, <1>types DEF Follows
  <2>4. \A v, w \in Int : Follows(v, w, evictions) => Follows(v, w, evictions')
    BY <2>1, <1>types DEF Follows
  <2>5. InOrder(Front \o <<position'>>, evictions')
    BY <2>1, <2>3, <2>4, <1>now, <1>types, InOrderReplace
  <2>6. Front' = Front
    BY <2>1 DEF Front, Held
  <2>7. QED BY <2>5, <2>6, <1>next
<1>8. ASSUME LoseConnection \/ AutoCommit \/ UNCHANGED vars PROVE PipelineInOrder'
  <2>1. UNCHANGED <<state, buf, inHand, writing, position, evictions>>
    BY <1>8 DEF LoseConnection, AutoCommit, vars
  <2>2. Pipeline' = Pipeline
    BY <2>1 DEF Pipeline, Held
  <2>3. QED BY <2>1, <2>2, <1>now, <1>next
<1>9. QED BY <1>1, <1>2, <1>3, <1>4, <1>5, <1>6, <1>7, <1>8 DEF Next

(* Theorem: the database sees the topic in order and without a gap, and    *)
(* only an eviction makes it see a message again within a run.             *)
THEOREM OrderKept == Spec => []PipelineInOrder
<1>1. Init => EmptyWhenDown /\ PipelineInOrder
  BY DEF Init, FifoInit, EmptyWhenDown, PipelineInOrder
<1>2. IInv /\ IInv' /\ EmptyWhenDown /\ PipelineInOrder /\ [Next]_vars
         => EmptyWhenDown' /\ PipelineInOrder'
  BY EmptyStep, OrderStep DEF IInv
<1>3. QED BY <1>1, <1>2, Inductive, PTL DEF Spec
====
