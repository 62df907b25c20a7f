---- MODULE ReplicationProofs ----
(***************************************************************************)
(* Proofs about the whole system, from the theorems about its two halves.  *)
(* The argument: a step of the system is a step of one half that leaves    *)
(* the other alone, so the system is both a Producer and a Consumer; and   *)
(* the consumer never gets ahead of the topic (Glue), so what Consumer     *)
(* says of offsets is about changes the topic holds.                       *)
(***************************************************************************)
EXTENDS Replication, ProducerProofs, TLAPS

CP == INSTANCE ConsumerProofs WITH
        Messages <- Offsets, TopicLen <- MaxLog, Malformed <- {},
        Refusable <- Offsets, lost <- died

----------------------------------------------------------------------------
(* The system is a Producer and a Consumer *)

LEMMA ConsumerAssumptions == CP!TopicAssumption /\ CP!CapacityAssumption
BY OutputAssumption, CapacityPositive DEF CP!TopicAssumption, CP!CapacityAssumption, Offsets

(* The instance of Consumer and that of its proofs are the same. *)
LEMMA SameParts ==
    /\ C!Handled = CP!Handled
    /\ C!InProcess = CP!InProcess
    /\ C!Pipeline = CP!Pipeline
BY DEF C!Handled, CP!Handled, C!InProcess, CP!InProcess,
       C!Pipeline, CP!Pipeline, C!Held, CP!Held

LEMMA SameInit == C!Init => CP!Init
BY DEF C!Init, CP!Init, C!FifoInit, CP!FifoInit

LEMMA SameNext == C!Next => CP!Next
BY SMT DEF C!Next, CP!Next, C!Start, CP!Start, C!StartFails, CP!StartFails,
           C!OperatorStart, CP!OperatorStart, C!Die, CP!Die, C!Consume, CP!Consume,
           C!Push, CP!Push, C!Put, CP!Put, C!Pop, CP!Pop, C!Take, CP!Take,
           C!Write, CP!Write, C!LoseConnection, CP!LoseConnection,
           C!AutoCommit, CP!AutoCommit, C!Evict, CP!Evict,
           C!InProcess, CP!InProcess, C!Handled, CP!Handled

LEMMA ConsumerStep == ConsumerNext => C!Next
BY DEF ConsumerNext, ConsumeLogged, C!Next

(* Every behaviour of the system is one of the producer. *)
LEMMA IsProducer == ReplicationSpec => Spec
<1>1. ReplicationInit => Init
  BY DEF ReplicationInit
<1>2. [ReplicationNext]_<<vars, consumerVars>> => [Next]_vars
  BY DEF ReplicationNext
<1>3. QED BY <1>1, <1>2, PTL DEF ReplicationSpec, Spec

(* Every behaviour of the system is one of the consumer. *)
LEMMA IsConsumer == ReplicationSpec => CP!Spec
<1>1. ReplicationInit => CP!Init
  BY SameInit DEF ReplicationInit
<1>2. [ReplicationNext]_<<vars, consumerVars>> => [CP!Next]_(CP!vars)
  <2>1. CP!vars = consumerVars
    BY DEF CP!vars, consumerVars
  <2>2. ReplicationNext => CP!Next \/ UNCHANGED CP!vars
    BY ConsumerStep, SameNext DEF ReplicationNext, CP!vars, consumerVars
  <2>3. UNCHANGED <<vars, consumerVars>> => UNCHANGED CP!vars
    BY DEF CP!vars, consumerVars
  <2>4. QED BY <2>2, <2>3
<1>3. QED BY <1>1, <1>2, PTL DEF ReplicationSpec, CP!Spec

----------------------------------------------------------------------------
(* The consumer stays within the topic *)

Glue ==
    /\ Len(log) <= MaxLog
    /\ committed <= Len(log) + 1
    /\ position <= Len(log) + 1
    /\ C!InProcess \subseteq DOMAIN log

GInv == TypeOK /\ CP!TypeOK /\ Glue

(* The topic only grows, and not past its bound. *)
LEMMA TopicGrows ==
    ASSUME TypeOK, Next
    PROVE  \/ log' = log
           \/ Len(log) < MaxLog /\ \E i \in Changes : log' = Append(log, i)
<1>1. CASE KafkaDelivers
  <2>1. PICK i \in Changes : DeliverOk(i) \/ DeliverRetry(i) \/ DeliverFail(i)
    BY <1>1 DEF KafkaDelivers, Deliver
  <2>2. QED BY <2>1 DEF DeliverOk, DeliverRetry, DeliverFail, Stored
<1>2. CASE Start \/ StartFails \/ Kill \/ OperatorStart
  BY <1>2 DEF Start, OutputStart, StartFails, outputVars, Kill, Die, OutputDrop, OperatorStart
<1>3. CASE Read
  BY <1>3 DEF Read, ReadRelation, ReadMessage, ReadUnparsed, Die, OutputDrop, outputVars
<1>4. CASE Handle
  BY <1>4 DEF Handle, HandleRow, HandleTruncate, HandleOther, HandleThrows, Produce, Discard, outputVars
<1>5. CASE FinishMessage \/ ReadKeepalive \/ ReadCopyDone \/ ReadError \/ FlushAndExit
  BY <1>5 DEF FinishMessage, ReadKeepalive, ReadCopyDone, ReadError, FlushAndExit,
              OutputDrop, outputVars
<1>6. CASE ServerConfirms \/ ServerReleases
  BY <1>6 DEF ServerConfirms, ServerReleases, outputVars
<1>7. QED BY <1>1, <1>2, <1>3, <1>4, <1>5, <1>6 DEF Next

(* What a step of the consumer does to its offsets. *)
LEMMA ConsumerMoves ==
    ASSUME CP!TypeOK, ConsumerNext
    PROVE  /\ \/ position' \in {position, committed}
              \/ position <= Len(log) /\ position' = position + 1
           /\ committed' \in {committed, position}
           /\ \/ C!InProcess' \subseteq C!InProcess
              \/ position <= Len(log) /\ C!InProcess' \subseteq C!InProcess \cup {position}
<1>0. UNCHANGED <<buf, inHand, writing>> => C!InProcess' = C!InProcess
  BY DEF C!InProcess
<1>1. CASE C!Start \/ C!StartFails \/ C!OperatorStart \/ C!LoseConnection \/ C!AutoCommit \/ C!Evict
  <2>1. /\ UNCHANGED <<buf, inHand, writing>>
        /\ position' \in {position, committed} /\ committed' \in {committed, position}
    BY <1>1 DEF C!Start, C!StartFails, C!OperatorStart, C!LoseConnection, C!AutoCommit, C!Evict
  <2>2. QED BY <1>0, <2>1
<1>2. CASE C!Die
  <2>1. C!InProcess' = {} /\ UNCHANGED <<position, committed>>
    BY <1>2 DEF C!Die, C!InProcess
  <2>2. QED BY <2>1
<1>3. CASE ConsumeLogged
  <2>1. /\ position <= Len(log) /\ position' = position + 1 /\ inHand' = position
        /\ UNCHANGED <<buf, writing, committed>>
    BY <1>3 DEF ConsumeLogged, C!Consume
  <2>2. C!InProcess' \subseteq C!InProcess \cup {position}
    BY <2>1 DEF C!InProcess
  <2>3. QED BY <2>1, <2>2
<1>4. CASE C!Push
  <2>1. /\ buf' = Append(buf, inHand) /\ inHand # 0 /\ inHand' = 0
        /\ UNCHANGED <<position, committed, writing>>
    BY <1>4 DEF C!Push, C!Put
  <2>2. buf \in Seq(Offsets) /\ inHand \in Offsets
    BY <2>1 DEF CP!TypeOK, CP!FifoTypeOK, CP!Slot, Offsets
  <2>3. \A k \in DOMAIN buf' : (k \in DOMAIN buf /\ buf'[k] = buf[k]) \/ buf'[k] = inHand
    BY <2>1, <2>2
  <2>4. C!InProcess' \subseteq C!InProcess
    BY <2>1, <2>3 DEF C!InProcess
  <2>5. QED BY <2>1, <2>4
<1>5. CASE C!Pop
  <2>1. /\ buf # <<>> /\ writing' = Head(buf) /\ buf' = Tail(buf)
        /\ UNCHANGED <<position, committed, inHand>>
    BY <1>5 DEF C!Pop, C!Take
  <2>2. buf \in Seq(Offsets)
    BY DEF CP!TypeOK, CP!FifoTypeOK
  <2>3. 1 \in DOMAIN buf /\ writing' = buf[1]
    BY <2>1, <2>2
  <2>4. \A k \in DOMAIN buf' : k + 1 \in DOMAIN buf /\ buf'[k] = buf[k + 1]
    BY <2>1, <2>2
  <2>5. C!InProcess' \subseteq C!InProcess
    BY <2>1, <2>3, <2>4 DEF C!InProcess
  <2>6. QED BY <2>1, <2>5
<1>6. CASE C!Write
  <2>1. UNCHANGED <<buf, inHand, position, committed>> /\ writing' = 0
    BY <1>6 DEF C!Write
  <2>2. C!InProcess' \subseteq C!InProcess
    BY <2>1 DEF C!InProcess
  <2>3. QED BY <2>1, <2>2
<1>7. QED BY <1>1, <1>2, <1>3, <1>4, <1>5, <1>6 DEF ConsumerNext

LEMMA GlueStep ==
    ASSUME TypeOK, CP!TypeOK, Glue, ReplicationNext
    PROVE  Glue'
<1>0. log \in Seq(Changes) /\ Len(log) \in Nat /\ MaxLog \in Nat
      /\ committed \in Nat /\ position \in Nat
  BY OutputAssumption DEF TypeOK, OutputTypeOK, CP!TypeOK
<1>1. CASE Next /\ UNCHANGED consumerVars
  <2>1. C!InProcess' = C!InProcess /\ UNCHANGED <<committed, position>>
    BY <1>1 DEF consumerVars, C!InProcess
  <2>2. CASE log' = log
    BY <2>1, <2>2 DEF Glue
  <2>3. CASE Len(log) < MaxLog /\ \E i \in Changes : log' = Append(log, i)
    <3>1. Len(log') = Len(log) + 1 /\ DOMAIN log \subseteq DOMAIN log'
      BY <1>0, <2>3
    <3>2. QED BY <1>0, <2>1, <2>3, <3>1 DEF Glue
  <2>4. QED BY <1>1, <2>2, <2>3, TopicGrows
<1>2. CASE ConsumerNext /\ UNCHANGED vars
  <2>1. log' = log
    BY <1>2 DEF vars, outputVars
  <2>2. position <= Len(log) => position \in DOMAIN log
    <3>1. 1 <= position
      BY DEF CP!TypeOK
    <3>2. QED BY <1>0, <3>1
  <2>3. QED BY <1>0, <1>2, <2>1, <2>2, ConsumerMoves DEF Glue
<1>3. QED BY <1>1, <1>2 DEF ReplicationNext

LEMMA GlueInit == ReplicationInit => Glue
<1> SUFFICES ASSUME ReplicationInit PROVE Glue
  OBVIOUS
<1>1. log = <<>> /\ committed = 1 /\ position = 1
  BY DEF ReplicationInit, Init, OutputInit, C!Init
<1>2. C!InProcess = {}
  BY DEF ReplicationInit, C!Init, C!FifoInit, C!InProcess
<1>3. QED BY <1>1, <1>2, OutputAssumption DEF Glue

LEMMA GlueHolds == ReplicationSpec => []GInv
<1>1. CP!Spec => []CP!TypeOK
  BY ConsumerAssumptions, CP!TypeCorrect, PTL DEF CP!TypeCorrect
<1>2. GInv /\ [ReplicationNext]_<<vars, consumerVars>> => Glue'
  <2>1. ASSUME GInv, ReplicationNext PROVE Glue'
    BY <2>1, GlueStep DEF GInv
  <2>2. ASSUME GInv, UNCHANGED <<vars, consumerVars>> PROVE Glue'
    BY <2>2 DEF GInv, Glue, vars, outputVars, consumerVars, C!InProcess
  <2>3. QED BY <2>1, <2>2
<1>3. TypeOK /\ CP!TypeOK /\ Glue => GInv
  BY DEF GInv
<1>4. GInv => TypeOK /\ CP!TypeOK /\ Glue
  BY DEF GInv
<1>5. QED BY <1>1, <1>2, <1>3, <1>4, GlueInit, IsProducer, IsConsumer, TypeCorrect, PTL
          DEF ReplicationSpec
----------------------------------------------------------------------------
(* Theorems *)

(* A change the slot has confirmed is on its way, was tried on the target  *)
(* database, or is known to be gone.                                       *)
LEMMA Composed ==
    ASSUME GInv, ConfirmedAccounted, CP!CommittedAccounted
    PROVE  EndToEnd
<1> SUFFICES ASSUME NEW i \in Index, IsCommit(i), Stream[i].lsn <= confirmed,
                    NEW j \in Changes, j < i
             PROVE  j \in Underway \cup Reached \cup Gone
  BY DEF EndToEnd
<1>1. j \in Logged \cup queued \cup refused \cup lost
  BY DEF ConfirmedAccounted, Accounted
<1>2. CASE j \in Logged
  <2>1. PICK k \in DOMAIN log : j = log[k]
    BY <1>2 DEF Logged
  <2>2. k \in Offsets
    <3>1. log \in Seq(Changes) /\ Len(log) <= MaxLog /\ MaxLog \in Nat
      BY OutputAssumption DEF GInv, Glue, TypeOK, OutputTypeOK
    <3>2. QED BY <3>1 DEF Offsets
  <2>3. k >= committed \/ k \in CP!Handled \cup died \cup CP!InProcess
    <3>1. committed \in Nat /\ k \in Nat
      BY <2>2 DEF GInv, CP!TypeOK, Offsets
    <3>2. QED BY <2>2, <3>1 DEF CP!CommittedAccounted
  <2>4. k \in {o \in Offsets : o >= committed} \cup C!InProcess
        \/ k \in C!Handled \/ k \in died
    BY <2>2, <2>3, SameParts
  <2>5. QED BY <2>1, <2>4 DEF Underway, Reached, Gone, Carried
<1>3. QED BY <1>1, <1>2 DEF Underway, Gone

(* Theorem: EndToEnd, for every stream and topic and however the two       *)
(* processes interleave, die and start again.                              *)
THEOREM NothingUnaccounted == ReplicationSpec => []EndToEnd
<1>1. CP!Spec => []CP!CommittedAccounted
  BY ConsumerAssumptions, CP!NothingElseDropped, PTL DEF CP!NothingElseDropped
<1>2. QED BY <1>1, IsProducer, IsConsumer, GlueHolds, NothingSkipped, Composed, PTL

(* All of the pipeline but its last element is in the process. *)
LEMMA PipelineHolds ==
    ASSUME CP!TypeOK, NEW k \in 1 .. Len(C!Pipeline) - 1
    PROVE  C!Pipeline[k] \in C!InProcess
<1> DEFINE w == C!Held(writing)
           h == C!Held(inHand)
<1>1. buf \in Seq(Int) /\ writing \in Nat /\ inHand \in Nat /\ position \in Int
  <2>1. /\ buf \in Seq(Offsets) /\ writing \in 0 .. MaxLog /\ inHand \in 0 .. MaxLog
        /\ position \in 1 .. MaxLog + 1
    BY DEF CP!TypeOK, CP!FifoTypeOK, CP!Slot
  <2>2. Offsets \subseteq Int /\ MaxLog \in Nat
    BY OutputAssumption DEF Offsets
  <2>3. buf \in Seq(Int)
    BY <2>1, <2>2, SeqGrows
  <2>4. QED BY <2>1, <2>2, <2>3
<1>2. /\ w \in Seq(Int) /\ \A j \in DOMAIN w : w[j] \in {writing} \ {0}
      /\ h \in Seq(Int) /\ \A j \in DOMAIN h : h[j] \in {inHand} \ {0}
  BY <1>1 DEF C!Held
<1>3. C!Pipeline = w \o buf \o h \o <<position>>
  BY DEF C!Pipeline
<1> HIDE DEF w, h
<1>4. /\ w \o buf \in Seq(Int) /\ w \o buf \o h \in Seq(Int)
      /\ Len(w \o buf) = Len(w) + Len(buf) /\ Len(w \o buf \o h) = Len(w) + Len(buf) + Len(h)
      /\ Len(w) \in Nat /\ Len(buf) \in Nat /\ Len(h) \in Nat
  BY <1>1, <1>2
<1>5. Len(C!Pipeline) = Len(w) + Len(buf) + Len(h) + 1
  BY <1>1, <1>3, <1>4
<1>6. k \in 1 .. Len(w) + Len(buf) + Len(h) /\ C!Pipeline[k] = (w \o buf \o h)[k]
  BY <1>1, <1>3, <1>4, <1>5
<1>7. CASE k <= Len(w)
  BY <1>2, <1>4, <1>6, <1>7 DEF C!InProcess
<1>8. CASE k > Len(w) /\ k <= Len(w) + Len(buf)
  <2>1. C!Pipeline[k] = buf[k - Len(w)] /\ k - Len(w) \in DOMAIN buf
    BY <1>1, <1>2, <1>4, <1>6, <1>8
  <2>2. \A j \in DOMAIN buf : buf[j] # 0
    <3>1. \A j \in DOMAIN buf : buf[j] \in Offsets
      BY DEF CP!TypeOK, CP!FifoTypeOK
    <3>2. QED BY <3>1 DEF Offsets
  <2>3. QED BY <2>1, <2>2 DEF C!InProcess
<1>9. CASE k > Len(w) + Len(buf)
  <2>1. C!Pipeline[k] = h[k - (Len(w) + Len(buf))] /\ k - (Len(w) + Len(buf)) \in DOMAIN h
    BY <1>1, <1>2, <1>4, <1>6, <1>9
  <2>2. QED BY <1>2, <2>1 DEF C!InProcess
<1>10. QED BY <1>4, <1>6, <1>7, <1>8, <1>9

LEMMA Ordered ==
    ASSUME GInv, DisorderOnlyByRetry, CP!PipelineInOrder
    PROVE  SourceOrder
<1> SUFFICES ASSUME state = "up", evictions = 0, runStart = 0, retried = {},
                    NEW k \in 1 .. Len(C!Pipeline) - 2
             PROVE  log[C!Pipeline[k]] < log[C!Pipeline[k + 1]]
  BY DEF SourceOrder
<1> DEFINE a == C!Pipeline[k]
           b == C!Pipeline[k + 1]
<1>1. Len(C!Pipeline) \in Int
  OBVIOUS
<1>2. k \in 1 .. Len(C!Pipeline) - 1 /\ k + 1 \in 1 .. Len(C!Pipeline) - 1
  BY <1>1
<1>3. a \in DOMAIN log /\ b \in DOMAIN log
  BY <1>2, PipelineHolds DEF GInv, Glue
<1>4. a < b
  BY <1>2, SameParts DEF CP!PipelineInOrder
<1>5. log \in Seq(Changes) /\ Changes \subseteq Int
  BY DEF GInv, TypeOK, OutputTypeOK, Changes, Index
<1>6. a \in runStart + 1 .. Len(log) /\ b \in runStart + 1 .. Len(log)
  BY <1>3, <1>5
<1> HIDE DEF a, b
<1>7. ~(log[b] <= log[a])
  BY <1>4, <1>6 DEF DisorderOnlyByRetry
<1>8. log[a] \in Int /\ log[b] \in Int
  <2>1. \A c \in DOMAIN log : log[c] \in Changes
    BY <1>5
  <2>2. QED BY <1>3, <1>5, <2>1
<1>9. QED BY <1>7, <1>8 DEF a, b

(* Theorem: SourceOrder.  Both halves have to keep the order, and the      *)
(* consumer to hold nothing that the topic does not.                       *)
THEOREM SourceOrderKept == ReplicationSpec => []SourceOrder
<1>1. CP!Spec => []CP!PipelineInOrder
  BY ConsumerAssumptions, CP!OrderKept, PTL DEF CP!OrderKept
<1>2. QED BY <1>1, IsProducer, IsConsumer, GlueHolds, OnlyRetriesDisorder, Ordered, PTL
----------------------------------------------------------------------------
(* Nothing vanishes *)

Waiting == {o \in Offsets : o >= committed} \cup C!InProcess

LEMMA ConsumerKeeps ==
    ASSUME CP!IInv, ConsumerNext
    PROVE  /\ Waiting \subseteq Waiting' \cup C!Handled' \cup died'
           /\ C!Handled \subseteq C!Handled'
<1>0. /\ UNCHANGED <<buf, inHand, writing>> => C!InProcess' = C!InProcess
      /\ committed' = committed => {o \in Offsets : o >= committed}' = {o \in Offsets : o >= committed}
      /\ UNCHANGED <<written, failed>> => C!Handled' = C!Handled
  BY DEF C!InProcess, C!Handled
<1> USE DEF Waiting
<1>1. CASE C!Start \/ C!StartFails \/ C!OperatorStart \/ C!LoseConnection \/ C!Evict
  <2>1. UNCHANGED <<buf, inHand, writing, committed, written, failed>>
    BY <1>1 DEF C!Start, C!StartFails, C!OperatorStart, C!LoseConnection, C!Evict
  <2>2. QED BY <1>0, <2>1
<1>2. CASE C!AutoCommit
  <2>1. /\ UNCHANGED <<buf, inHand, writing, written, failed, died>>
        /\ state = "up" /\ committed < position /\ committed' = position
    BY <1>2 DEF C!AutoCommit
  <2>2. \A o \in Offsets : o < position => o \in C!Handled \cup died \cup C!InProcess
    BY <2>1, SameParts DEF CP!IInv, CP!ConsumedAccounted, CP!Accounted
  <2>3. \A o \in Offsets : o >= position \/ o < position
    BY DEF CP!IInv, CP!TypeOK, Offsets
  <2>4. QED BY <1>0, <2>1, <2>2, <2>3
<1>3. CASE C!Die
  <2>1. /\ UNCHANGED <<committed, written, failed>>
        /\ died' = died \cup {o \in C!InProcess : o < committed /\ o \notin C!Handled}
    BY <1>3 DEF C!Die
  <2>2. \A o \in C!InProcess : o \in Offsets
    BY ConsumerAssumptions, CP!InProcessMessages, SameParts DEF CP!InProcessMessages, CP!IInv
  <2>3. \A o \in Offsets : o >= committed \/ o < committed
    BY DEF CP!IInv, CP!TypeOK, Offsets
  <2>4. QED BY <1>0, <2>1, <2>2, <2>3
<1>4. CASE ConsumeLogged
  <2>1. UNCHANGED <<buf, writing, committed, written, failed>> /\ inHand = 0
    BY <1>4 DEF ConsumeLogged, C!Consume
  <2>2. C!InProcess \subseteq C!InProcess'
    BY <2>1 DEF C!InProcess
  <2>3. QED BY <1>0, <2>1, <2>2
<1>5. CASE C!Push
  <2>1. /\ buf' = Append(buf, inHand) /\ inHand # 0 /\ inHand' = 0
        /\ UNCHANGED <<committed, writing, written, failed>>
    BY <1>5 DEF C!Push, C!Put
  <2>2. buf \in Seq(Offsets) /\ inHand \in Offsets
    BY <2>1 DEF CP!IInv, CP!TypeOK, CP!FifoTypeOK, CP!Slot, Offsets
  <2>3. /\ \A k \in DOMAIN buf : k \in DOMAIN buf' /\ buf'[k] = buf[k]
        /\ Len(buf) + 1 \in DOMAIN buf' /\ buf'[Len(buf) + 1] = inHand
    BY <2>1, <2>2
  <2>4. C!InProcess \subseteq C!InProcess'
    BY <2>1, <2>3 DEF C!InProcess
  <2>5. QED BY <1>0, <2>1, <2>4
<1>6. CASE C!Pop
  <2>1. /\ buf # <<>> /\ writing' = Head(buf) /\ buf' = Tail(buf) /\ writing = 0
        /\ UNCHANGED <<committed, inHand, written, failed>>
    BY <1>6 DEF C!Pop, C!Take
  <2>2. buf \in Seq(Offsets)
    BY DEF CP!IInv, CP!TypeOK, CP!FifoTypeOK
  <2>3. \A k \in DOMAIN buf :
           buf[k] = writing' \/ (k - 1 \in DOMAIN buf' /\ buf'[k - 1] = buf[k])
    BY <2>1, <2>2
  <2>4. C!InProcess \subseteq C!InProcess'
    BY <2>1, <2>3 DEF C!InProcess
  <2>5. QED BY <1>0, <2>1, <2>4
<1>7. CASE C!Write
  <2>1. UNCHANGED <<buf, inHand, committed>> /\ C!Handled' = C!Handled \cup {writing}
    BY <1>7 DEF C!Write, C!Handled
  <2>2. C!InProcess \subseteq C!InProcess' \cup {writing}
    BY <2>1 DEF C!InProcess
  <2>3. QED BY <1>0, <2>1, <2>2
<1>8. QED BY <1>1, <1>2, <1>3, <1>4, <1>5, <1>6, <1>7 DEF ConsumerNext

(* What a step of the producer does to its queue. *)
LEMMA ProducerKeeps ==
    ASSUME IInv, Next, NEW i \in queued
    PROVE  i \in queued' \/ i \in lost' \/ log' = Append(log, i)
<1>1. CASE KafkaDelivers
  <2>1. PICK j \in Changes : DeliverOk(j) \/ DeliverRetry(j) \/ DeliverFail(j)
    BY <1>1 DEF KafkaDelivers, Deliver
  <2>2. QED BY <2>1 DEF DeliverOk, DeliverRetry, DeliverFail, Stored
<1>2. CASE Start
  BY <1>2 DEF Start, IInv, IdleInv
<1>3. CASE StartFails \/ OperatorStart
  BY <1>3 DEF StartFails, OperatorStart, outputVars
<1>4. CASE Kill \/ FlushAndExit
  BY <1>4 DEF Kill, Die, FlushAndExit, OutputDrop
<1>5. CASE Read
  BY <1>5 DEF Read, ReadRelation, ReadMessage, ReadUnparsed, Die, OutputDrop, outputVars
<1>6. CASE Handle
  BY <1>6 DEF Handle, HandleRow, HandleTruncate, HandleOther, HandleThrows, Produce, Discard, outputVars
<1>7. CASE FinishMessage \/ ReadKeepalive \/ ReadCopyDone \/ ReadError
  BY <1>7 DEF FinishMessage, ReadKeepalive, ReadCopyDone, ReadError, outputVars
<1>8. CASE ServerConfirms \/ ServerReleases
  BY <1>8 DEF ServerConfirms, ServerReleases, outputVars
<1>9. QED BY <1>1, <1>2, <1>3, <1>4, <1>5, <1>6, <1>7, <1>8 DEF Next

Kept ==
    /\ Underway \subseteq (Underway \cup Reached \cup Gone)'
    /\ Reached \subseteq Reached'

LEMMA KeptStep ==
    ASSUME IInv, CP!IInv, Glue, ReplicationNext
    PROVE  Kept
<1>1. CASE ConsumerNext /\ UNCHANGED vars
  <2>1. UNCHANGED <<log, queued>>
    BY <1>1 DEF vars, outputVars
  <2>2. QED BY <1>1, <2>1, ConsumerKeeps DEF Kept, Underway, Reached, Gone, Carried, Waiting
<1>2. CASE Next /\ UNCHANGED consumerVars
  <2>1. Waiting' = Waiting /\ C!Handled' = C!Handled /\ committed' = committed
    BY <1>2 DEF consumerVars, Waiting, C!InProcess, C!Handled
  <2>2. log \in Seq(Changes) /\ Len(log) \in Nat
    BY DEF IInv, TypeOK, OutputTypeOK
  <2>3. \A o \in DOMAIN log : o \in DOMAIN log' /\ log'[o] = log[o]
    BY <1>2, <2>2, TopicGrows DEF IInv
  <2>4. /\ Carried(Waiting) \subseteq Carried(Waiting)'
        /\ Carried(C!Handled) \subseteq Carried(C!Handled)'
    BY <2>1, <2>3 DEF Carried
  <2>5. ASSUME NEW i \in queued PROVE i \in queued' \cup lost' \cup Carried(Waiting)'
    <3>1. CASE i \in queued' \/ i \in lost'
      BY <3>1
    <3>2. CASE log' = Append(log, i) /\ log' # log
      <4>1. Len(log) < MaxLog
        BY <1>2, <3>2, TopicGrows DEF IInv
      <4>2. Len(log) + 1 \in DOMAIN log' /\ log'[Len(log) + 1] = i
        BY <2>2, <3>2
      <4>3. Len(log) + 1 \in Waiting'
        BY <2>1, <2>2, <4>1, OutputAssumption DEF Waiting, Glue, Offsets
      <4>4. QED BY <4>2, <4>3 DEF Carried
    <3>3. Append(log, i) # log
      <4>1. Len(Append(log, i)) = Len(log) + 1
        BY <2>2
      <4>2. QED BY <2>2, <4>1
    <3>4. QED BY <1>2, <3>1, <3>2, <3>3, ProducerKeeps
  <2>6. QED BY <2>4, <2>5 DEF Kept, Underway, Reached, Gone, Waiting
<1>3. QED BY <1>1, <1>2 DEF ReplicationNext

(* Theorem: NothingVanishes.  It takes the invariants of both halves: that *)
(* nothing is queued while the producer is down, and that the consumer     *)
(* accounts for all it has consumed before it commits.                     *)
THEOREM NothingEverVanishes == ReplicationSpec => NothingVanishes
<1>1. CP!Spec => []CP!IInv
  BY ConsumerAssumptions, CP!Inductive, PTL DEF CP!Inductive
<1>2. IInv /\ CP!IInv /\ GInv /\ [ReplicationNext]_<<vars, consumerVars>>
         => [Kept]_<<vars, consumerVars>>
  BY KeptStep DEF GInv
<1>3. NothingVanishes <=> [][Kept]_<<vars, consumerVars>>
  BY PTL DEF NothingVanishes, Kept
<1>4. QED BY <1>1, <1>2, <1>3, IsProducer, IsConsumer, GlueHolds, Invariance, PTL
          DEF ReplicationSpec
====
