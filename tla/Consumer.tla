---- MODULE Consumer ----
(***************************************************************************)
(* The consumer process (consumer_bo/): ReplicationConsumer with its two   *)
(* threads, one that consumes the topic and pushes into the queue, one     *)
(* that pops and writes to the target database, under the service manager  *)
(* (services/rdkafka_consumer.service).  The queue is BoundedFifo, which   *)
(* SafeQueue implements.  A message is its offset in the topic, which has  *)
(* one partition; position and committed are offsets too, of the next      *)
(* message to consume.                                                     *)
(***************************************************************************)
EXTENDS BoundedFifo, FiniteSets

CONSTANTS
    TopicLen,      \* length of the topic
    Malformed,     \* messages that are not JSON
    Refusable,     \* messages whose statement the database may refuse
    MaxDeaths,     \* bound on deaths of the process
    MaxEvictions   \* bound on evictions from the consumer group

ASSUME TopicAssumption ==
    /\ TopicLen \in Nat
    /\ Messages = 1 .. TopicLen
    /\ Malformed \subseteq Messages
    /\ Refusable \subseteq Messages

VARIABLES
    state,      \* of the process, see States
    position,   \* next offset consume() returns; also the stored offset
    committed,  \* the group's committed offset, kept by the broker
    inHand,     \* the message in the consuming thread, 0 for none
    writing,    \* the message in the writing thread, 0 for none
    connected,  \* the connection to the target database works
    written,    \* messages whose statement succeeded
    failed,     \* messages whose statement failed
    lost,       \* committed messages that died with a process
    deaths,
    evictions

vars == <<buf, state, position, committed, inHand, writing, connected,
          written, failed, lost, deaths, evictions>>

(* down    not running, and the service manager will start it              *)
(* up      both threads in their loops                                     *)
(* exited  main returned 0 and the process stays down                      *)
States == {"down", "up", "exited"}

Slot == 0 .. TopicLen   \* what a thread holds: a message or nothing

TypeOK ==
    /\ FifoTypeOK
    /\ state \in States
    /\ position \in 1 .. TopicLen + 1
    /\ committed \in 1 .. TopicLen + 1
    /\ inHand \in Slot
    /\ writing \in Slot
    /\ connected \in BOOLEAN
    /\ written \in SUBSET Messages
    /\ failed \in SUBSET Messages
    /\ lost \in SUBSET Messages
    /\ deaths \in Nat
    /\ evictions \in Nat

(* auto.offset.reset = earliest: a new group starts at the first message. *)
Init ==
    /\ FifoInit
    /\ state = "down"
    /\ position = 1
    /\ committed = 1
    /\ inHand = 0
    /\ writing = 0
    /\ connected = FALSE
    /\ written = {}
    /\ failed = {}
    /\ lost = {}
    /\ deaths = 0
    /\ evictions = 0

InProcess == ({buf[k] : k \in DOMAIN buf} \cup {inHand, writing}) \ {0}
Handled == written \cup failed
----------------------------------------------------------------------------
(* Starting and stopping *)

(* The constructor connects to the database, subscribes and starts both    *)
(* threads; consuming resumes at the committed offset.                     *)
Start ==
    /\ state = "down"
    /\ state' = "up"
    /\ position' = committed
    /\ connected' = TRUE
    /\ UNCHANGED <<buf, committed, inHand, writing, written, failed, lost, deaths, evictions>>

(* DatabaseWriter or LibRdkafkaConsumer throws: main catches the exception *)
(* and returns 0.                                                          *)
StartFails ==
    /\ state = "down"
    /\ state' = "exited"
    /\ UNCHANGED <<buf, position, committed, inHand, writing, connected,
                   written, failed, lost, deaths, evictions>>

OperatorStart ==
    /\ state = "exited"
    /\ state' = "down"
    /\ UNCHANGED <<buf, position, committed, inHand, writing, connected,
                   written, failed, lost, deaths, evictions>>

(* The destructor joins threads that never end, so nothing ends the        *)
(* process but a signal, and it handles none: one systemd counts as clean, *)
(* after which it stays down, or one that it does not, for instance from   *)
(* the overrun buffer of escapeString.  What is in memory is gone, and     *)
(* what is committed will not be consumed again.                           *)
Die ==
    /\ state = "up"
    /\ deaths < MaxDeaths
    /\ deaths' = deaths + 1
    /\ state' \in {"down", "exited"}
    /\ buf' = <<>>
    /\ inHand' = 0
    /\ writing' = 0
    /\ lost' = lost \cup {o \in InProcess : o < committed /\ o \notin Handled}
    /\ UNCHANGED <<position, committed, connected, written, failed, evictions>>
----------------------------------------------------------------------------
(* The consuming thread: startConsuming and its callback saveIntoQueue *)

(* consume() returns a message and stores its offset.  One that does not   *)
(* parse only goes to the error callback.                                  *)
Consume ==
    /\ state = "up"
    /\ inHand = 0
    /\ position <= TopicLen
    /\ position' = position + 1
    /\ IF position \in Malformed THEN UNCHANGED inHand ELSE inHand' = position
    /\ UNCHANGED <<buf, state, committed, writing, connected,
                   written, failed, lost, deaths, evictions>>

(* Mutated form of Push: a message that finds the queue full is dropped. *)
PushOrDrop ==
    /\ inHand # 0
    /\ Put(inHand) \/ (Len(buf) = Capacity /\ UNCHANGED buf)
    /\ inHand' = 0
    /\ UNCHANGED <<state, position, committed, writing, connected,
                   written, failed, lost, deaths, evictions>>

(* The callback pushes, and blocks while the queue is full. *)
Push ==
    /\ inHand # 0
    /\ Put(inHand)
    /\ inHand' = 0
    /\ UNCHANGED <<state, position, committed, writing, connected,
                   written, failed, lost, deaths, evictions>>
----------------------------------------------------------------------------
(* The writing thread: loadFromQueue *)

Pop ==
    /\ state = "up"
    /\ writing = 0
    /\ \E m \in Messages : Take(m) /\ writing' = m
    /\ UNCHANGED <<state, position, committed, inHand, connected,
                   written, failed, lost, deaths, evictions>>

(* handlerIncomingData reports failure to a caller that does not look. *)
Write ==
    /\ writing # 0
    /\ \/ /\ connected
          /\ written' = written \cup {writing}
          /\ UNCHANGED failed
       \/ /\ connected => writing \in Refusable
          /\ failed' = failed \cup {writing}
          /\ UNCHANGED written
    /\ writing' = 0
    /\ UNCHANGED <<buf, state, position, committed, inHand, connected,
                   lost, deaths, evictions>>

(* Nothing connects again: the connection is made in the constructor only. *)
LoseConnection ==
    /\ state = "up"
    /\ connected
    /\ connected' = FALSE
    /\ UNCHANGED <<buf, state, position, committed, inHand, writing,
                   written, failed, lost, deaths, evictions>>
----------------------------------------------------------------------------
(* librdkafka's thread and the broker *)

(* Mutated form of AutoCommit: it commits the offset of the last message   *)
(* instead of the next one.                                                *)
AutoCommitLast ==
    /\ state = "up"
    /\ committed < position - 1
    /\ committed' = position - 1
    /\ UNCHANGED <<buf, state, position, inHand, writing, connected,
                   written, failed, lost, deaths, evictions>>

(* enable.auto.commit: the stored offset is committed every five seconds,  *)
(* whether or not the messages before it were written.                     *)
AutoCommit ==
    /\ state = "up"
    /\ committed < position
    /\ committed' = position
    /\ UNCHANGED <<buf, state, position, inHand, writing, connected,
                   written, failed, lost, deaths, evictions>>

(* A push that blocks for max.poll.interval.ms gets the process expelled   *)
(* from its group; it joins again at the committed offset.                 *)
Evict ==
    /\ state = "up"
    /\ inHand # 0 /\ Len(buf) = Capacity
    /\ evictions < MaxEvictions
    /\ evictions' = evictions + 1
    /\ position' = committed
    /\ UNCHANGED <<buf, state, committed, inHand, writing, connected,
                   written, failed, lost, deaths>>
----------------------------------------------------------------------------
Next ==
    \/ Start \/ StartFails \/ OperatorStart \/ Die
    \/ Consume \/ Push
    \/ Pop \/ Write \/ LoseConnection
    \/ AutoCommit \/ Evict

Spec == Init /\ [][Next]_vars

(* The service manager starts the process, its threads run, and librdkafka *)
(* commits.  Deaths, evictions, failures of the database and operators are  *)
(* never obliged to come.                                                  *)
Fairness ==
    /\ WF_vars(Start \/ StartFails)
    /\ WF_vars(Consume)
    /\ WF_vars(Push)
    /\ WF_vars(Pop)
    /\ WF_vars(Write)
    /\ WF_vars(AutoCommit)

FairSpec == Spec /\ Fairness
----------------------------------------------------------------------------
(* Properties *)

(* A committed message - the group will never consume it again - has been  *)
(* tried on the database, is still in the process, or died with one: the   *)
(* threads, the queue, restarts and evictions drop nothing else.           *)
CommittedAccounted ==
    \A o \in Messages \ Malformed :
        o < committed => o \in Handled \cup lost \cup InProcess

(* Committing before writing costs at most what fits into a process for    *)
(* each death: the queue, one message in each thread.                       *)
LossBounded == Cardinality(lost) <= deaths * (Capacity + 2)

(* The messages on their way to the database, oldest first, ending with    *)
(* the one consumed next.                                                  *)
Held(m) == IF m = 0 THEN <<>> ELSE <<m>>
Pipeline == Held(writing) \o buf \o Held(inHand) \o <<position>>

(* The database sees the topic in order and without a gap: what follows a  *)
(* message in the process is the next one that parses, unless an eviction  *)
(* moved consuming back, which can only repeat messages, not skip any.     *)
PipelineInOrder ==
    state = "up" =>
        \A k \in 1 .. Len(Pipeline) - 1 :
            /\ \A o \in Pipeline[k] + 1 .. Pipeline[k + 1] - 1 : o \in Malformed
            /\ evictions = 0 => Pipeline[k] < Pipeline[k + 1]

(* Whatever dies or is expelled on the way, the topic is in the end       *)
(* consumed, committed and off the process's hands, or the process is not  *)
(* running for want of a database or a broker.                             *)
TopicDrains ==
    <>[](state # "up" \/ (committed = TopicLen + 1 /\ InProcess = {}))
====
