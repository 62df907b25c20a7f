---- MODULE KafkaOutput ----
(***************************************************************************)
(* The producing half of producer_azs/producer_librdkafka.cpp: the local   *)
(* queue of librdkafka behind LibrdKafkaProducer, and the topic it writes. *)
(* The topic has one partition (kafka_service's broker template).  A Kafka *)
(* message is the index in Stream of the change it carries.                *)
(***************************************************************************)
EXTENDS ChangeStream

CONSTANTS
    Oversized,   \* the changes whose JSON exceeds message.max.bytes
    Retries,     \* the "retries" setting of init
    MaxLog       \* bound on the length of the topic

ASSUME OutputAssumption ==
    /\ Retries \in Nat
    /\ MaxLog \in Nat

VARIABLES
    queued,    \* changes produced and not yet reported delivered or failed
    attempts,  \* failed delivery attempts of each queued change
    log,       \* the topic
    retried,   \* changes that needed a retry in this run of the process
    refused,   \* changes produce() refused, or whose handler threw before it
    lost,      \* changes that failed or were dropped unreported
    runStart   \* length of the topic when this run of the process started

outputVars == <<queued, attempts, log, retried, refused, lost, runStart>>

OutputTypeOK ==
    /\ queued \in SUBSET Changes
    /\ attempts \in [Index -> 0 .. Retries]
    /\ log \in Seq(Changes)
    /\ retried \in SUBSET Changes
    /\ refused \in SUBSET Changes
    /\ lost \in SUBSET Changes
    /\ runStart \in Nat

OutputInit ==
    /\ queued = {}
    /\ attempts = [i \in Index |-> 0]
    /\ log = <<>>
    /\ retried = {}
    /\ refused = {}
    /\ lost = {}
    /\ runStart = 0

Logged == {log[k] : k \in DOMAIN log}

(* The changes something is known to have become of: they are in the       *)
(* topic, on their way, refused or lost.                                   *)
Accounted == Logged \cup queued \cup refused \cup lost

(* LibrdKafkaProducer::init in a new process, which will read the stream   *)
(* after message p: what was refused or lost after p is about to come      *)
(* again.                                                                  *)
OutputStart(p) ==
    /\ queued' = {}
    /\ attempts' = [i \in Index |-> 0]
    /\ retried' = {}
    /\ runStart' = Len(log)
    /\ refused' = {i \in refused : i <= p}
    /\ lost' = {i \in lost : i <= p}
    /\ UNCHANGED log

(* sendMessage: produce() copies the message into the queue or refuses it; *)
(* the callers of sendJson ignore which.                                   *)
Produce(i) ==
    /\ IF i \in Oversized
       THEN refused' = refused \cup {i} /\ UNCHANGED queued
       ELSE queued' = queued \cup {i} /\ UNCHANGED refused
    /\ attempts' = [attempts EXCEPT ![i] = 0]
    /\ UNCHANGED <<log, retried, lost, runStart>>

(* An exception, of an allocation say, before produce() is called. *)
Discard(i) ==
    /\ refused' = refused \cup {i}
    /\ UNCHANGED <<queued, attempts, log, retried, lost, runStart>>

(* Several requests may be in flight, so a message overtakes the earlier   *)
(* ones that wait for a retry, and no others.                              *)
Sendable(i) ==
    /\ i \in queued
    /\ \A j \in queued : j < i => attempts[j] > 0

Stored(i) == Len(log) < MaxLog /\ log' = Append(log, i)

(* The broker stores the message and the report reaches the producer. *)
DeliverOk(i) ==
    /\ Sendable(i)
    /\ Stored(i)
    /\ queued' = queued \ {i}
    /\ UNCHANGED <<attempts, retried, refused, lost, runStart>>

(* Mutated form of DeliverRetry: no limit on the retries. *)
DeliverRetryForever(i) ==
    /\ Sendable(i)
    /\ attempts' = [attempts EXCEPT ![i] = @ + 1]
    /\ retried' = retried \cup {i}
    /\ Stored(i) \/ UNCHANGED log
    /\ UNCHANGED <<queued, refused, lost, runStart>>

(* The request fails or its answer is lost after the broker stored it, and *)
(* librdkafka tries again.                                                 *)
DeliverRetry(i) ==
    /\ Sendable(i)
    /\ attempts[i] < Retries
    /\ attempts' = [attempts EXCEPT ![i] = @ + 1]
    /\ retried' = retried \cup {i}
    /\ Stored(i) \/ UNCHANGED log
    /\ UNCHANGED <<queued, refused, lost, runStart>>

(* The message times out or fails for good, perhaps after the broker       *)
(* stored it.  DeliveryCb::dr_cb counts an error and nothing else happens. *)
DeliverFail(i) ==
    /\ i \in queued
    /\ queued' = queued \ {i}
    /\ lost' = lost \cup {i}
    /\ (Sendable(i) /\ Stored(i)) \/ UNCHANGED log
    /\ UNCHANGED <<attempts, retried, refused, runStart>>

(* The process is gone and its queue with it. *)
OutputDrop ==
    /\ lost' = lost \cup queued
    /\ queued' = {}
    /\ UNCHANGED <<attempts, log, retried, refused, runStart>>

Deliver ==
    \E i \in Changes : DeliverOk(i) \/ DeliverRetry(i) \/ DeliverFail(i)
====
