---- MODULE Replication ----
(***************************************************************************)
(* The whole system: the producer (Producer, with the slot and Kafka) and  *)
(* the consumer (Consumer) on the topic between them.  A message of the    *)
(* consumer is an offset o of the topic log, and log[o] is the change of   *)
(* the source it carries.  The processes share nothing else.               *)
(***************************************************************************)
EXTENDS Producer

CONSTANTS Capacity, MaxDeaths, MaxEvictions   \* as in Consumer

ASSUME CapacityPositive == Capacity \in Nat \ {0}

VARIABLES
    buf, state, position, committed, inHand, writing, connected,
    written, failed, deaths, evictions,   \* as in Consumer
    died    \* Consumer's lost: committed messages that died with a consumer

consumerVars == <<buf, state, position, committed, inHand, writing, connected,
                  written, failed, died, deaths, evictions>>

Offsets == 1 .. MaxLog

C == INSTANCE Consumer WITH
        Messages <- Offsets, TopicLen <- MaxLog, Malformed <- {},
        Refusable <- Offsets, lost <- died

ReplicationInit == Init /\ C!Init

(* The consumer gets what the topic holds. *)
ConsumeLogged == position <= Len(log) /\ C!Consume

ConsumerNext ==
    \/ C!Start \/ C!StartFails \/ C!OperatorStart \/ C!Die
    \/ ConsumeLogged \/ C!Push
    \/ C!Pop \/ C!Write \/ C!LoseConnection
    \/ C!AutoCommit \/ C!Evict

ReplicationNext ==
    \/ Next /\ UNCHANGED consumerVars
    \/ ConsumerNext /\ UNCHANGED vars

ReplicationSpec == ReplicationInit /\ [][ReplicationNext]_<<vars, consumerVars>>
----------------------------------------------------------------------------
(* Properties *)

Carried(offsets) == {log[o] : o \in offsets \cap DOMAIN log}

(* The changes on their way, those whose statement was tried, and those    *)
(* that Kafka refused or a handler gave up, or that were dropped or died   *)
(* with a process.                                                         *)
Underway == queued \cup Carried({o \in Offsets : o >= committed} \cup C!InProcess)
Reached == Carried(C!Handled)
Gone == refused \cup lost \cup Carried(died)

(* A change of a transaction the slot has confirmed, which PostgreSQL will *)
(* never send again, is on its way to the target database, was tried on    *)
(* it, or is known to be gone, wherever the two processes, their queues    *)
(* and their restarts stand.                                               *)
EndToEnd ==
    \A i \in Index : IsCommit(i) /\ Stream[i].lsn <= confirmed =>
        \A j \in Changes : j < i => j \in Underway \cup Reached \cup Gone

(* No step of either process makes a change that is on its way vanish      *)
(* without reaching the database or being counted as gone, nor forgets one *)
(* that reached it.                                                        *)
NothingVanishes ==
    [][/\ Underway \subseteq (Underway \cup Reached \cup Gone)'
       /\ Reached \subseteq Reached']_<<vars, consumerVars>>

(* In the first run of the producer, without retries, the target database  *)
(* sees the changes in the order of the source, unless an eviction makes   *)
(* the consumer repeat some.  (The last of the pipeline is the position of *)
(* what was not consumed yet.)                                             *)
SourceOrder ==
    state = "up" /\ evictions = 0 /\ runStart = 0 /\ retried = {} =>
        \A k \in 1 .. Len(C!Pipeline) - 2 : log[C!Pipeline[k]] < log[C!Pipeline[k + 1]]
====
