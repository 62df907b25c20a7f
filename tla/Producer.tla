---- MODULE Producer ----
(***************************************************************************)
(* The producer process (producer_azs/): PostgresqlReplicator reading one  *)
(* message of the replication stream at a time, parsing it, handing the    *)
(* change to Kafka and acknowledging the message's LSN, under the service  *)
(* manager that starts it (services/rdkafka_producer.service).             *)
(*                                                                         *)
(* Its one thread is split where something else can come in between: after *)
(* a message is read and parsed, after the change is produced, and after   *)
(* the LSN is acknowledged.                                                *)
(***************************************************************************)
EXTENDS LogicalSlot, KafkaOutput

CONSTANT MaxRestarts   \* bound on kills and on operator restarts together

VARIABLES
    proc,      \* where the process is, see ProcStates
    cur,       \* the message being handled: an index of Stream, 0 for an 'R'
    cache,     \* relation_cache_: version known of each table, 0 for none
    received,  \* stats_.received_lsn
    applied,   \* stats_.applied_lsn, which is also the restart_lsn reported
    restarts   \* kills and operator restarts so far

procVars == <<proc, cur, cache, received, applied, restarts>>
vars == <<slotVars, outputVars, procVars>>

(* down     not running, and the service manager will start it             *)
(* idle     waiting in PQgetCopyData                                       *)
(* parsed   a 'w' message is read and parsed                               *)
(* handled  handleMessage has returned                                     *)
(* ended    PQgetCopyData reported the end of the copy stream (-1)         *)
(* closing  an exception left the loop; destructors flush the producer     *)
(* exited   the process returned 0 and stays down                          *)
ProcStates == {"down", "idle", "parsed", "handled", "ended", "closing", "exited"}
Attached == {"idle", "parsed", "handled", "ended"}

TypeOK ==
    /\ SlotTypeOK
    /\ OutputTypeOK
    /\ proc \in ProcStates
    /\ cur \in 0 .. Len(Stream)
    /\ cache \in [Relations -> Nat]
    /\ received \in Nat
    /\ applied \in Nat
    /\ restarts \in Nat

Init ==
    /\ SlotInit
    /\ OutputInit
    /\ proc = "down"
    /\ cur = 0
    /\ cache = NoSchema
    /\ received = 0
    /\ applied = 0
    /\ restarts = 0
----------------------------------------------------------------------------
(* Starting and stopping *)

(* RESTART_LSN in replicator.conf is empty, which parseLSN reads as 0/0,   *)
(* and ConfigManager::save does not write.                                 *)
RestartLsn == 0

(* The constructor connects, creates the Kafka producer, reuses the slot   *)
(* and starts replication; parser and statistics are new.                  *)
Start ==
    /\ proc = "down"
    /\ SlotAcquire(RestartLsn)
    /\ OutputStart(pos')
    /\ proc' = "idle"
    /\ cur' = 0
    /\ cache' = NoSchema
    /\ received' = 0
    /\ applied' = 0
    /\ UNCHANGED restarts

(* The database cannot be reached, or START_REPLICATION is refused because *)
(* the slot is still held by the previous connection: main catches the     *)
(* exception and returns 0.                                                *)
StartFails ==
    /\ proc = "down"
    /\ proc' = "exited"
    /\ UNCHANGED <<slotVars, outputVars, cur, cache, received, applied, restarts>>

(* The process dies of a signal and Restart=on-failure applies.  A stop by *)
(* SIGTERM looks the same once an operator has started the process again.  *)
Die ==
    /\ OutputDrop
    /\ proc' = "down"
    /\ UNCHANGED <<cur, cache, received, applied>>

Kill ==
    /\ proc \in Attached \cup {"closing"}
    /\ restarts < MaxRestarts
    /\ restarts' = restarts + 1
    /\ Die
    /\ UNCHANGED slotVars

(* systemctl start, by hand. *)
OperatorStart ==
    /\ proc = "exited"
    /\ restarts < MaxRestarts
    /\ restarts' = restarts + 1
    /\ proc' = "down"
    /\ UNCHANGED <<slotVars, outputVars, cur, cache, received, applied>>
----------------------------------------------------------------------------
(* The read loop: startReadReplicationMessages and parsePacket *)

(* sendStandbyStatusUpdate reports the applied LSN in every position. *)
Reply(lsn) ==
    /\ Len(replies) < MaxReplies
    /\ replies' = Append(replies, lsn)
    /\ UNCHANGED <<confirmed, active, pos, sent>>

(* Mutated form of ReadRelation: the description is not cached. *)
ReadRelationUncached(r) ==
    /\ proc = "idle"
    /\ r \notin CustomTyped
    /\ SendRelation(r)
    /\ received' = 0
    /\ cur' = 0
    /\ proc' = "parsed"
    /\ UNCHANGED <<outputVars, cache, applied, restarts>>

(* Mutated form of ReadRelation: a table already cached is not replaced. *)
ReadRelationEmplaced(r) ==
    /\ proc = "idle"
    /\ r \notin CustomTyped
    /\ SendRelation(r)
    /\ cache' = IF cache[r] # 0 THEN cache
                ELSE [cache EXCEPT ![r] = Stream[pos + 1].schema[r]]
    /\ received' = 0
    /\ cur' = 0
    /\ proc' = "parsed"
    /\ UNCHANGED <<outputVars, applied, restarts>>

(* An 'R' message.  Its header carries no position, and the description    *)
(* replaces the cached one.                                                *)
ReadRelation(r) ==
    /\ proc = "idle"
    /\ r \notin CustomTyped
    /\ SendRelation(r)
    /\ cache' = [cache EXCEPT ![r] = Stream[pos + 1].schema[r]]
    /\ received' = 0
    /\ cur' = 0
    /\ proc' = "parsed"
    /\ UNCHANGED <<outputVars, applied, restarts>>

(* Any message parseMessage has a case for. *)
ReadMessage ==
    /\ proc = "idle"
    /\ SendNext
    /\ Stream[pos + 1].kind # "O"
    /\ received' = Stream[pos + 1].lsn
    /\ cur' = pos + 1
    /\ proc' = "parsed"
    /\ UNCHANGED <<outputVars, cache, applied, restarts>>

(* Mutated form of ReadUnparsed: a null message is skipped. *)
ReadUnparsedSkipped ==
    /\ proc = "idle"
    /\ \/ /\ \E r \in CustomTyped :
              /\ SendRelation(r)
              /\ cache' = [cache EXCEPT ![r] = Stream[pos + 1].schema[r]]
          /\ cur' = 0
          /\ received' = 0
       \/ /\ SendNext
          /\ Stream[pos + 1].kind = "O"
          /\ cur' = pos + 1
          /\ received' = Stream[pos + 1].lsn
          /\ UNCHANGED cache
    /\ proc' = "handled"
    /\ UNCHANGED <<outputVars, applied, restarts>>

(* A message for which parseMessage returns a null pointer, which          *)
(* handleMessage dereferences: a 'Y' before the description of a table     *)
(* with a user-defined type, a kind without a case, or a TRUNCATE, whose   *)
(* parse reads from an uninitialised offset and may run off the buffer.    *)
ReadUnparsed ==
    /\ proc = "idle"
    /\ \/ (\E r \in CustomTyped : Announces(r)) /\ UNCHANGED slotVars
       \/ SendNext /\ Stream[pos + 1].kind \in {"O", "T"}
    /\ Die
    /\ UNCHANGED restarts

(* handleInsert, handleUpdate, handleDelete: a row of a table that is not  *)
(* in the cache is dropped without a word.                                 *)
HandleRow ==
    /\ proc = "parsed"
    /\ cur > 0 /\ IsRow(cur)
    /\ IF \E r \in Relations : Touches(cur, r) /\ cache[r] # 0
       THEN Produce(cur)
       ELSE UNCHANGED outputVars
    /\ proc' = "handled"
    /\ UNCHANGED <<slotVars, cur, cache, received, applied, restarts>>

(* handleTruncate sends the event with whatever tables it can name. *)
HandleTruncate ==
    /\ proc = "parsed"
    /\ cur > 0 /\ Stream[cur].kind = "T"
    /\ Produce(cur)
    /\ proc' = "handled"
    /\ UNCHANGED <<slotVars, cur, cache, received, applied, restarts>>

(* handleMessage's default: begin, commit and relation messages. *)
HandleOther ==
    /\ proc = "parsed"
    /\ cur > 0 => cur \notin Changes
    /\ proc' = "handled"
    /\ UNCHANGED <<slotVars, outputVars, cur, cache, received, applied, restarts>>

(* The handler of a change throws.  parsePacket catches everything: the    *)
(* LSN is not acknowledged, but a later message's will cover it.           *)
HandleThrows ==
    /\ proc = "parsed"
    /\ cur \in Changes
    /\ Discard(cur)
    /\ proc' = "idle"
    /\ UNCHANGED <<slotVars, cur, cache, received, applied, restarts>>

(* Mutated form of FinishMessage: the applied LSN is left behind. *)
FinishMessageUnapplied ==
    /\ proc = "handled"
    /\ Reply(applied)
    /\ proc' = "idle"
    /\ UNCHANGED <<outputVars, cur, cache, received, applied, restarts>>

(* The end of the 'w' case: the received LSN becomes the applied one and   *)
(* is reported.                                                            *)
FinishMessage ==
    /\ proc = "handled"
    /\ applied' = received
    /\ Reply(applied')
    /\ proc' = "idle"
    /\ UNCHANGED <<outputVars, cur, cache, received, restarts>>

(* A keepalive is answered with the applied LSN. *)
ReadKeepalive ==
    /\ proc = "idle"
    /\ Reply(applied)
    /\ UNCHANGED <<outputVars, procVars>>

(* PQgetCopyData returns -1: one more update, then the loop reads on. *)
ReadCopyDone ==
    /\ proc = "idle"
    /\ Reply(applied)
    /\ proc' = "ended"
    /\ UNCHANGED <<outputVars, cur, cache, received, applied, restarts>>

(* Mutated form of ReadError: the same process connects again. *)
ReadErrorReconnects ==
    /\ proc \in {"idle", "ended"}
    /\ \E p \in 0 .. Len(Stream) : ResumesAt(confirmed, p) /\ pos' = p
    /\ sent' = NoSchema
    /\ replies' = <<>>
    /\ proc' = "idle"
    /\ UNCHANGED <<confirmed, active, outputVars, cur, cache, received, applied, restarts>>

(* PQgetCopyData returns -2: the exception leaves the loop for main. *)
ReadError ==
    /\ proc \in {"idle", "ended"}
    /\ proc' = "closing"
    /\ UNCHANGED <<slotVars, outputVars, cur, cache, received, applied, restarts>>

(* ~LibrdKafkaProducer: flush returns when the queue is empty or after ten *)
(* seconds; what is left is dropped.  main returns 0.                      *)
FlushAndExit ==
    /\ proc = "closing"
    /\ OutputDrop
    /\ proc' = "exited"
    /\ UNCHANGED <<slotVars, cur, cache, received, applied, restarts>>
----------------------------------------------------------------------------
(* librdkafka's thread and the server *)

KafkaDelivers ==
    /\ proc \in Attached \cup {"closing"}
    /\ Deliver
    /\ UNCHANGED <<slotVars, procVars>>

ServerConfirms == SlotConfirm /\ UNCHANGED <<outputVars, procVars>>

ServerReleases ==
    /\ proc \notin Attached
    /\ SlotRelease
    /\ UNCHANGED <<outputVars, procVars>>
----------------------------------------------------------------------------
Read ==
    \/ \E r \in Relations : ReadRelation(r)
    \/ ReadMessage
    \/ ReadUnparsed

Handle == HandleRow \/ HandleTruncate \/ HandleOther \/ HandleThrows

Next ==
    \/ Start \/ StartFails \/ Kill \/ OperatorStart
    \/ Read \/ Handle \/ FinishMessage
    \/ ReadKeepalive \/ ReadCopyDone \/ ReadError \/ FlushAndExit
    \/ KafkaDelivers \/ ServerConfirms \/ ServerReleases

Spec == Init /\ [][Next]_vars

(* The process keeps running its loop while there is something to read,    *)
(* the service manager starts what is down, the walsender reads its socket *)
(* and notices a closed one, and librdkafka's thread keeps sending.  Kills,*)
(* connection errors, keepalives and operators are never obliged to come.  *)
Fairness ==
    /\ WF_vars(Start \/ StartFails)
    /\ WF_vars(Read)
    /\ WF_vars(Handle)
    /\ WF_vars(FinishMessage)
    /\ WF_vars(ReadError /\ proc = "ended")
    /\ WF_vars(FlushAndExit)
    /\ WF_vars(KafkaDelivers)
    /\ WF_vars(ServerConfirms)
    /\ WF_vars(ServerReleases)

FairSpec == Spec /\ Fairness
----------------------------------------------------------------------------
(* Properties *)

(* Every change of a transaction the slot has confirmed - PostgreSQL will  *)
(* never send it again - is in the topic, still on its way, or was lost in *)
(* one of the ways known: refused by produce(), failed and dropped in its  *)
(* queue, or given up with an exception.  The read loop itself skips       *)
(* nothing, across kills, restarts, DDL and acknowledgements that move     *)
(* backwards.                                                              *)
ConfirmedAccounted ==
    \A i \in Index : IsCommit(i) /\ Stream[i].lsn <= confirmed =>
        \A j \in Changes : j < i => j \in Accounted

(* A row is always decoded with the table definition it was written under: *)
(* the cached one, by the time the row is parsed, whatever DDL came before *)
(* and however often the process restarted.                                *)
SchemaCurrent ==
    proc = "parsed" /\ cur > 0 =>
        \A r \in Relations : Touches(cur, r) => cache[r] = Stream[cur].schema[r]

(* Within one run of the process, the topic repeats a change or holds it   *)
(* after a later one only if that change needed a retry: retries without   *)
(* idempotence are the only source of duplicates and disorder.             *)
DisorderOnlyByRetry ==
    \A a, b \in runStart + 1 .. Len(log) :
        a < b /\ log[b] <= log[a] => log[b] \in retried

(* A message the producer cannot parse is never confirmed away: the slot   *)
(* stays in front of its transaction, so every restart meets it again.     *)
PoisonNeverConfirmed ==
    \A i, j \in Index :
        j < i /\ Poison(j) /\ IsCommit(i) => confirmed < Stream[i].lsn

AllConfirmed == \A i \in Index : IsCommit(i) => Stream[i].lsn <= confirmed

(* A stream without poison is confirmed to the end and the queue drains,   *)
(* and it stays so, unless the process has exited.                         *)
StreamSettles == <>[](proc = "exited" \/ (AllConfirmed /\ queued = {}))

(* With poison in the stream nothing settles: the service manager starts   *)
(* the process again for ever, until some start fails with exit code 0.    *)
PoisonLoops == []<>(proc = "down") \/ <>[](proc = "exited")


(* The unit says Restart=on-failure: after the replication connection      *)
(* fails, the process is started again.                                    *)
RestartsAfterFailure == (proc = "closing") ~> (proc = "down")
====
