---- MODULE Replica ----
(***************************************************************************)
(* The consumer with the data: which rows the target database ends up with *)
(* (Consumer with DatabaseWriter).  The topic holds the events the         *)
(* producer makes of a sequence of changes at the source (ChangeEvents),   *)
(* in their order; the producer may have sent some of them twice.          *)
(***************************************************************************)
EXTENDS Consumer, DatabaseWriter

CONSTANT Topics   \* sequences of changes the topic can hold

VARIABLES
    topic,        \* the change each message tells of
    tables,       \* the target database
    dropped       \* committed messages that died with a process, handled before or not

(* A row as the source holds it: the replica identity is there. *)
StoredRow(def, row) ==
    /\ DOMAIN row = DOMAIN def.cols
    /\ \A k \in DOMAIN row : def.cols[k].key => row[k] \notin {Null, Toasted}

Change(c) ==
    /\ c.op \in {"INSERT", "UPDATE", "DELETE", "TRUNCATE"}
    /\ TableDefinition(c.def)
    /\ c.op = "INSERT" => StoredRow(c.def, c.new)
    /\ c.op = "DELETE" => StoredRow(c.def, c.old) /\ (HasKey(c.def) \/ c.def.full)

(* The producer sends JSON, and any statement may be refused. *)
ASSUME ReplicaAssumption ==
    /\ Malformed = {} /\ Refusable = Messages
    /\ \A h \in Topics : DOMAIN h = Messages /\ \A o \in Messages : Change(h[o])

replicaVars == <<vars, topic, tables, dropped>>

Definitions == {topic[o].def : o \in Messages}

Message(o) == ConsumerMessage(EventOf(topic[o], ParseRelation(topic[o].def)))

ReplicaTypeOK ==
    /\ topic \in Topics
    /\ dropped \in SUBSET Messages
    /\ DOMAIN tables \subseteq {Fold[def.name] : def \in Definitions}
    /\ \A name \in DOMAIN tables :
          /\ tables[name].cols \in {Columns(def) : def \in Definitions}
          /\ IsABag(tables[name].rows)
          /\ \A row \in DOMAIN tables[name].rows : DOMAIN row = tables[name].cols

ReplicaInit ==
    /\ Init
    /\ topic \in Topics
    /\ tables = [name \in {} |-> {}]
    /\ dropped = {}

(* The process ends or the connection breaks, maybe with a message's       *)
(* statements on their way.                                                *)
BreakOff ==
    /\ IF connected /\ writing # 0
       THEN tables' \in BrokenOff(tables, Message(writing))
       ELSE UNCHANGED tables
    /\ UNCHANGED topic

(* Mutated form of WriteMessage: the thread tries a failed message again.  *)
WriteUntilDone ==
    LET result == HandlerIncomingData(tables, Message(writing)) IN
        /\ writing # 0
        /\ IF connected /\ result.ok
           THEN written' = written \cup {writing} /\ writing' = 0 /\ UNCHANGED failed
           ELSE failed' = failed \cup {writing} /\ UNCHANGED <<written, writing>>
        /\ tables' = IF connected THEN result.tables ELSE tables
        /\ UNCHANGED <<buf, state, position, committed, inHand, connected,
                       lost, deaths, evictions, topic, dropped>>

(* loadFromQueue with the statements of handlerIncomingData. *)
WriteMessage ==
    LET result == HandlerIncomingData(tables, Message(writing)) IN
        /\ writing # 0
        /\ IF connected /\ result.ok
           THEN written' = written \cup {writing} /\ UNCHANGED failed
           ELSE failed' = failed \cup {writing} /\ UNCHANGED written
        /\ writing' = 0
        /\ tables' = IF connected THEN result.tables ELSE tables
        /\ UNCHANGED <<buf, state, position, committed, inHand, connected,
                       lost, deaths, evictions, topic, dropped>>

ReplicaNext ==
    \/ /\ \/ Start \/ StartFails \/ OperatorStart
          \/ Consume \/ Push \/ Pop \/ AutoCommit \/ Evict
       /\ UNCHANGED <<topic, tables, dropped>>
    \/ /\ Die /\ BreakOff
       /\ dropped' = dropped \cup {o \in InProcess : o < committed}
    \/ LoseConnection /\ BreakOff /\ UNCHANGED dropped
    \/ WriteMessage

ReplicaSpec == ReplicaInit /\ [][ReplicaNext]_replicaVars
----------------------------------------------------------------------------
(* The source *)

Is(op, def, o) == topic[o].op = op /\ topic[o].def = def
KeyOf(def) == CHOOSE k \in DOMAIN def.cols : def.cols[k].key
SameTable(def, o) == Fold[topic[o].def.name] = Fold[def.name]

(* A table the consumer can replicate: it is the only one of its name, its *)
(* definition does not change, it has a key of one column and no REPLICA   *)
(* IDENTITY FULL, its rows are inserted and deleted but not updated or     *)
(* truncated, and no statement about it fails to parse.                    *)
Plain(def) ==
    /\ def.name \notin BadNames
    /\ ~def.full
    /\ Cardinality({k \in DOMAIN def.cols : def.cols[k].key}) = 1
    /\ \A o \in Messages : SameTable(def, o) =>
          /\ Is("INSERT", def, o) \/ Is("DELETE", def, o)
          /\ Is("DELETE", def, o) => topic[o].old[KeyOf(def)] \notin Quoted

(* The rows of the table after the first n messages. *)
SourceRows(def, n) ==
    {RowObject(def, topic[o].new) :
        o \in {i \in 1 .. n :
                 /\ Is("INSERT", def, i)
                 /\ \A j \in i + 1 .. n :
                       Is("DELETE", def, j) =>
                           topic[j].old[KeyOf(def)] # topic[i].new[KeyOf(def)]}}

TargetRows(def) ==
    IF Fold[def.name] \in DOMAIN tables THEN tables[Fold[def.name]].rows ELSE EmptyBag
----------------------------------------------------------------------------
(* Properties *)

(* A connected process that never died and was never expelled has made the *)
(* target's plain tables those of the source, as far as it has come.  (A   *)
(* row the producer sent twice is there twice.)                            *)
FaithfulTables ==
    state = "up" /\ connected /\ deaths = 0 /\ evictions = 0 =>
        \A def \in Definitions : Plain(def) =>
            BagToSet(TargetRows(def)) = SourceRows(def, Cardinality(Handled))

(* Deaths and evictions do not matter in the end: with the topic committed *)
(* and handled, and no message of a plain table failed or dropped on the   *)
(* way, its rows are the source's rows, though there may be copies.  (A    *)
(* message that is dropped when it comes for the second time matters too:  *)
(* the repeated insert of a row may be handled, and its delete dropped.)   *)
Converges ==
    committed = TopicLen + 1 /\ InProcess = {} =>
        \A def \in Definitions :
            Plain(def) /\ (\A o \in failed \cup dropped : ~SameTable(def, o)) =>
                BagToSet(TargetRows(def)) = SourceRows(def, TopicLen)

(* Each death and each eviction can repeat a message once: there are that  *)
(* many copies of a row at most for each time it was sent.                 *)
CopiesBounded ==
    \A def \in Definitions : Plain(def) =>
        \A row \in BagToSet(TargetRows(def)) :
            TargetRows(def)[row] <=
                (1 + deaths + evictions) *
                Cardinality({o \in Messages :
                    Is("INSERT", def, o) /\ RowObject(def, topic[o].new) = row})

(* A row that was written and is not there any more was taken away by a    *)
(* delete that parsed, a later one unless something was repeated.  With an *)
(* apostrophe in its value deleteRow may take any row of the table; else   *)
(* the value it names is the row's.  It takes too much for a composite key *)
(* and for REPLICA IDENTITY FULL, and where tables of two schemas are      *)
(* merged, but then too no row without that value.                         *)
MissingRowDeleted ==
    \A o \in written : LET msg == Message(o) IN msg.op = "INSERT" =>
        LET name == Fold[msg.table]
            row == Padded(tables[name].cols, msg.data) IN
            \/ BagIn(row, tables[name].rows)
            \/ \E d \in Messages : LET del == Message(d) IN
                  /\ del.op = "DELETE"
                  /\ deaths = 0 /\ evictions = 0 => o < d /\ d \in Handled \cup {writing}
                  /\ Fold[del.table] = name
                  /\ del.primary_key \in DOMAIN row
                  /\ del.before[del.primary_key] \notin Unparsed
                  /\ \/ row[del.primary_key] = del.before[del.primary_key]
                     \/ del.before[del.primary_key] \in Quoted

(* A row of the target is one the topic sent, with every column it was     *)
(* sent with and nulls in the others: inserts of another definition, of    *)
(* another schema's table, repeated or broken off, updates and truncates   *)
(* never leave a row that is cut short or mixed.  Unless a process died,   *)
(* its message has been handled or is being handled.                       *)
RowsAreSent ==
    \A name \in DOMAIN tables : \A row \in BagToSet(tables[name].rows) :
        \E o \in Messages : LET msg == Message(o) IN
            /\ msg.op = "INSERT"
            /\ Fold[msg.table] = name
            /\ DOMAIN msg.data \subseteq tables[name].cols
            /\ row = Padded(tables[name].cols, msg.data)
            /\ deaths = 0 => o \in Handled \cup {writing}

(* The message makes the target table of that name, unless it exists. *)
Creates(i, name) ==
    /\ Message(i).op = "INSERT"
    /\ Message(i).table \notin BadNames
    /\ Fold[Message(i).table] = name

(* Why the topic alone makes the statement of a message fail: it is an     *)
(* update or a truncate, it does not parse, it deletes from a table that   *)
(* had no row yet, or it names a column that the very first row of the     *)
(* table, at whatever distance behind, did not have.                       *)
Explained(o) ==
    LET msg == Message(o)
        creating == {i \in 1 .. o : Creates(i, Fold[msg.table])}
    IN  \/ msg.op \in {"UPDATE", "TRUNCATE"}
        \/ msg.table \in BadNames
        \/ msg.op = "DELETE" /\ (creating = {} \/ msg.before[msg.primary_key] \in Unparsed)
        \/ \E i \in creating :
              /\ \A j \in creating : i <= j
              /\ ~(DOMAIN msg.data \cup
                   (IF msg.op = "DELETE" THEN {msg.primary_key} ELSE {})
                       \subseteq DOMAIN Message(i).data)

(* A statement of a connected process fails for a reason that is in the    *)
(* topic, not for anything that happened on the way.                       *)
FailureExplained ==
    deaths = 0 /\ connected => \A o \in failed : Explained(o)

(* What Consumer says of messages holds of messages with contents. *)
ImplementsConsumer == Spec
====
