---- MODULE ReplicaProofs ----
(***************************************************************************)
(* Proofs about Replica for every topic and bound.  The argument: Replica  *)
(* is a Consumer, so the messages reach the database in order; in a        *)
(* process that never died, all messages before the one at the database    *)
(* have been handled (Prefix), so the tables are those the very first rows *)
(* made (Shape), with the columns of their definitions (ColumnsKept), and  *)
(* their rows are those of the source.  What a process that dies leaves of *)
(* a row takes WrittenThere, which does not mention the order.             *)
(***************************************************************************)
EXTENDS Replica, ChangeEventsProofs, ConsumerProofs
----------------------------------------------------------------------------
(* The statements *)

(* A target database is a map from names to records. *)
Database(db) ==
    \A n \in DOMAIN db : db[n] = [cols |-> db[n].cols, rows |-> db[n].rows]

RowsOf(db, n) == DOMAIN db[n].rows

LEMMA HandlerKind ==
    ASSUME NEW db, NEW msg
    PROVE  /\ msg.op = "INSERT" =>
                 HandlerIncomingData(db, msg) =
                     InsertRow(CreateTableIfNotExists(db, msg.table, msg.data), msg.table, msg.data)
           /\ msg.op = "DELETE" =>
                 HandlerIncomingData(db, msg) =
                     DeleteRow(db, msg.table, msg.before, msg.primary_key)
           /\ msg.op \notin {"INSERT", "DELETE"} => HandlerIncomingData(db, msg) = Failure(db)
<1>1. msg.op = "INSERT" => ~(msg.op = "UPDATE") /\ ~(msg.op = "DELETE")
  OBVIOUS
<1>2. msg.op = "DELETE" => ~(msg.op = "INSERT") /\ ~(msg.op = "UPDATE")
  OBVIOUS
<1>3. msg.op \notin {"INSERT", "DELETE"} => ~(msg.op = "INSERT") /\ ~(msg.op = "DELETE")
  OBVIOUS
<1>4. QED BY <1>1, <1>2, <1>3, Zenon DEF HandlerIncomingData, UpdateRow

LEMMA CreateEffect ==
    ASSUME NEW db, Database(db), NEW name, NEW data,
           NEW made, made = CreateTableIfNotExists(db, name, data)
    PROVE  /\ Database(made)
           /\ \A n : n \in DOMAIN made <=> n \in DOMAIN db \/ (n = Fold[name] /\ name \notin BadNames)
           /\ \A n \in DOMAIN db : made[n] = db[n]
           /\ Fold[name] \in DOMAIN made \ DOMAIN db =>
                 made[Fold[name]].cols = DOMAIN data /\ RowsOf(made, Fold[name]) = {}
<1>1. CASE name \in BadNames \/ Exists(db, name)
  BY <1>1 DEF CreateTableIfNotExists, Exists
<1>2. CASE ~(name \in BadNames \/ Exists(db, name))
  <2>1. made = WithTable(db, Fold[name], data)
    BY <1>2 DEF CreateTableIfNotExists
  <2>2. /\ DOMAIN made = DOMAIN db \cup {Fold[name]} /\ Fold[name] \notin DOMAIN db
        /\ \A n \in DOMAIN db : made[n] = db[n]
        /\ made[Fold[name]] = [cols |-> DOMAIN data, rows |-> EmptyBag]
    BY <1>2, <2>1 DEF WithTable, Exists
  <2>3. DOMAIN EmptyBag = {}
    BY DEF EmptyBag, SetToBag
  <2>4. Database(made)
    BY <2>2 DEF Database
  <2>5. QED BY <1>2, <2>2, <2>3, <2>4 DEF RowsOf
<1>3. QED BY <1>1, <1>2

(* What a statement leaves alone, and which rows it may take and add. *)
LEMMA InsertEffect ==
    ASSUME NEW db, Database(db), NEW name, NEW data,
           NEW result, result = InsertRow(db, name, data)
    PROVE  /\ Database(result.tables)
           /\ DOMAIN result.tables = DOMAIN db
           /\ \A n \in DOMAIN db : result.tables[n].cols = db[n].cols
           /\ result.ok <=> (Exists(db, name) /\ data # Absent /\ DOMAIN data \subseteq db[Fold[name]].cols)
           /\ ~result.ok => result.tables = db
           /\ result.ok =>
                 /\ RowsOf(result.tables, Fold[name])
                      = RowsOf(db, Fold[name]) \cup {Padded(db[Fold[name]].cols, data)}
                 /\ \A n \in DOMAIN db \ {Fold[name]} : result.tables[n] = db[n]
<1> DEFINE fits == Exists(db, name) /\ data # Absent /\ DOMAIN data \subseteq db[Fold[name]].cols
           row == Padded(db[Fold[name]].cols, data)
<1>1. CASE ~fits
  <2>1. result = Failure(db)
    BY <1>1 DEF InsertRow
  <2>2. QED BY <1>1, <2>1 DEF Failure
<1>2. CASE fits
  <2>1. Fold[name] \in DOMAIN db
    BY <1>2 DEF Exists
  <2>2. result = Success([db EXCEPT ![Fold[name]].rows = @ (+) SetToBag({row})])
    BY <1>2 DEF InsertRow
  <2> HIDE DEF row
  <2>3. /\ result.ok = TRUE
        /\ result.tables = [db EXCEPT ![Fold[name]].rows = @ (+) SetToBag({row})]
    BY <2>2 DEF Success
  <2>4. /\ DOMAIN result.tables = DOMAIN db
        /\ \A n \in DOMAIN db \ {Fold[name]} : result.tables[n] = db[n]
        /\ result.tables[Fold[name]]
             = [cols |-> db[Fold[name]].cols, rows |-> db[Fold[name]].rows (+) SetToBag({row})]
    BY <2>1, <2>3 DEF Database
  <2>5. DOMAIN (db[Fold[name]].rows (+) SetToBag({row})) = RowsOf(db, Fold[name]) \cup {row}
    BY DEF (+), SetToBag, RowsOf
  <2>6. RowsOf(result.tables, Fold[name]) = RowsOf(db, Fold[name]) \cup {row}
    BY <2>4, <2>5 DEF RowsOf
  <2>7. Database(result.tables) /\ \A n \in DOMAIN db : result.tables[n].cols = db[n].cols
    BY <2>1, <2>4 DEF Database
  <2>8. QED BY <1>2, <2>3, <2>4, <2>6, <2>7 DEF row
<1>3. QED BY <1>1, <1>2

(* The rows the delete selects are gone from the table. *)
Without(db, new, n, before, key) ==
    \A r : r \in RowsOf(new, n) <=> r \in RowsOf(db, n) /\ ~Selects(r, before, key)

LEMMA DeleteEffect ==
    ASSUME NEW db, Database(db), NEW name, NEW before, NEW key,
           NEW result, result = DeleteRow(db, name, before, key)
    PROVE  /\ Database(result.tables)
           /\ DOMAIN result.tables = DOMAIN db
           /\ \A n \in DOMAIN db : result.tables[n].cols = db[n].cols
           /\ result.ok <=> (/\ Exists(db, name) /\ key \in db[Fold[name]].cols
                             /\ before[key] \notin Unparsed)
           /\ ~result.ok => result.tables = db
           /\ result.ok =>
                 /\ Without(db, result.tables, Fold[name], before, key)
                 /\ \A n \in DOMAIN db \ {Fold[name]} : result.tables[n] = db[n]
<1> DEFINE fits == /\ Exists(db, name) /\ key \in db[Fold[name]].cols
                   /\ before[key] \notin Unparsed
           rows == db[Fold[name]].rows
           kept == [row \in {r \in DOMAIN rows : ~Selects(r, before, key)} |-> rows[row]]
<1>1. CASE ~fits
  <2>1. result = Failure(db)
    BY <1>1 DEF DeleteRow
  <2>2. QED BY <1>1, <2>1 DEF Failure
<1>2. CASE fits
  <2>1. Fold[name] \in DOMAIN db
    BY <1>2 DEF Exists
  <2>2. result = Success([db EXCEPT ![Fold[name]].rows = kept])
    BY <1>2 DEF DeleteRow
  <2>3. DOMAIN kept = {r \in RowsOf(db, Fold[name]) : ~Selects(r, before, key)}
    BY DEF RowsOf
  <2> HIDE DEF kept
  <2>4. result.ok = TRUE /\ result.tables = [db EXCEPT ![Fold[name]].rows = kept]
    BY <2>2 DEF Success
  <2>5. /\ DOMAIN result.tables = DOMAIN db
        /\ \A n \in DOMAIN db \ {Fold[name]} : result.tables[n] = db[n]
        /\ result.tables[Fold[name]] = [cols |-> db[Fold[name]].cols, rows |-> kept]
    BY <2>1, <2>4 DEF Database
  <2>6. RowsOf(result.tables, Fold[name]) = {r \in RowsOf(db, Fold[name]) : ~Selects(r, before, key)}
    BY <2>3, <2>5 DEF RowsOf
  <2>7. Database(result.tables) /\ \A n \in DOMAIN db : result.tables[n].cols = db[n].cols
    BY <2>1, <2>5 DEF Database
  <2>8. QED BY <1>2, <2>4, <2>5, <2>6, <2>7 DEF Without
<1>3. QED BY <1>1, <1>2

(* What a row the delete selects looks like. *)
Named(r, before, key) ==
    /\ before[key] \notin Unparsed
    /\ r[key] = before[key] \/ before[key] \in Quoted

(* What a message may do to the database, whatever became of it. *)
Effect(db, msg, new) ==
    /\ Database(new)
    /\ \A n \in DOMAIN db :
          /\ n \in DOMAIN new
          /\ new[n].cols = db[n].cols
          /\ n # Fold[msg.table] => new[n] = db[n]
          /\ \A r \in RowsOf(db, n) :
                \/ r \in RowsOf(new, n)
                \/ /\ msg.op = "DELETE" /\ n = Fold[msg.table]
                   /\ msg.primary_key \in db[n].cols
                   /\ Named(r, msg.before, msg.primary_key)
    /\ \A n \in DOMAIN new \ DOMAIN db :
          /\ n = Fold[msg.table] /\ msg.op = "INSERT" /\ msg.table \notin BadNames
          /\ new[n].cols = DOMAIN msg.data

LEMMA HandlerEffect ==
    ASSUME NEW db, Database(db), NEW msg, NEW result, result = HandlerIncomingData(db, msg)
    PROVE  Effect(db, msg, result.tables)
<1> DEFINE name == Fold[msg.table]
           made == CreateTableIfNotExists(db, msg.table, msg.data)
<1>1. CASE msg.op = "INSERT"
  <2>1. result = InsertRow(made, msg.table, msg.data)
    BY <1>1, HandlerKind
  <2>2. /\ Database(made)
        /\ \A n : n \in DOMAIN made <=> n \in DOMAIN db \/ (n = name /\ msg.table \notin BadNames)
        /\ \A n \in DOMAIN db : made[n] = db[n]
        /\ name \in DOMAIN made \ DOMAIN db => made[name].cols = DOMAIN msg.data
    <3>1. made = CreateTableIfNotExists(db, msg.table, msg.data)
      OBVIOUS
    <3> HIDE DEF made
    <3>2. QED BY <3>1, CreateEffect
  <2> HIDE DEF made
  <2>3. /\ Database(result.tables) /\ DOMAIN result.tables = DOMAIN made
        /\ \A n \in DOMAIN made : result.tables[n].cols = made[n].cols
        /\ \A n \in DOMAIN made \ {name} : result.tables[n] = made[n]
        /\ \A n \in DOMAIN made : RowsOf(made, n) \subseteq RowsOf(result.tables, n)
    BY <2>1, <2>2, InsertEffect DEF RowsOf
  <2>4. \A n \in DOMAIN db : RowsOf(db, n) = RowsOf(made, n)
    BY <2>2 DEF RowsOf
  <2>5. QED BY <1>1, <2>2, <2>3, <2>4 DEF Effect
<1>2. CASE msg.op = "DELETE"
  <2>1. result = DeleteRow(db, msg.table, msg.before, msg.primary_key)
    BY <1>2, HandlerKind
  <2>2. \A n \in DOMAIN db : n # name => RowsOf(result.tables, n) = RowsOf(db, n)
    BY <2>1, DeleteEffect DEF RowsOf
  <2>3. ASSUME result.ok, NEW r, Selects(r, msg.before, msg.primary_key)
        PROVE  Named(r, msg.before, msg.primary_key)
    <3>1. msg.before[msg.primary_key] \notin Unparsed
      BY <2>1, <2>3, DeleteEffect
    <3>2. QED BY <2>3, <3>1 DEF Selects, Named
  <2>4. QED BY <1>2, <2>1, <2>2, <2>3, DeleteEffect DEF Exists, Effect, Without
<1>3. CASE msg.op \notin {"INSERT", "DELETE"}
  <2>1. result.tables = db
    BY <1>3, HandlerKind DEF Failure
  <2>2. QED BY <1>3, <2>1 DEF Effect
<1>4. QED BY <1>1, <1>2, <1>3

(* When an insert succeeds, and what it leaves. *)
LEMMA InsertHandled ==
    ASSUME NEW db, Database(db), NEW msg, msg.op = "INSERT", msg.data # Absent,
           NEW result, result = HandlerIncomingData(db, msg),
           NEW name, name = Fold[msg.table], msg.table \notin BadNames
    PROVE  /\ name \in DOMAIN result.tables
           /\ name \notin DOMAIN db => result.tables[name].cols = DOMAIN msg.data
           /\ result.ok <=> DOMAIN msg.data \subseteq result.tables[name].cols
           /\ result.ok =>
                 RowsOf(result.tables, name) =
                    (IF name \in DOMAIN db THEN RowsOf(db, name) ELSE {})
                    \cup {Padded(result.tables[name].cols, msg.data)}
<1> DEFINE made == CreateTableIfNotExists(db, msg.table, msg.data)
<1>1. result = InsertRow(made, msg.table, msg.data)
  BY HandlerKind
<1>2. /\ Database(made)
      /\ \A n : n \in DOMAIN made <=> n \in DOMAIN db \/ n = name
      /\ \A n \in DOMAIN db : made[n] = db[n]
      /\ name \in DOMAIN made \ DOMAIN db =>
            made[name].cols = DOMAIN msg.data /\ RowsOf(made, name) = {}
  <2>1. made = CreateTableIfNotExists(db, msg.table, msg.data)
    OBVIOUS
  <2> HIDE DEF made
  <2>2. QED BY <2>1, CreateEffect
<1> HIDE DEF made
<1>3. /\ DOMAIN result.tables = DOMAIN made
      /\ result.tables[name].cols = made[name].cols
      /\ result.ok <=> DOMAIN msg.data \subseteq made[name].cols
      /\ result.ok => RowsOf(result.tables, name)
                        = RowsOf(made, name) \cup {Padded(made[name].cols, msg.data)}
  <2>1. Exists(made, msg.table)
    BY <1>2 DEF Exists
  <2>2. name \in DOMAIN made /\ Database(made)
    BY <1>2
  <2>3. /\ DOMAIN result.tables = DOMAIN made
        /\ \A n \in DOMAIN made : result.tables[n].cols = made[n].cols
    BY <1>1, <2>2, InsertEffect
  <2>4. result.ok <=> DOMAIN msg.data \subseteq made[name].cols
    BY <1>1, <2>1, <2>2, InsertEffect
  <2>5. result.ok => RowsOf(result.tables, name)
                        = RowsOf(made, name) \cup {Padded(made[name].cols, msg.data)}
    <3>1. result.ok => RowsOf(result.tables, Fold[msg.table])
            = RowsOf(made, Fold[msg.table]) \cup {Padded(made[Fold[msg.table]].cols, msg.data)}
      BY <1>1, <2>2, InsertEffect DEF RowsOf
    <3>2. QED BY <3>1
  <2>6. QED BY <2>2, <2>3, <2>4, <2>5
<1>4. RowsOf(made, name) = IF name \in DOMAIN db THEN RowsOf(db, name) ELSE {}
  BY <1>2 DEF RowsOf
<1>5. QED BY <1>2, <1>3, <1>4
----------------------------------------------------------------------------
(* The messages *)

LEMMA MessageIs ==
    ASSUME topic \in Topics, NEW o \in Messages, NEW def, def = topic[o].def
    PROVE  /\ Change(topic[o]) /\ def \in Definitions
           /\ Message(o).op = topic[o].op
           /\ topic[o].op # "TRUNCATE" => Message(o).table = def.name
           /\ topic[o].op = "INSERT" =>
                 /\ Message(o).data = RowObject(def, topic[o].new)
                 /\ Message(o).data # Absent
                 /\ DOMAIN Message(o).data = Columns(def)
           /\ topic[o].op = "DELETE" =>
                 \E k \in DOMAIN def.cols :
                    /\ def.full \/ def.cols[k].key
                    /\ Message(o).primary_key = def.cols[k].name
                    /\ Message(o).before[Message(o).primary_key] = ColumnText(topic[o].old[k])
<1> DEFINE c == topic[o]
           event == EventOf(c, ParseRelation(def))
<1>1. Change(c) /\ def \in Definitions
  BY ReplicaAssumption DEF Definitions
<1>2. Message(o) = ConsumerMessage(event)
  BY DEF Message
<1>3. CASE c.op = "INSERT"
  <2>1. event = HandleInsert(ParseRelation(def), ParseTuple(c.new))
    <3>1. ParseInsert(InsertBody(c.new)) = ParseTuple(c.new)
      BY DEF ParseInsert, InsertBody, Tagged
    <3>2. QED BY <1>3, <3>1, EventOfKind
  <2>2. DOMAIN c.new = DOMAIN def.cols
    BY <1>1, <1>3 DEF Change, StoredRow
  <2>3. event.op = "INSERT" /\ event.table = def.name /\ event.data = RowObject(def, c.new)
    BY <2>1, <2>2, ObjectOfRow DEF HandleInsert, Event, RelationName, ParseRelation
  <2>4. Message(o).op = "INSERT" /\ Message(o).table = def.name
        /\ Message(o).data = RowObject(def, c.new)
    BY <1>2, <2>3 DEF ConsumerMessage
  <2>5. DOMAIN RowObject(def, c.new) = Columns(def)
    BY DEF RowObject
  <2>6. Columns(def) # {}
    <3>1. 1 \in DOMAIN def.cols
      BY <1>1 DEF Change, TableDefinition
    <3>2. QED BY <3>1 DEF Columns
  <2>7. Message(o).data # Absent
    BY <2>4, <2>5, <2>6 DEF Absent
  <2>8. QED BY <1>1, <1>3, <2>4, <2>5, <2>7
<1>4. CASE c.op = "DELETE"
  <2>1. event = HandleDelete(ParseRelation(def), ParseDelete(DeleteBody(def, c.old)))
    BY <1>4, EventOfKind
  <2>2. /\ DOMAIN c.old = DOMAIN def.cols /\ TableDefinition(def)
        /\ HasKey(def) \/ def.full
    BY <1>1, <1>4 DEF Change, StoredRow
  <2>3. event.op = "DELETE" /\ event.table = def.name
    BY <2>1 DEF HandleDelete, Event, RelationName, ParseRelation
  <2>4. /\ Message(o).op = "DELETE" /\ Message(o).table = def.name
        /\ Message(o).primary_key = event.primary /\ Message(o).before = event.before
    BY <1>2, <2>3 DEF ConsumerMessage
  <2>5. \E k \in DOMAIN def.cols :
           /\ def.full \/ def.cols[k].key
           /\ event.primary = def.cols[k].name
           /\ event.before[event.primary] = ColumnText(c.old[k])
    BY <2>1, <2>2, DeleteNamesKey
  <2>6. QED BY <1>1, <1>4, <2>4, <2>5
<1>5. CASE c.op = "UPDATE"
  <2>1. event = HandleUpdate(ParseRelation(def), ParseUpdate(UpdateBody(def, c.old, c.new)))
    BY <1>5, EventOfKind
  <2>2. event.op = "UPDATE" /\ event.table = def.name
    BY <2>1 DEF HandleUpdate, Event, RelationName, ParseRelation
  <2>3. QED BY <1>1, <1>2, <1>5, <2>2 DEF ConsumerMessage
<1>6. CASE c.op = "TRUNCATE"
  <2>1. event = HandleTruncate
    <3>1. c.op \notin {"INSERT", "UPDATE", "DELETE"}
      BY <1>6
    <3>2. QED BY <3>1, EventOfKind
  <2> HIDE DEF event
  <2>2. event.op = "TRUNCATE"
    <3>1. HandleTruncate.op = "TRUNCATE"
      BY DEF HandleTruncate
    <3>2. QED BY <2>1, <3>1
  <2>3. Message(o).op = "TRUNCATE"
    BY <1>2, <2>2 DEF ConsumerMessage
  <2>4. QED BY <1>1, <1>6, <2>3
<1>7. c.op \in {"INSERT", "UPDATE", "DELETE", "TRUNCATE"}
  BY <1>1 DEF Change
<1>8. QED BY <1>3, <1>4, <1>5, <1>6, <1>7
----------------------------------------------------------------------------
(* Replica is a Consumer *)

LEMMA WriteIsWrite == TypeOK /\ WriteMessage => Write
<1> SUFFICES ASSUME TypeOK, WriteMessage PROVE Write
  OBVIOUS
<1>1. writing \in Refusable
  BY ReplicaAssumption, TopicAssumption DEF WriteMessage, TypeOK, Slot
<1>2. QED BY <1>1 DEF WriteMessage, Write

LEMMA StepIsStep == TypeOK /\ [ReplicaNext]_replicaVars => [Next]_vars
<1>1. TypeOK /\ ReplicaNext => Next
  BY WriteIsWrite DEF ReplicaNext, Next
<1>2. QED BY <1>1 DEF replicaVars

(* Theorem: ImplementsConsumer.  So all that ConsumerProofs proves of a     *)
(* consumer of messages holds of one of rows.                              *)
THEOREM RefinesConsumer == ReplicaSpec => ImplementsConsumer
<1>1. ReplicaInit => Init
  BY DEF ReplicaInit
<1>2. QED BY <1>1, StepIsStep, TypeInit, TypeStep, PTL DEF ReplicaSpec, ImplementsConsumer, Spec
----------------------------------------------------------------------------
(* The order of handling *)

Following == IF buf # <<>> THEN Head(buf) ELSE IF inHand # 0 THEN inHand ELSE position

(* The first message of the pipeline. *)
First == IF writing # 0 THEN writing ELSE Following

(* While no process has died: nothing is done before the first start, and  *)
(* all messages before the first in the pipeline are handled, and no other *)
(* one unless an eviction repeats it.                                      *)
Prefix ==
    deaths = 0 =>
        /\ state # "up" => Handled = {} /\ committed = 1 /\ evictions = 0 /\ connected = FALSE
        /\ state = "up" => \A o \in Messages : o < First => o \in Handled
        /\ state = "up" /\ evictions = 0 => \A o \in Handled : o < First
        /\ \A o \in Handled, j \in Messages : j < o => j \in Handled

ConsumerInv == IInv /\ EmptyWhenDown /\ PipelineInOrder

LEMMA InNumbers ==
    ASSUME TypeOK
    PROVE  /\ Messages \subseteq Nat /\ buf \in Seq(Messages) /\ position \in Nat
           /\ writing \in Nat /\ inHand \in Nat /\ committed \in Nat
           /\ Following \in Nat /\ First \in Nat
           /\ writing # 0 => writing \in Messages
           /\ Handled \subseteq Messages
<1>1. /\ Messages \subseteq Nat /\ buf \in Seq(Messages) /\ position \in Nat
      /\ writing \in Nat /\ inHand \in Nat /\ committed \in Nat
      /\ writing # 0 => writing \in Messages
  BY TopicAssumption DEF TypeOK, FifoTypeOK, Slot
<1>2. buf # <<>> => Head(buf) \in Messages
  BY <1>1
<1>3. Handled \subseteq Messages
  BY DEF TypeOK, Handled
<1>4. QED BY <1>1, <1>2, <1>3 DEF Following, First

LEMMA Concatenation ==
    ASSUME NEW a \in Seq(Nat), NEW b \in Seq(Nat), NEW s, s = a \o b
    PROVE  /\ s \in Seq(Nat) /\ Len(a) \in Nat /\ Len(b) \in Nat /\ Len(s) = Len(a) + Len(b)
           /\ \A k \in 1 .. Len(a) : s[k] = a[k]
           /\ \A k \in 1 .. Len(b) : s[Len(a) + k] = b[k]
<1>1. /\ a \o b \in Seq(Nat) /\ Len(a) \in Nat /\ Len(b) \in Nat
      /\ Len(a \o b) = Len(a) + Len(b)
      /\ \A k \in 1 .. Len(a) : (a \o b)[k] = a[k]
      /\ \A k \in 1 .. Len(b) : (a \o b)[Len(a) + k] = b[k]
  OBVIOUS
<1>2. QED BY <1>1, Zenon

LEMMA FirstTwo ==
    ASSUME NEW a \in Seq(Nat), NEW b \in Seq(Nat), NEW s, s = a \o b, Len(a) >= 1
    PROVE  /\ s \in Seq(Nat) /\ Len(s) = Len(a) + Len(b) /\ Len(a) \in Nat /\ Len(b) \in Nat
           /\ s[1] = a[1]
           /\ Len(a) >= 2 => s[2] = a[2]
           /\ Len(a) = 1 /\ Len(b) >= 1 => s[2] = b[1]
<1>1. /\ s \in Seq(Nat) /\ Len(a) \in Nat /\ Len(b) \in Nat /\ Len(s) = Len(a) + Len(b)
      /\ \A k \in 1 .. Len(a) : s[k] = a[k]
      /\ \A k \in 1 .. Len(b) : s[Len(a) + k] = b[k]
  BY Concatenation
<1> DEFINE la == Len(a)
           lb == Len(b)
<1>2. la \in Nat /\ lb \in Nat /\ la >= 1
  BY <1>1
<1>3. s[1] = a[1]
  BY <1>1, <1>2
<1>4. la >= 2 => s[2] = a[2]
  BY <1>1, <1>2
<1>5. la = 1 /\ lb >= 1 => s[2] = b[1]
  <2>1. SUFFICES ASSUME la = 1, lb >= 1 PROVE s[2] = b[1]
    OBVIOUS
  <2>2. 1 \in 1 .. lb /\ la + 1 = 2
    BY <1>2, <2>1
  <2>3. s[la + 1] = b[1]
    BY <1>1, <2>2, Zenon
  <2>4. QED BY <2>2, <2>3, Zenon
<1>6. QED BY <1>1, <1>3, <1>4, <1>5, Zenon

LEMMA SecondIs ==
    ASSUME NEW w \in Nat, NEW b \in Seq(Nat), NEW h \in Seq(Nat), NEW p \in Nat, Len(h) <= 1,
           NEW x, x = <<w>> \o b, NEW y, y = x \o h, NEW s, s = y \o <<p>>
    PROVE  /\ Len(s) \in Nat /\ Len(s) >= 2 /\ s[1] = w
           /\ Len(b) >= 1 => s[2] = b[1]
           /\ Len(b) = 0 /\ Len(h) = 1 => s[2] = h[1]
           /\ Len(b) = 0 /\ Len(h) = 0 => s[2] = p
<1>1. /\ <<w>> \in Seq(Nat) /\ Len(<<w>>) = 1 /\ <<w>>[1] = w
      /\ <<p>> \in Seq(Nat) /\ Len(<<p>>) = 1 /\ <<p>>[1] = p
  OBVIOUS
<1> DEFINE ww == <<w>>
           pp == <<p>>
<1>2. ww \in Seq(Nat) /\ Len(ww) = 1 /\ ww[1] = w /\ x = ww \o b
      /\ pp \in Seq(Nat) /\ Len(pp) = 1 /\ pp[1] = p /\ s = y \o pp
  BY <1>1, Zenon
<1> HIDE DEF ww, pp
<1>3. Len(ww) >= 1 /\ Len(pp) >= 1 /\ 1 \in 1 .. Len(pp)
  BY <1>2
<1>4. /\ x \in Seq(Nat) /\ Len(x) = Len(ww) + Len(b) /\ Len(b) \in Nat /\ x[1] = ww[1]
      /\ Len(ww) = 1 /\ Len(b) >= 1 => x[2] = b[1]
  BY <1>2, <1>3, FirstTwo
<1>5. Len(x) >= 1 /\ Len(x) = 1 + Len(b)
  BY <1>2, <1>4
<1>6. /\ y \in Seq(Nat) /\ Len(y) = Len(x) + Len(h) /\ Len(h) \in Nat /\ y[1] = x[1]
      /\ Len(x) >= 2 => y[2] = x[2]
      /\ Len(x) = 1 /\ Len(h) >= 1 => y[2] = h[1]
  BY <1>4, <1>5, FirstTwo
<1>7. Len(y) >= 1 /\ Len(y) = 1 + Len(b) + Len(h)
  BY <1>4, <1>5, <1>6
<1>8. /\ s \in Seq(Nat) /\ Len(s) = Len(y) + Len(pp) /\ s[1] = y[1]
      /\ Len(y) >= 2 => s[2] = y[2]
      /\ Len(y) = 1 /\ Len(pp) >= 1 => s[2] = pp[1]
  BY <1>2, <1>6, <1>7, FirstTwo
<1>9. /\ Len(s) \in Nat /\ Len(s) >= 2 /\ s[1] = w
  BY <1>2, <1>4, <1>5, <1>6, <1>7, <1>8
<1>10. Len(b) >= 1 => s[2] = b[1]
  BY <1>2, <1>4, <1>5, <1>6, <1>7, <1>8
<1>11. Len(b) = 0 /\ Len(h) = 1 => s[2] = h[1]
  BY <1>4, <1>5, <1>6, <1>7, <1>8
<1>12. Len(b) = 0 /\ Len(h) = 0 => s[2] = p
  BY <1>2, <1>3, <1>7, <1>8
<1>13. QED BY <1>9, <1>10, <1>11, <1>12, Zenon
LEMMA SecondFollows ==
    ASSUME TypeOK, PipelineInOrder, state = "up", writing # 0
    PROVE  Following <= writing + 1 /\ (evictions = 0 => writing < Following)
<1>1. /\ buf \in Seq(Nat) /\ position \in Nat /\ writing \in Nat /\ inHand \in Nat
      /\ Following \in Nat
  <2>1. Messages \subseteq Int /\ buf \in Seq(Messages)
    BY InNumbers
  <2>2. Len(buf) \in Nat /\ buf \in [1 .. Len(buf) -> Nat]
    <3>1. Len(buf) \in Nat /\ buf \in [1 .. Len(buf) -> Messages]
      BY <2>1
    <3>2. QED BY <3>1, InNumbers
  <2>3. buf \in Seq(Nat)
    BY <2>2
  <2>4. QED BY <2>3, InNumbers
<1>2. Held(writing) = <<writing>>
  BY DEF Held
<1>3. Len(Pipeline) \in Nat /\ Len(Pipeline) >= 2 /\ Pipeline[1] = writing /\ Pipeline[2] = Following
  <2> DEFINE h == Held(inHand)
             x == <<writing>> \o buf
             y == x \o h
  <2>1. /\ h \in Seq(Nat) /\ Len(h) <= 1
        /\ IF inHand = 0 THEN Len(h) = 0 ELSE Len(h) = 1 /\ h[1] = inHand
    BY <1>1 DEF Held
  <2>2. Pipeline = y \o <<position>>
    BY <1>2 DEF Pipeline
  <2> HIDE DEF h
  <2>3. x = <<writing>> \o buf /\ y = x \o h
    OBVIOUS
  <2> HIDE DEF x, y
  <2>4. /\ Len(Pipeline) \in Nat /\ Len(Pipeline) >= 2 /\ Pipeline[1] = writing
        /\ Len(buf) >= 1 => Pipeline[2] = buf[1]
        /\ Len(buf) = 0 /\ Len(h) = 1 => Pipeline[2] = h[1]
        /\ Len(buf) = 0 /\ Len(h) = 0 => Pipeline[2] = position
    BY <1>1, <2>1, <2>2, <2>3, SecondIs, SMTT(60)
  <2>5. /\ buf # <<>> => Len(buf) >= 1 /\ Head(buf) = buf[1]
        /\ buf = <<>> => Len(buf) = 0
    BY <1>1
  <2>6. QED BY <2>1, <2>4, <2>5 DEF Following
<1>4. /\ \A o \in writing + 1 .. Following - 1 : o \in Malformed
      /\ evictions = 0 => writing < Following
  BY <1>3 DEF PipelineInOrder
<1>5. QED
  <2>1. ~(Following > writing + 1)
    <3>1. Following > writing + 1 => writing + 1 \in writing + 1 .. Following - 1
      BY <1>1
    <3>2. QED BY <1>4, <3>1, ReplicaAssumption
  <2>2. QED BY <1>1, <1>4, <2>1

LEMMA PrefixStep ==
    ASSUME ConsumerInv, Prefix, [Next]_vars
    PROVE  Prefix'
<1> SUFFICES ASSUME deaths' = 0 PROVE Prefix'
  BY DEF Prefix
<1>t. TypeOK /\ TypeOK' /\ Malformed = {}
  BY TypeStep, ReplicaAssumption DEF ConsumerInv, IInv
<1>0. ASSUME deaths' = deaths, state' = state, evictions' = evictions, First' = First,
             Handled' = Handled, state = "up"
      PROVE  Prefix'
  BY <1>0 DEF Prefix
<1>1. CASE Start
  <2>1. /\ state = "down" /\ state' = "up" /\ position' = committed /\ connected' = TRUE
        /\ UNCHANGED <<buf, inHand, writing, written, failed, deaths, evictions>>
    BY <1>1 DEF Start
  <2>2. Handled = {} /\ committed = 1
    BY <2>1 DEF Prefix
  <2>3. buf = <<>> /\ inHand = 0 /\ writing = 0
    BY <2>1 DEF ConsumerInv, EmptyWhenDown
  <2>4. First' = 1 /\ Handled' = {}
    BY <2>1, <2>2, <2>3 DEF First, Following, Handled
  <2>5. QED BY <2>1, <2>4, <1>t, InNumbers, TopicAssumption DEF Prefix
<1>2. CASE StartFails \/ OperatorStart \/ UNCHANGED vars
  <2>1. /\ UNCHANGED <<buf, position, committed, inHand, writing, connected, written,
                       failed, deaths, evictions>>
        /\ (state' = "up") = (state = "up")
    BY <1>2 DEF StartFails, OperatorStart, vars
  <2>2. First' = First /\ Handled' = Handled
    BY <2>1 DEF First, Following, Handled
  <2>3. QED BY <2>1, <2>2 DEF Prefix
<1>3. CASE Die
  BY <1>3, <1>t DEF Die, TypeOK
<1>4. CASE Consume
  <2>1. /\ state = "up" /\ inHand = 0 /\ inHand' = position
        /\ UNCHANGED <<buf, state, writing, written, failed, deaths, evictions>>
    BY <1>4, <1>t DEF Consume
  <2>2. First' = First /\ Handled' = Handled
    BY <2>1, <1>t DEF First, Following, Handled, TypeOK
  <2>3. QED BY <1>0, <2>1, <2>2
<1>5. CASE Push
  <2>1. /\ inHand # 0 /\ buf' = Append(buf, inHand) /\ inHand' = 0
        /\ UNCHANGED <<state, writing, written, failed, deaths, evictions>>
    BY <1>5 DEF Push, Put
  <2>2. state = "up"
    BY <2>1 DEF ConsumerInv, EmptyWhenDown
  <2>3. buf' # <<>> /\ Head(buf') = IF buf = <<>> THEN inHand ELSE Head(buf)
    BY <2>1, <1>t, InNumbers
  <2>4. First' = First /\ Handled' = Handled
    BY <2>1, <2>3 DEF First, Following, Handled
  <2>5. QED BY <1>0, <2>1, <2>2, <2>4
<1>6. CASE Pop
  <2>1. /\ state = "up" /\ writing = 0 /\ buf # <<>> /\ writing' = Head(buf)
        /\ UNCHANGED <<state, written, failed, deaths, evictions>>
    BY <1>6 DEF Pop, Take
  <2>2. Head(buf) # 0
    BY <2>1, <1>t, InNumbers, TopicAssumption
  <2>3. First' = First /\ Handled' = Handled
    BY <2>1, <2>2 DEF First, Following, Handled
  <2>4. QED BY <1>0, <2>1, <2>3
<1>7. CASE Write
  <2>1. /\ writing # 0 /\ writing' = 0 /\ Handled' = Handled \cup {writing}
        /\ UNCHANGED <<buf, state, position, committed, inHand, connected, deaths, evictions>>
    BY <1>7 DEF Write, Handled
  <2>2. state = "up"
    BY <2>1 DEF ConsumerInv, EmptyWhenDown
  <2>3. First = writing /\ First' = Following
    BY <2>1 DEF First, Following
  <2>4. Following <= writing + 1 /\ (evictions = 0 => writing < Following)
    BY <2>1, <2>2, <1>t, SecondFollows DEF ConsumerInv
  <2>5. \A o \in Messages : o < writing => o \in Handled
    BY <2>1, <2>2, <2>3 DEF Prefix
  <2>6. \A o \in Messages : o < Following => o \in Handled'
    BY <2>1, <2>4, <2>5, <1>t, InNumbers
  <2>7. evictions = 0 => \A o \in Handled' : o < Following
    <3>1. evictions = 0 => \A o \in Handled : o < writing
      BY <2>1, <2>2, <2>3 DEF Prefix
    <3>2. QED BY <2>1, <2>4, <3>1, <1>t, InNumbers
  <2>8. \A o \in Handled', j \in Messages : j < o => j \in Handled'
    BY <2>1, <2>5 DEF Prefix
  <2>9. QED BY <2>1, <2>2, <2>3, <2>6, <2>7, <2>8 DEF Prefix
<1>8. CASE LoseConnection \/ AutoCommit
  <2>1. /\ state = "up"
        /\ UNCHANGED <<buf, state, position, inHand, writing, written, failed, deaths, evictions>>
    BY <1>8 DEF LoseConnection, AutoCommit
  <2>2. First' = First /\ Handled' = Handled
    BY <2>1 DEF First, Following, Handled
  <2>3. QED BY <1>0, <2>1, <2>2
<1>9. CASE Evict
  <2>1. /\ state = "up" /\ inHand # 0 /\ evictions' = evictions + 1 /\ evictions \in Nat
        /\ UNCHANGED <<buf, state, inHand, writing, written, failed, deaths>>
    BY <1>9, <1>t DEF Evict, TypeOK
  <2>2. First' = First /\ Handled' = Handled
    BY <2>1 DEF First, Following, Handled
  <2>3. QED BY <2>1, <2>2 DEF Prefix
<1>10. QED BY <1>1, <1>2, <1>3, <1>4, <1>5, <1>6, <1>7, <1>8, <1>9 DEF Next
----------------------------------------------------------------------------
(* What all the invariants of the data rest on *)

Basis ==
    /\ ConsumerInv
    /\ Prefix
    /\ topic \in Topics
    /\ Database(tables)

(* A statement that may have been cut off: what holds of the database      *)
(* after it, whatever became of it.                                        *)
LEMMA BrokenOffEffect ==
    ASSUME NEW db, Database(db), NEW msg, NEW new \in BrokenOff(db, msg)
    PROVE  Effect(db, msg, new)
<1>1. CASE new = db
  BY <1>1 DEF Effect
<1>2. CASE new = HandlerIncomingData(db, msg).tables
  <2> DEFINE result == HandlerIncomingData(db, msg)
  <2>1. result = HandlerIncomingData(db, msg) /\ new = result.tables
    BY <1>2
  <2> HIDE DEF result
  <2>2. Effect(db, msg, result.tables)
    BY <2>1, HandlerEffect
  <2>3. QED BY <2>1, <2>2
<1>3. CASE msg.op = "INSERT" /\ new = CreateTableIfNotExists(db, msg.table, msg.data)
  <2>1. /\ Database(new)
        /\ \A n : n \in DOMAIN new <=> n \in DOMAIN db \/ (n = Fold[msg.table] /\ msg.table \notin BadNames)
        /\ \A n \in DOMAIN db : new[n] = db[n]
        /\ Fold[msg.table] \in DOMAIN new \ DOMAIN db => new[Fold[msg.table]].cols = DOMAIN msg.data
    BY <1>3, CreateEffect
  <2>2. QED BY <1>3, <2>1 DEF RowsOf, Effect
<1>4. QED BY <1>1, <1>2, <1>3 DEF BrokenOff

(* Only a statement changes the tables. *)
LEMMA TablesStep ==
    ASSUME [ReplicaNext]_replicaVars
    PROVE  /\ UNCHANGED topic
           /\ \/ UNCHANGED tables
              \/ writing # 0 /\ connected /\ tables' \in BrokenOff(tables, Message(writing))
<1>1. CASE WriteMessage
  BY <1>1 DEF WriteMessage, BrokenOff
<1>2. CASE BreakOff
  BY <1>2 DEF BreakOff
<1>3. CASE UNCHANGED <<topic, tables>>
  BY <1>3
<1>4. QED BY <1>1, <1>2, <1>3 DEF ReplicaNext, replicaVars

LEMMA BasisInit == ReplicaInit => Basis
<1> SUFFICES ASSUME ReplicaInit PROVE Basis
  OBVIOUS
<1>1. Init /\ topic \in Topics /\ tables = [name \in {} |-> {}]
  BY DEF ReplicaInit
<1>2. IInv
  BY <1>1, TypeInit, AccountInit DEF IInv
<1>3. EmptyWhenDown /\ PipelineInOrder /\ Prefix
  BY <1>1 DEF Init, FifoInit, EmptyWhenDown, PipelineInOrder, Prefix, Handled
<1>4. Database(tables)
  BY <1>1 DEF Database
<1>5. QED BY <1>1, <1>2, <1>3, <1>4 DEF Basis, ConsumerInv

LEMMA BasisStep == Basis /\ [ReplicaNext]_replicaVars => Basis'
<1> SUFFICES ASSUME Basis, [ReplicaNext]_replicaVars PROVE Basis'
  OBVIOUS
<1>1. [Next]_vars
  BY StepIsStep DEF Basis, ConsumerInv, IInv
<1>2. IInv'
  BY <1>1, TypeStep, AccountStep DEF Basis, ConsumerInv, IInv
<1>3. EmptyWhenDown' /\ PipelineInOrder'
  BY <1>1, <1>2, EmptyStep, OrderStep DEF Basis, ConsumerInv, IInv
<1>4. Prefix'
  BY <1>1, PrefixStep DEF Basis
<1>5. topic' \in Topics /\ Database(tables')
  BY TablesStep, BrokenOffEffect DEF Basis, Effect
<1>6. QED BY <1>2, <1>3, <1>4, <1>5 DEF Basis, ConsumerInv, Database

LEMMA BasisHolds == ReplicaSpec => []Basis
<1>1. QED BY BasisInit, BasisStep, PTL DEF ReplicaSpec
----------------------------------------------------------------------------
(* A row that is missing was deleted *)

NameOf(o) == Fold[Message(o).table]
RowOf(o) == Padded(tables[NameOf(o)].cols, Message(o).data)

DeletedBy(d, o, row) ==
    /\ Message(d).op = "DELETE"
    /\ deaths = 0 /\ evictions = 0 => o < d /\ d \in Handled \cup {writing}
    /\ NameOf(d) = NameOf(o)
    /\ Message(d).primary_key \in DOMAIN row
    /\ Named(row, Message(d).before, Message(d).primary_key)

There(o) ==
    /\ NameOf(o) \in DOMAIN tables
    /\ \/ RowOf(o) \in RowsOf(tables, NameOf(o))
       \/ \E d \in Messages : DeletedBy(d, o, RowOf(o))

WrittenThere == \A o \in written : Message(o).op = "INSERT" => There(o)

(* What was handled stays handled, unless a process dies. *)
LEMMA HandledGrows ==
    ASSUME TypeOK, TypeOK', [ReplicaNext]_replicaVars, deaths' = 0
    PROVE  /\ deaths = 0 /\ (evictions' = 0 => evictions = 0)
           /\ \A d \in Messages : d \in Handled \cup {writing} => d \in Handled' \cup {writing'}
<1>1. [Next]_vars
  BY StepIsStep
<1>2. CASE Write
  BY <1>2 DEF Write, Handled
<1>3. CASE Die
  BY <1>3 DEF Die, TypeOK
<1>4. CASE Evict
  BY <1>4 DEF Evict, Handled, TypeOK
<1>5. CASE Pop
  <2>1. writing = 0 /\ UNCHANGED <<written, failed, deaths, evictions>>
    BY <1>5 DEF Pop
  <2>2. QED BY <2>1, TopicAssumption DEF Handled
<1>6. ASSUME \/ Start \/ StartFails \/ OperatorStart \/ Consume \/ Push
             \/ LoseConnection \/ AutoCommit \/ UNCHANGED vars
      PROVE UNCHANGED <<writing, written, failed, deaths, evictions>>
  BY <1>6 DEF Start, StartFails, OperatorStart, Consume, Push, LoseConnection, AutoCommit, vars
<1>7. QED BY <1>1, <1>2, <1>3, <1>4, <1>5, <1>6 DEF Next, Handled

(* The inductive step, for a row written before. *)
LEMMA RowStays ==
    ASSUME Basis, Basis', [ReplicaNext]_replicaVars,
           NEW o \in written, Message(o).op = "INSERT", There(o)
    PROVE  There(o)'
<1>1. /\ \A d : Message(d)' = Message(d)
      /\ \/ tables' = tables
         \/ writing # 0 /\ tables' \in BrokenOff(tables, Message(writing))
  BY TablesStep DEF Message
<1>2. NameOf(o)' = NameOf(o) /\ NameOf(o) \in DOMAIN tables /\ \A d : NameOf(d)' = NameOf(d)
  BY <1>1 DEF There, NameOf
<1>t. TypeOK /\ TypeOK'
  BY DEF Basis, ConsumerInv, IInv
<1>3. deaths' = 0 /\ evictions' = 0 =>
         /\ deaths = 0 /\ evictions = 0
         /\ \A d \in Messages : d \in Handled \cup {writing} => d \in Handled' \cup {writing'}
  BY <1>t, HandledGrows
<1>4. \A d \in Messages : \A row : DeletedBy(d, o, row) => DeletedBy(d, o, row)'
  BY <1>1, <1>2, <1>3 DEF DeletedBy
<1>5. CASE tables' = tables
  <2>1. RowOf(o)' = RowOf(o)
    BY <1>1, <1>2, <1>5 DEF RowOf
  <2>2. QED BY <1>2, <1>4, <1>5, <2>1 DEF There
<1>6. CASE writing # 0 /\ tables' \in BrokenOff(tables, Message(writing))
  <2>1. Effect(tables, Message(writing), tables')
    BY <1>6, BrokenOffEffect DEF Basis
  <2>2. NameOf(o) \in DOMAIN tables' /\ RowOf(o)' = RowOf(o)
    <3>1. tables'[NameOf(o)].cols = tables[NameOf(o)].cols /\ NameOf(o) \in DOMAIN tables'
      BY <1>2, <2>1 DEF Effect
    <3>2. QED BY <1>1, <1>2, <3>1 DEF RowOf
  <2>3. CASE \E d \in Messages : DeletedBy(d, o, RowOf(o))
    BY <1>2, <1>4, <2>2, <2>3 DEF There
  <2>4. CASE RowOf(o) \in RowsOf(tables, NameOf(o))
    <3>1. CASE RowOf(o) \in RowsOf(tables', NameOf(o))
      BY <1>2, <2>2, <3>1 DEF There
    <3>2. CASE RowOf(o) \notin RowsOf(tables', NameOf(o))
      <4>1. /\ Message(writing).op = "DELETE" /\ NameOf(o) = NameOf(writing)
            /\ Message(writing).primary_key \in tables[NameOf(o)].cols
            /\ Named(RowOf(o), Message(writing).before, Message(writing).primary_key)
        BY <1>2, <2>1, <2>4, <3>2 DEF Effect, NameOf
      <4>2. writing \in Messages /\ DOMAIN RowOf(o) = tables[NameOf(o)].cols
        BY <1>6, <1>t, InNumbers DEF RowOf, Padded
      <4>3. deaths = 0 /\ evictions = 0 => o < writing
        <5>1. state = "up"
          BY <1>6 DEF Basis, ConsumerInv, EmptyWhenDown
        <5>2. QED BY <1>6, <5>1 DEF Basis, Prefix, First, Handled
      <4>4. DeletedBy(writing, o, RowOf(o))
        BY <4>1, <4>2, <4>3 DEF DeletedBy
      <4>5. QED BY <1>2, <1>4, <2>2, <4>2, <4>4 DEF There
    <3>3. QED BY <3>1, <3>2
  <2>5. QED BY <2>3, <2>4 DEF There
<1>7. QED BY <1>1, <1>5, <1>6

(* An insert that succeeds leaves its row. *)
LEMMA InsertLeavesRow ==
    ASSUME NEW db, Database(db), NEW msg, msg.op = "INSERT",
           NEW result, result = HandlerIncomingData(db, msg), result.ok
    PROVE  /\ Fold[msg.table] \in DOMAIN result.tables
           /\ Padded(result.tables[Fold[msg.table]].cols, msg.data)
                \in RowsOf(result.tables, Fold[msg.table])
<1> DEFINE made == CreateTableIfNotExists(db, msg.table, msg.data)
<1>1. result = InsertRow(made, msg.table, msg.data)
  BY HandlerKind
<1>2. Database(made)
  <2>1. made = CreateTableIfNotExists(db, msg.table, msg.data)
    OBVIOUS
  <2> HIDE DEF made
  <2>2. QED BY <2>1, CreateEffect
<1> HIDE DEF made
<1>3. Exists(made, msg.table) /\ msg.data # Absent
  BY <1>1, <1>2, InsertEffect
<1>4. msg.table \notin BadNames
  BY <1>3 DEF Exists
<1> DEFINE name == Fold[msg.table]
<1>5. name = Fold[msg.table]
  OBVIOUS
<1> HIDE DEF name
<1>6. /\ name \in DOMAIN result.tables
      /\ Padded(result.tables[name].cols, msg.data) \in RowsOf(result.tables, name)
  BY <1>3, <1>4, <1>5, InsertHandled
<1>7. QED BY <1>5, <1>6

LEMMA WrittenThereStep ==
    ASSUME Basis, Basis', [ReplicaNext]_replicaVars, WrittenThere
    PROVE  WrittenThere'
<1>t. TypeOK
  BY DEF Basis, ConsumerInv, IInv
<1>1. \A d : Message(d)' = Message(d)
  BY TablesStep DEF Message
<1>2. \A o \in written : Message(o).op = "INSERT" => There(o)'
  BY RowStays DEF WrittenThere
<1>3. CASE WriteMessage /\ written' # written
  <2> DEFINE result == HandlerIncomingData(tables, Message(writing))
  <2>1. result = HandlerIncomingData(tables, Message(writing)) /\ Database(tables)
    BY DEF Basis
  <2>2. result.ok /\ tables' = result.tables /\ written' = written \cup {writing}
    BY <1>3 DEF WriteMessage
  <2> HIDE DEF result
  <2>3. ASSUME Message(writing).op = "INSERT"
        PROVE  /\ NameOf(writing) \in DOMAIN result.tables
               /\ Padded(result.tables[NameOf(writing)].cols, Message(writing).data)
                    \in RowsOf(result.tables, NameOf(writing))
    BY <2>1, <2>2, <2>3, InsertLeavesRow DEF NameOf
  <2>4. \A o : NameOf(o)' = NameOf(o)
    BY <1>1 DEF NameOf
  <2>5. Message(writing).op = "INSERT" =>
           \A o : o = writing => There(o)'
    BY <1>1, <2>2, <2>3, <2>4 DEF There, RowOf
  <2>6. QED BY <1>1, <1>2, <2>2, <2>5 DEF WrittenThere
<1>4. CASE UNCHANGED written
  BY <1>1, <1>2, <1>4 DEF WrittenThere
<1>5. UNCHANGED written \/ WriteMessage
  BY DEF ReplicaNext, replicaVars, vars, Start, StartFails, OperatorStart, Consume, Push, Pop,
         AutoCommit, Evict, Die, LoseConnection
<1>6. QED BY <1>3, <1>4, <1>5

(* Theorem: MissingRowDeleted.  Whatever condition a value with an         *)
(* apostrophe makes, only a delete that parsed takes rows, and only of its *)
(* own table; without an apostrophe it takes no row that does not have the *)
(* value it names.                                                         *)
THEOREM OnlyDeletesRemove == ReplicaSpec => []MissingRowDeleted
<1>1. ReplicaInit => WrittenThere
  BY DEF ReplicaInit, Init, WrittenThere
<1>2. Basis /\ Basis' /\ WrittenThere /\ [ReplicaNext]_replicaVars => WrittenThere'
  BY WrittenThereStep
<1>3. WrittenThere => MissingRowDeleted
  BY DEF WrittenThere, There, DeletedBy, Named, MissingRowDeleted, NameOf, RowOf, RowsOf, BagIn, BagToSet
<1>4. QED BY <1>1, <1>2, <1>3, BasisHolds, PTL DEF ReplicaSpec
----------------------------------------------------------------------------
(* A row that is there was sent *)

Fits(cols, msg, r) ==
    /\ msg.op = "INSERT"
    /\ DOMAIN msg.data \subseteq cols
    /\ r = Padded(cols, msg.data)

(* The rows a message may add, whatever became of it. *)
OnlySent(db, msg, new) ==
    \A n \in DOMAIN new : \A r \in RowsOf(new, n) :
        \/ n \in DOMAIN db /\ r \in RowsOf(db, n)
        \/ n = Fold[msg.table] /\ Fits(new[n].cols, msg, r)

LEMMA CreateOnlySent ==
    ASSUME NEW db, Database(db), NEW msg,
           NEW made, made = CreateTableIfNotExists(db, msg.table, msg.data)
    PROVE  \A n \in DOMAIN made : \A r \in RowsOf(made, n) : n \in DOMAIN db /\ r \in RowsOf(db, n)
<1> SUFFICES ASSUME NEW n \in DOMAIN made, NEW r \in RowsOf(made, n)
             PROVE  n \in DOMAIN db /\ r \in RowsOf(db, n)
  OBVIOUS
<1>1. CASE n \in DOMAIN db
  <2>1. made[n] = db[n]
    BY <1>1, CreateEffect
  <2>2. QED BY <1>1, <2>1 DEF RowsOf
<1>2. CASE n \notin DOMAIN db
  <2>1. n = Fold[msg.table]
    BY <1>2, CreateEffect
  <2>2. RowsOf(made, n) = {}
    BY <1>2, <2>1, CreateEffect
  <2>3. QED BY <2>2
<1>3. QED BY <1>1, <1>2

LEMMA InsertAdds ==
    ASSUME NEW db, Database(db), NEW name, NEW data,
           NEW result, result = InsertRow(db, name, data), result.ok,
           NEW r \in RowsOf(result.tables, Fold[name]), r \notin RowsOf(db, Fold[name])
    PROVE  r = Padded(db[Fold[name]].cols, data) /\ DOMAIN data \subseteq db[Fold[name]].cols
<1> DEFINE row == Padded(db[Fold[name]].cols, data)
<1>0. result.ok
  OBVIOUS
<1>1. RowsOf(result.tables, Fold[name]) = RowsOf(db, Fold[name]) \cup {row}
  BY <1>0, InsertEffect DEF RowsOf
<1>2. DOMAIN data \subseteq db[Fold[name]].cols
  BY InsertEffect
<1> HIDE DEF row
<1>3. r = row
  BY <1>1
<1>4. QED BY <1>2, <1>3 DEF row

LEMMA BrokenOffOnlySent ==
    ASSUME NEW db, Database(db), NEW msg, NEW new \in BrokenOff(db, msg)
    PROVE  OnlySent(db, msg, new)
<1> DEFINE result == HandlerIncomingData(db, msg)
           made == CreateTableIfNotExists(db, msg.table, msg.data)
<1>0. result = HandlerIncomingData(db, msg) /\ made = CreateTableIfNotExists(db, msg.table, msg.data)
  OBVIOUS
<1>1. new = db \/ new = result.tables \/ new = made
  BY DEF BrokenOff
<1> HIDE DEF result, made
<1>2. /\ Database(made)
      /\ \A n \in DOMAIN made : \A r \in RowsOf(made, n) : n \in DOMAIN db /\ r \in RowsOf(db, n)
  BY <1>0, CreateEffect, CreateOnlySent
<1>3. CASE new = db \/ new = made
  BY <1>2, <1>3 DEF OnlySent
<1>4. CASE new = result.tables
  <2>1. CASE msg.op = "INSERT"
    <3>1. result = InsertRow(made, msg.table, msg.data)
      BY <1>0, <2>1, HandlerKind
    <3>2. CASE ~result.ok
      <4>1. result.tables = made
        BY <1>2, <3>1, <3>2, InsertEffect
      <4>2. QED BY <1>2, <1>4, <4>1 DEF OnlySent
    <3>3. CASE result.ok
      <4>1. /\ DOMAIN new = DOMAIN made
            /\ \A n \in DOMAIN made : new[n].cols = made[n].cols
            /\ \A n \in DOMAIN made \ {Fold[msg.table]} : new[n] = made[n]
        BY <1>2, <1>4, <3>1, <3>3, InsertEffect
      <4>2. ASSUME NEW n \in DOMAIN new, NEW r \in RowsOf(new, n), r \notin RowsOf(made, n)
            PROVE  n = Fold[msg.table] /\ Fits(new[n].cols, msg, r)
        <5>1. n = Fold[msg.table]
          BY <4>1, <4>2 DEF RowsOf
        <5>2. r = Padded(made[n].cols, msg.data) /\ DOMAIN msg.data \subseteq made[n].cols
          BY <1>2, <1>4, <3>1, <3>3, <4>2, <5>1, InsertAdds
        <5>3. QED BY <2>1, <4>1, <4>2, <5>1, <5>2 DEF Fits
      <4>3. QED BY <1>2, <4>1, <4>2 DEF OnlySent
    <3>4. QED BY <3>2, <3>3
  <2>2. CASE msg.op = "DELETE"
    <3>1. result = DeleteRow(db, msg.table, msg.before, msg.primary_key)
      BY <1>0, <2>2, HandlerKind
    <3>2. CASE ~result.ok
      <4>1. result.tables = db
        BY <3>1, <3>2, DeleteEffect
      <4>2. QED BY <1>4, <4>1 DEF OnlySent
    <3>3. CASE result.ok
      <4>1. /\ DOMAIN new = DOMAIN db
            /\ Without(db, new, Fold[msg.table], msg.before, msg.primary_key)
            /\ \A n \in DOMAIN db \ {Fold[msg.table]} : new[n] = db[n]
        BY <1>4, <3>1, <3>3, DeleteEffect
      <4>2. QED BY <4>1 DEF Without, OnlySent, RowsOf
    <3>4. QED BY <3>2, <3>3
  <2>3. CASE msg.op \notin {"INSERT", "DELETE"}
    <3>1. result.tables = db
      BY <1>0, <2>3, HandlerKind DEF Failure
    <3>2. QED BY <1>4, <3>1 DEF OnlySent
  <2>4. QED BY <2>1, <2>2, <2>3
<1>5. QED BY <1>1, <1>3, <1>4

(* Message o sent the row of the table of that name. *)
SentBy(o, name, row) ==
    /\ Fold[Message(o).table] = name
    /\ Fits(tables[name].cols, Message(o), row)
    /\ deaths = 0 => o \in Handled \cup {writing}

AllSent ==
    \A name \in DOMAIN tables : \A row \in RowsOf(tables, name) :
        \E o \in Messages : SentBy(o, name, row)

LEMMA AllSentStep ==
    ASSUME Basis, Basis', [ReplicaNext]_replicaVars, AllSent
    PROVE  AllSent'
<1>t. TypeOK /\ TypeOK'
  BY DEF Basis, ConsumerInv, IInv
<1>1. /\ \A d : Message(d)' = Message(d)
      /\ \/ tables' = tables
         \/ writing # 0 /\ tables' \in BrokenOff(tables, Message(writing))
  BY TablesStep DEF Message
<1>2. deaths' = 0 =>
         /\ deaths = 0
         /\ \A d \in Messages : d \in Handled \cup {writing} => d \in Handled' \cup {writing'}
  BY <1>t, HandledGrows
<1>3. ASSUME NEW name, NEW row, NEW o \in Messages, SentBy(o, name, row),
             tables'[name].cols = tables[name].cols
      PROVE  SentBy(o, name, row)'
  BY <1>1, <1>2, <1>3 DEF SentBy
<1>4. CASE tables' = tables
  BY <1>3, <1>4 DEF AllSent
<1>5. CASE writing # 0 /\ tables' \in BrokenOff(tables, Message(writing))
  <2>1. Effect(tables, Message(writing), tables') /\ OnlySent(tables, Message(writing), tables')
    BY <1>5, BrokenOffEffect, BrokenOffOnlySent DEF Basis
  <2>2. \A n \in DOMAIN tables : tables'[n].cols = tables[n].cols
    BY <2>1 DEF Effect
  <2>3. writing \in Messages
    BY <1>5, <1>t, InNumbers
  <2>4. deaths' = 0 => writing \in Handled' \cup {writing'}
    BY <1>2, <2>3
  <2>5. ASSUME NEW name \in DOMAIN tables', NEW row \in RowsOf(tables', name)
        PROVE  \E o \in Messages : SentBy(o, name, row)'
    <3>1. CASE name \in DOMAIN tables /\ row \in RowsOf(tables, name)
      BY <1>3, <2>2, <3>1 DEF AllSent
    <3>2. CASE name = Fold[Message(writing).table] /\ Fits(tables'[name].cols, Message(writing), row)
      <4>1. \A o : o = writing => SentBy(o, name, row)'
        BY <1>1, <2>4, <3>2 DEF SentBy
      <4>2. QED BY <2>3, <4>1
    <3>3. QED BY <2>1, <2>5, <3>1, <3>2 DEF OnlySent
  <2>6. QED BY <2>5 DEF AllSent
<1>6. QED BY <1>1, <1>4, <1>5

(* Theorem: RowsAreSent.  Every row is one an insert made, with all the    *)
(* columns it was sent with, for only inserts that fit their table add     *)
(* rows and nothing changes one.                                           *)
THEOREM TargetRowsAreSent == ReplicaSpec => []RowsAreSent
<1>1. ReplicaInit => AllSent
  BY DEF ReplicaInit, AllSent
<1>2. Basis /\ Basis' /\ AllSent /\ [ReplicaNext]_replicaVars => AllSent'
  BY AllSentStep
<1>3. AllSent => RowsAreSent
  BY DEF AllSent, SentBy, Fits, RowsAreSent, RowsOf, BagToSet
<1>4. QED BY <1>1, <1>2, <1>3, BasisHolds, PTL DEF ReplicaSpec
----------------------------------------------------------------------------
(* Why a statement fails *)

(* In a process that never died and is connected, the tables are those the *)
(* handled messages make, each with the columns of the very first row.     *)
Shape ==
    /\ deaths = 0 /\ state # "up" => DOMAIN tables = {}
    /\ deaths = 0 /\ connected =>
          /\ \A n \in DOMAIN tables : \E i \in Handled : Creates(i, n)
          /\ \A i \in Handled : \A n : Creates(i, n) => n \in DOMAIN tables
          /\ \A i \in Messages, n \in DOMAIN tables :
                Creates(i, n) /\ (\A j \in Messages : Creates(j, n) => i <= j) =>
                    tables[n].cols = DOMAIN Message(i).data

(* What a step does to a process that does not die and stays connected:    *)
(* it starts, it handles the message at hand or it leaves the data alone.  *)
LEMMA DataStep ==
    ASSUME Basis, [ReplicaNext]_replicaVars, deaths' = 0
    PROVE  /\ deaths = 0
           /\ connected' =>
                 \/ /\ state # "up" /\ connected = FALSE
                    /\ UNCHANGED <<tables, written, failed>>
                 \/ connected /\ UNCHANGED <<tables, written, failed, evictions>>
                 \/ connected /\ evictions' # 0 /\ UNCHANGED <<tables, written, failed>>
                 \/ connected /\ WriteMessage
           /\ state' # "up" => UNCHANGED tables /\ state # "up"
<1>t. TypeOK
  BY DEF Basis, ConsumerInv, IInv
<1>1. CASE WriteMessage
  <2>1. state = "up"
    BY <1>1 DEF WriteMessage, Basis, ConsumerInv, EmptyWhenDown
  <2>2. QED BY <1>1, <2>1 DEF WriteMessage
<1>2. CASE Die
  BY <1>2, <1>t DEF Die, TypeOK
<1>3. CASE LoseConnection
  BY <1>3 DEF LoseConnection
<1>4. CASE Start /\ UNCHANGED tables
  BY <1>4 DEF Start, Basis, Prefix
<1>5. CASE Evict /\ UNCHANGED tables
  BY <1>5, <1>t DEF Evict, TypeOK
<1>6. CASE (StartFails \/ OperatorStart) /\ UNCHANGED tables
  BY <1>6 DEF StartFails, OperatorStart, Basis, Prefix
<1>7. CASE Push /\ UNCHANGED tables
  <2>1. state = "up"
    BY <1>7 DEF Push, Basis, ConsumerInv, EmptyWhenDown
  <2>2. QED BY <1>7, <2>1 DEF Push
<1>8. CASE (Consume \/ Pop \/ AutoCommit) /\ UNCHANGED tables
  BY <1>8 DEF Consume, Pop, AutoCommit
<1>9. CASE UNCHANGED replicaVars
  BY <1>9 DEF replicaVars, vars, Basis, Prefix
<1>10. QED BY <1>1, <1>2, <1>3, <1>4, <1>5, <1>6, <1>7, <1>8, <1>9 DEF ReplicaNext

LEMMA ShapeStep ==
    ASSUME Basis, Basis', [ReplicaNext]_replicaVars, Shape
    PROVE  Shape'
<1> SUFFICES ASSUME deaths' = 0 PROVE Shape'
  BY DEF Shape
<1>t. TypeOK
  BY DEF Basis, ConsumerInv, IInv
<1>1. \A d : Message(d)' = Message(d)
  BY TablesStep DEF Message
<1>2. \A i, n : Creates(i, n)' = Creates(i, n)
  BY <1>1 DEF Creates
<1>3. deaths = 0 /\ (state' # "up" => DOMAIN tables' = {})
  BY DataStep DEF Shape
<1>4. CASE ~connected'
  BY <1>3, <1>4 DEF Shape
<1>5. CASE connected' /\ state # "up" /\ UNCHANGED <<tables, written, failed>>
  <2>1. DOMAIN tables' = {} /\ Handled' = {}
    BY <1>3, <1>5 DEF Shape, Basis, Prefix, Handled
  <2>2. QED BY <1>3, <2>1 DEF Shape
<1>6. CASE connected /\ UNCHANGED <<tables, written, failed>>
  <2>1. Handled' = Handled
    BY <1>6 DEF Handled
  <2>2. QED BY <1>1, <1>2, <1>3, <1>6, <2>1 DEF Shape
<1>7. CASE connected /\ WriteMessage
  <2> DEFINE result == HandlerIncomingData(tables, Message(writing))
  <2>1. /\ result = HandlerIncomingData(tables, Message(writing)) /\ Database(tables)
        /\ tables' = result.tables
    BY <1>7 DEF Basis, WriteMessage
  <2> HIDE DEF result
  <2>2. Effect(tables, Message(writing), tables')
    BY <2>1, HandlerEffect
  <2>3. writing # 0 /\ writing \in Messages /\ Handled' = Handled \cup {writing}
    BY <1>7, <1>t, InNumbers DEF WriteMessage, Handled
  <2>4. \A i \in Messages : i < writing => i \in Handled
    <3>1. state = "up"
      BY <2>3 DEF Basis, ConsumerInv, EmptyWhenDown
    <3>2. QED BY <1>3, <2>3, <3>1 DEF Basis, Prefix, First
  <2>5. \A n \in DOMAIN tables' \ DOMAIN tables :
           Creates(writing, n) /\ tables'[n].cols = DOMAIN Message(writing).data
    BY <2>2 DEF Effect, Creates
  <2>6. \A n \in DOMAIN tables' : \E i \in Handled' : Creates(i, n)
    <3>1. \A n \in DOMAIN tables : \E i \in Handled : Creates(i, n)
      BY <1>3, <1>7 DEF Shape
    <3>2. QED BY <2>3, <2>5, <3>1
  <2>7. \A i \in Handled' : \A n : Creates(i, n) => n \in DOMAIN tables'
    <3>1. \A i \in Handled : \A n : Creates(i, n) => n \in DOMAIN tables'
      BY <1>3, <1>7, <2>2 DEF Shape, Effect
    <3>2. ASSUME NEW n, Creates(writing, n) PROVE n \in DOMAIN tables'
      <4>1. /\ Message(writing).op = "INSERT" /\ Message(writing).table \notin BadNames
            /\ n = Fold[Message(writing).table]
        BY <3>2 DEF Creates
      <4>2. topic[writing].op = "INSERT" => Message(writing).data # Absent
        BY <2>3, MessageIs DEF Basis
      <4>3. Message(writing).op = topic[writing].op
        BY <2>3, MessageIs DEF Basis
      <4>4. QED BY <2>1, <4>1, <4>2, <4>3, InsertHandled
    <3>3. QED BY <2>3, <3>1, <3>2
  <2>8. ASSUME NEW i \in Messages, NEW n \in DOMAIN tables', Creates(i, n),
               \A j \in Messages : Creates(j, n) => i <= j
        PROVE  tables'[n].cols = DOMAIN Message(i).data
    <3>1. CASE n \in DOMAIN tables
      BY <1>3, <1>7, <2>2, <2>8, <3>1 DEF Shape, Effect
    <3>2. CASE n \notin DOMAIN tables
      <4>1. Creates(writing, n) /\ tables'[n].cols = DOMAIN Message(writing).data
        BY <2>5, <3>2
      <4>2. i <= writing
        BY <2>3, <2>8, <4>1
      <4>3. ~(i < writing)
        <5>1. i < writing => n \in DOMAIN tables
          BY <1>3, <1>7, <2>4, <2>8 DEF Shape
        <5>2. QED BY <3>2, <5>1
      <4>4. i = writing
        BY <1>t, <4>2, <4>3, InNumbers
      <4>5. QED BY <4>1, <4>4
    <3>3. QED BY <3>1, <3>2
  <2>9. QED BY <1>1, <1>2, <1>3, <2>6, <2>7, <2>8 DEF Shape
<1>8. QED BY <1>4, <1>5, <1>6, <1>7, DataStep

(* The columns of a table are those of the first message up to o that      *)
(* creates it.                                                             *)
LEMMA FirstCreates ==
    ASSUME Basis, Shape, deaths = 0, connected, NEW o \in Messages, NEW n \in DOMAIN tables,
           {k \in 1 .. o : Creates(k, n)} # {}
    PROVE  \E i \in {k \in 1 .. o : Creates(k, n)} :
              /\ \A j \in {k \in 1 .. o : Creates(k, n)} : i <= j
              /\ tables[n].cols = DOMAIN Message(i).data
<1> DEFINE creating == {k \in 1 .. o : Creates(k, n)}
<1>1. creating \subseteq Messages /\ creating \subseteq Nat
  BY TopicAssumption
<1>2. PICK i \in creating : \A j \in creating : i <= j
  <2>1. creating # {}
    OBVIOUS
  <2> HIDE DEF creating
  <2>2. QED BY <1>1, <2>1, FirstExists
<1>3. \A j \in Messages : Creates(j, n) => i <= j
  BY <1>2, TopicAssumption
<1>4. tables[n].cols = DOMAIN Message(i).data
  BY <1>1, <1>2, <1>3 DEF Shape
<1>5. QED BY <1>2, <1>4

LEMMA FailureStep ==
    ASSUME Basis, Basis', [ReplicaNext]_replicaVars, Shape, Shape', FailureExplained
    PROVE  FailureExplained'
<1> SUFFICES ASSUME deaths' = 0, connected' PROVE \A o \in failed' : Explained(o)'
  BY DEF FailureExplained
<1>t. TypeOK /\ TypeOK'
  BY DEF Basis, ConsumerInv, IInv
<1>1. \A d : Message(d)' = Message(d)
  BY TablesStep DEF Message
<1>2. \A o : Explained(o)' = Explained(o)
  BY <1>1 DEF Explained, Creates
<1>3. deaths = 0
  BY DataStep
<1>4. CASE state # "up" /\ UNCHANGED failed
  BY <1>3, <1>4 DEF Basis, Prefix, Handled
<1>5. CASE connected /\ UNCHANGED failed
  BY <1>2, <1>3, <1>5 DEF FailureExplained
<1>6. CASE connected /\ WriteMessage
  <2> DEFINE result == HandlerIncomingData(tables, Message(writing))
             n == NameOf(writing)
  <2>1. /\ result = HandlerIncomingData(tables, Message(writing)) /\ Database(tables)
        /\ tables' = result.tables
        /\ failed' = IF result.ok THEN failed ELSE failed \cup {writing}
    BY <1>6 DEF Basis, WriteMessage
  <2>2. n = Fold[Message(writing).table]
    BY DEF NameOf
  <2> HIDE DEF result, n
  <2>3. writing # 0 /\ writing \in Messages /\ Handled' = Handled \cup {writing}
    BY <1>6, <1>t, InNumbers DEF WriteMessage, Handled
  <2>4. ASSUME ~result.ok PROVE Explained(writing)
    <3> SUFFICES ASSUME Message(writing).op \in {"INSERT", "DELETE"},
                        Message(writing).table \notin BadNames
                 PROVE  Explained(writing)
      <4>1. Message(writing).op \in {"INSERT", "UPDATE", "DELETE", "TRUNCATE"}
        BY <2>3, MessageIs DEF Basis, Change
      <4>2. QED BY <4>1 DEF Explained
    <3>1. CASE Message(writing).op = "INSERT"
      <4>1. topic[writing].op = "INSERT" /\ Message(writing).data # Absent
        BY <2>3, <3>1, MessageIs DEF Basis
      <4>2. n \in DOMAIN tables' /\ ~(DOMAIN Message(writing).data \subseteq tables'[n].cols)
        BY <2>1, <2>2, <2>4, <3>1, <4>1, InsertHandled
      <4>3. n \in DOMAIN tables
        BY <2>1, <2>2, <2>4, <3>1, <4>1, <4>2, InsertHandled
      <4>4. tables'[n].cols = tables[n].cols
        BY <2>1, <4>3, HandlerEffect DEF Effect
      <4>5. Creates(writing, n) /\ writing \in 1 .. writing
        BY <2>2, <2>3, <3>1, TopicAssumption DEF Creates
      <4>6. \E i \in {k \in 1 .. writing : Creates(k, n)} :
               /\ \A j \in {k \in 1 .. writing : Creates(k, n)} : i <= j
               /\ tables[n].cols = DOMAIN Message(i).data
        BY <1>3, <1>6, <2>3, <4>3, <4>5, FirstCreates
      <4>7. QED BY <2>2, <3>1, <4>2, <4>4, <4>6 DEF Explained
    <3>2. CASE Message(writing).op = "DELETE"
      <4>1. result = DeleteRow(tables, Message(writing).table, Message(writing).before,
                               Message(writing).primary_key)
        BY <2>1, <3>2, HandlerKind
      <4>2. ~(/\ Exists(tables, Message(writing).table)
              /\ Message(writing).primary_key \in tables[n].cols
              /\ Message(writing).before[Message(writing).primary_key] \notin Unparsed)
        BY <2>1, <2>2, <2>4, <4>1, DeleteEffect
      <4>3. CASE {k \in 1 .. writing : Creates(k, n)} = {}
        BY <2>2, <3>2, <4>3 DEF Explained
      <4>4. CASE Message(writing).before[Message(writing).primary_key] \in Unparsed
        BY <3>2, <4>4 DEF Explained
      <4>5. CASE /\ {k \in 1 .. writing : Creates(k, n)} # {}
                 /\ ~(Message(writing).primary_key \in tables[n].cols) /\ n \in DOMAIN tables
        <5>1. \E i \in {k \in 1 .. writing : Creates(k, n)} :
                 /\ \A j \in {k \in 1 .. writing : Creates(k, n)} : i <= j
                 /\ tables[n].cols = DOMAIN Message(i).data
          BY <1>3, <1>6, <2>3, <4>5, FirstCreates
        <5>2. QED BY <2>2, <3>2, <4>5, <5>1 DEF Explained
      <4>6. CASE {k \in 1 .. writing : Creates(k, n)} # {} /\ n \notin DOMAIN tables
        <5>1. PICK k \in 1 .. writing : Creates(k, n)
          BY <4>6
        <5>2. k \in Messages /\ k # writing /\ k < writing
          BY <2>3, <3>2, <5>1, TopicAssumption DEF Creates
        <5>3. k \in Handled
          <6>1. state = "up"
            BY <2>3 DEF Basis, ConsumerInv, EmptyWhenDown
          <6>2. QED BY <1>3, <2>3, <5>2, <6>1 DEF Basis, Prefix, First
        <5>4. QED BY <1>3, <1>6, <4>6, <5>1, <5>3 DEF Shape
      <4>7. QED BY <2>2, <4>2, <4>3, <4>4, <4>5, <4>6 DEF Exists
    <3>3. QED BY <3>1, <3>2
  <2>5. QED BY <1>2, <1>3, <1>6, <2>1, <2>4 DEF FailureExplained
<1>7. QED BY <1>4, <1>5, <1>6, DataStep

(* Theorem: FailureExplained.  Nothing that happens between the queue and  *)
(* the database adds a reason to fail to those the topic holds.            *)
THEOREM FailuresHaveReasons == ReplicaSpec => []FailureExplained
<1>1. ReplicaInit => Shape /\ FailureExplained
  BY DEF ReplicaInit, Init, Shape, FailureExplained
<1>2. Basis /\ Basis' /\ Shape /\ FailureExplained /\ [ReplicaNext]_replicaVars
         => Shape' /\ FailureExplained'
  BY ShapeStep, FailureStep
<1>3. QED BY <1>1, <1>2, BasisHolds, PTL DEF ReplicaSpec
----------------------------------------------------------------------------
(* The rows of the target are the rows of the source *)

(* The row that message i inserts is still there after n messages. *)
Live(def, i, n) ==
    /\ Is("INSERT", def, i)
    /\ \A j \in i + 1 .. n :
          Is("DELETE", def, j) => topic[j].old[KeyOf(def)] # topic[i].new[KeyOf(def)]

LEMMA SourceIs ==
    ASSUME NEW def, NEW n, NEW r
    PROVE  r \in SourceRows(def, n) <=>
              \E i \in 1 .. n : Live(def, i, n) /\ r = RowObject(def, topic[i].new)
BY DEF SourceRows, Live

LEMMA PlainKey ==
    ASSUME NEW def, TableDefinition(def), Plain(def)
    PROVE  /\ KeyOf(def) \in DOMAIN def.cols
           /\ def.cols[KeyOf(def)].key
           /\ \A k \in DOMAIN def.cols : def.cols[k].key => k = KeyOf(def)
<1> DEFINE keys == {k \in DOMAIN def.cols : def.cols[k].key}
<1>1. IsFiniteSet(keys)
  <2>1. IsFiniteSet(DOMAIN def.cols)
    BY FS_Interval DEF TableDefinition
  <2>2. QED BY <2>1, FS_Subset
<1>2. Cardinality(keys) = 1
  BY DEF Plain
<1>3. PICK x : keys = {x}
  <2> HIDE DEF keys
  <2>1. QED BY <1>1, <1>2, FS_Singleton
<1>4. KeyOf(def) \in keys
  BY <1>3 DEF KeyOf
<1>5. QED BY <1>3, <1>4

(* As far as an unbroken run has come, it has handled every message once. *)
LEMMA HandledIs ==
    ASSUME Basis, state = "up", deaths = 0, evictions = 0
    PROVE  /\ First \in 1 .. TopicLen + 1
           /\ Handled = 1 .. First - 1
           /\ Cardinality(Handled) = First - 1
<1>t. TypeOK
  BY DEF Basis, ConsumerInv, IInv
<1>1. First \in 1 .. TopicLen + 1
  <2>1. buf # <<>> => Head(buf) \in Messages
    BY <1>t, InNumbers
  <2>2. QED BY <1>t, <2>1, TopicAssumption DEF First, Following, TypeOK, Slot
<1>2. Handled = 1 .. First - 1
  <2>1. Handled \subseteq Messages
    BY <1>t, InNumbers
  <2>2. /\ \A o \in Messages : o < First => o \in Handled
        /\ \A o \in Handled : o < First
    BY DEF Basis, Prefix
  <2> DEFINE f == First
  <2>3. f \in 1 .. TopicLen + 1 /\ (\A o \in Messages : o < f => o \in Handled)
        /\ (\A o \in Handled : o < f)
    BY <1>1, <2>2
  <2> HIDE DEF f
  <2>4. ASSUME NEW o PROVE o \in Handled => o \in 1 .. f - 1
    BY <2>1, <2>3, TopicAssumption
  <2>5. ASSUME NEW o \in 1 .. f - 1 PROVE o \in Handled
    BY <2>3, TopicAssumption
  <2>6. Handled = 1 .. f - 1
    BY <2>4, <2>5
  <2>7. QED BY <2>6 DEF f
<1>3. Cardinality(1 .. First - 1) = First - 1
  BY <1>1, TopicAssumption, FS_Interval
<1>4. QED BY <1>1, <1>2, <1>3

(* A table of a plain definition has its columns. *)
ColumnsKept ==
    \A def \in Definitions :
        Plain(def) /\ Fold[def.name] \in DOMAIN tables =>
            tables[Fold[def.name]].cols = Columns(def)

(* Messages that may not make a plain table their own. *)
LEMMA PlainMessage ==
    ASSUME topic \in Topics, NEW def \in Definitions, Plain(def),
           NEW o \in Messages, SameTable(def, o)
    PROVE  /\ topic[o].def = def
           /\ topic[o].op = "INSERT" \/ topic[o].op = "DELETE"
           /\ Message(o).table = def.name
<1>1. Is("INSERT", def, o) \/ Is("DELETE", def, o)
  BY DEF Plain
<1>2. QED BY <1>1, MessageIs DEF Is

LEMMA ColumnsStep ==
    ASSUME Basis, Basis', [ReplicaNext]_replicaVars, ColumnsKept
    PROVE  ColumnsKept'
<1>t. TypeOK /\ topic \in Topics /\ topic' = topic
  BY TablesStep DEF Basis, ConsumerInv, IInv
<1>1. Definitions' = Definitions /\ \A def : Plain(def)' = Plain(def)
  BY <1>t DEF Definitions, Plain, Is, SameTable
<1>2. CASE tables' = tables
  BY <1>1, <1>2 DEF ColumnsKept
<1>3. CASE writing # 0 /\ tables' \in BrokenOff(tables, Message(writing))
  <2>1. Effect(tables, Message(writing), tables')
    BY <1>3, BrokenOffEffect DEF Basis
  <2>2. writing \in Messages
    BY <1>3, <1>t, InNumbers
  <2>3. ASSUME NEW def \in Definitions, Plain(def), Fold[def.name] \in DOMAIN tables'
        PROVE  tables'[Fold[def.name]].cols = Columns(def)
    <3>1. CASE Fold[def.name] \in DOMAIN tables
      BY <2>1, <2>3, <3>1 DEF Effect, ColumnsKept
    <3>2. CASE Fold[def.name] \notin DOMAIN tables
      <4>1. /\ Fold[def.name] = Fold[Message(writing).table] /\ Message(writing).op = "INSERT"
            /\ tables'[Fold[def.name]].cols = DOMAIN Message(writing).data
        BY <2>1, <2>3, <3>2 DEF Effect
      <4>2. topic[writing].op = "INSERT" /\ Message(writing).table = topic[writing].def.name
        BY <1>t, <2>2, <4>1, MessageIs
      <4>3. SameTable(def, writing)
        BY <4>1, <4>2 DEF SameTable
      <4>4. topic[writing].def = def
        BY <1>t, <2>2, <2>3, <4>3, PlainMessage
      <4>5. DOMAIN Message(writing).data = Columns(def)
        BY <1>t, <2>2, <4>2, <4>4, MessageIs
      <4>6. QED BY <4>1, <4>5
    <3>3. QED BY <3>1, <3>2
  <2>4. QED BY <1>1, <2>3 DEF ColumnsKept
<1>4. QED BY <1>2, <1>3, TablesStep

(* The text of a key column. *)
LEMMA KeyText ==
    ASSUME NEW def, TableDefinition(def), NEW row, StoredRow(def, row),
           NEW k \in DOMAIN def.cols, def.cols[k].key
    PROVE  /\ RowObject(def, row)[def.cols[k].name] = row[k]
           /\ ColumnText(row[k]) = row[k]
           /\ def.cols[k].name \in Columns(def)
<1>1. DOMAIN row = DOMAIN def.cols /\ row[k] \notin {Null, Toasted}
  BY DEF StoredRow
<1>2. def.cols[k].name \in Columns(def)
  BY DEF Columns
<1>3. (CHOOSE j \in DOMAIN row : def.cols[j].name = def.cols[k].name) = k
  BY <1>1 DEF TableDefinition
<1>4. RowObject(def, row)[def.cols[k].name]
        = ColumnText(row[CHOOSE j \in DOMAIN row : def.cols[j].name = def.cols[k].name])
  BY <1>2 DEF RowObject
<1>5. ColumnText(row[k]) = row[k]
  <2>1. row[k] # Null /\ row[k] # Toasted
    BY <1>1
  <2>2. QED BY <2>1, Zenon DEF ColumnText
<1>6. QED BY <1>2, <1>3, <1>4, <1>5

(* What one more message does to the rows of the source. *)
LEMMA SourceStep ==
    ASSUME topic \in Topics, NEW def \in Definitions, Plain(def), NEW w \in Messages, NEW r
    PROVE  /\ ~SameTable(def, w) =>
                 (r \in SourceRows(def, w) <=> r \in SourceRows(def, w - 1))
           /\ topic[w].op = "INSERT" /\ SameTable(def, w) =>
                 (r \in SourceRows(def, w) <=>
                     r \in SourceRows(def, w - 1) \/ r = RowObject(def, topic[w].new))
           /\ topic[w].op = "DELETE" /\ SameTable(def, w) =>
                 (r \in SourceRows(def, w) <=>
                     /\ r \in SourceRows(def, w - 1)
                     /\ r[def.cols[KeyOf(def)].name] # topic[w].old[KeyOf(def)])
<1> DEFINE row(i) == RowObject(def, topic[i].new)
<1>1. /\ w \in Nat /\ w >= 1
      /\ \A i : i \in 1 .. w <=> i \in 1 .. w - 1 \/ i = w
      /\ 1 .. w \subseteq Messages
      /\ \A i \in 1 .. w - 1 : \A j : j \in i + 1 .. w <=> j \in i + 1 .. w - 1 \/ j = w
      /\ w + 1 .. w = {}
  BY TopicAssumption
<1>2. /\ r \in SourceRows(def, w) <=> \E i \in 1 .. w : Live(def, i, w) /\ r = row(i)
      /\ r \in SourceRows(def, w - 1) <=> \E i \in 1 .. w - 1 : Live(def, i, w - 1) /\ r = row(i)
  BY SourceIs
<1> HIDE DEF row
<1>3. Live(def, w, w) <=> Is("INSERT", def, w)
  BY <1>1 DEF Live
<1>4. \A i \in 1 .. w - 1 :
         Live(def, i, w) <=>
            /\ Live(def, i, w - 1)
            /\ Is("DELETE", def, w) => topic[w].old[KeyOf(def)] # topic[i].new[KeyOf(def)]
  BY <1>1 DEF Live
<1>5. CASE ~SameTable(def, w)
  <2>1. ~Is("INSERT", def, w) /\ ~Is("DELETE", def, w)
    BY <1>5 DEF Is, SameTable
  <2>2. QED BY <1>1, <1>2, <1>3, <1>4, <1>5, <2>1
<1>6. CASE topic[w].op = "INSERT" /\ SameTable(def, w)
  <2>1. Is("INSERT", def, w) /\ ~Is("DELETE", def, w)
    BY <1>6, PlainMessage DEF Is
  <2>2. QED BY <1>1, <1>2, <1>3, <1>4, <1>6, <2>1 DEF row
<1>7. CASE topic[w].op = "DELETE" /\ SameTable(def, w)
  <2>1. Is("DELETE", def, w) /\ ~Is("INSERT", def, w)
    BY <1>7, PlainMessage DEF Is
  <2> DEFINE key == def.cols[KeyOf(def)].name
             old == topic[w].old[KeyOf(def)]
  <2>2. \A i \in 1 .. w - 1 : Live(def, i, w - 1) => row(i)[key] = topic[i].new[KeyOf(def)]
    <3> SUFFICES ASSUME NEW i \in 1 .. w - 1, Is("INSERT", def, i)
                 PROVE  row(i)[key] = topic[i].new[KeyOf(def)]
      BY DEF Live
    <3>1. i \in Messages /\ Change(topic[i])
      BY <1>1, MessageIs
    <3>2. StoredRow(def, topic[i].new) /\ TableDefinition(def)
      BY <3>1 DEF Is, Change
    <3>3. KeyOf(def) \in DOMAIN def.cols /\ def.cols[KeyOf(def)].key
      BY <3>2, PlainKey
    <3>4. QED BY <3>2, <3>3, KeyText DEF row
  <2> HIDE DEF key, old
  <2>3. \A i \in 1 .. w - 1 :
           Live(def, i, w) <=> Live(def, i, w - 1) /\ old # topic[i].new[KeyOf(def)]
    BY <1>4, <2>1 DEF old
  <2>4. r \in SourceRows(def, w) <=> \E i \in 1 .. w - 1 : Live(def, i, w) /\ r = row(i)
    BY <1>1, <1>2, <1>3, <2>1
  <2>5. r \in SourceRows(def, w) <=> r \in SourceRows(def, w - 1) /\ r[key] # old
    BY <1>2, <2>2, <2>3, <2>4
  <2>6. QED BY <1>7, <2>5 DEF key, old
<1>8. topic[w].op = "INSERT" \/ topic[w].op = "DELETE" \/ ~SameTable(def, w)
  BY PlainMessage
<1>9. QED BY <1>5, <1>6, <1>7, <1>8

RowsIn(db, def) == IF Fold[def.name] \in DOMAIN db THEN RowsOf(db, Fold[def.name]) ELSE {}

LEMMA TargetIs == ASSUME NEW def PROVE BagToSet(TargetRows(def)) = RowsIn(tables, def)
<1>1. DOMAIN EmptyBag = {}
  BY DEF EmptyBag, SetToBag
<1>2. QED BY <1>1 DEF BagToSet, TargetRows, RowsIn, RowsOf

(* What the message does to the rows of the target, in the same words. *)
LEMMA TargetStep ==
    ASSUME topic \in Topics, NEW db, Database(db), NEW def \in Definitions, Plain(def),
           NEW w \in Messages,
           NEW result, result = HandlerIncomingData(db, Message(w)),
           Fold[def.name] \in DOMAIN db => db[Fold[def.name]].cols = Columns(def),
           NEW r
    PROVE  /\ ~SameTable(def, w) =>
                 (r \in RowsIn(result.tables, def) <=> r \in RowsIn(db, def))
           /\ topic[w].op = "INSERT" /\ SameTable(def, w) =>
                 (r \in RowsIn(result.tables, def) <=>
                     r \in RowsIn(db, def) \/ r = RowObject(def, topic[w].new))
           /\ topic[w].op = "DELETE" /\ SameTable(def, w) =>
                 (r \in RowsIn(result.tables, def) <=>
                     /\ r \in RowsIn(db, def)
                     /\ r[def.cols[KeyOf(def)].name] # topic[w].old[KeyOf(def)])
<1> DEFINE n == Fold[def.name]
           msg == Message(w)
<1>n. n = Fold[def.name] /\ msg = Message(w) /\ (n \in DOMAIN db => db[n].cols = Columns(def))
  OBVIOUS
<1>e. Effect(db, msg, result.tables)
  BY HandlerEffect
<1>m. /\ Change(topic[w]) /\ msg.op = topic[w].op
      /\ topic[w].op # "TRUNCATE" => msg.table = topic[w].def.name
  BY MessageIs
<1>1. CASE ~SameTable(def, w)
  <2>1. CASE topic[w].op \in {"INSERT", "DELETE"}
    <3>1. n # Fold[msg.table]
      BY <1>1, <1>m, <2>1 DEF SameTable
    <3>2. /\ n \in DOMAIN db => n \in DOMAIN result.tables /\ result.tables[n] = db[n]
          /\ n \in DOMAIN result.tables => n \in DOMAIN db
      BY <1>e, <3>1 DEF Effect
    <3>3. QED BY <1>1, <3>2 DEF RowsIn, RowsOf
  <2>2. CASE topic[w].op \notin {"INSERT", "DELETE"}
    <3>1. result = Failure(db)
      BY <1>m, <2>2, HandlerKind
    <3>2. result.tables = db
      BY <3>1 DEF Failure
    <3>3. QED BY <1>1, <3>2
  <2>3. QED BY <2>1, <2>2
<1>2. CASE topic[w].op = "INSERT" /\ SameTable(def, w)
  <2>1. topic[w].def = def /\ msg.table = def.name /\ msg.table \notin BadNames
    BY <1>2, PlainMessage DEF Plain
  <2>2. /\ msg.data = RowObject(def, topic[w].new) /\ msg.data # Absent
        /\ DOMAIN msg.data = Columns(def) /\ msg.op = "INSERT"
    BY <1>2, <2>1, MessageIs
  <2> HIDE DEF n, msg
  <2>3. /\ n \in DOMAIN result.tables
        /\ n \notin DOMAIN db => result.tables[n].cols = DOMAIN msg.data
        /\ result.ok <=> DOMAIN msg.data \subseteq result.tables[n].cols
        /\ result.ok =>
              RowsOf(result.tables, n) =
                 (IF n \in DOMAIN db THEN RowsOf(db, n) ELSE {})
                 \cup {Padded(result.tables[n].cols, msg.data)}
    <3>1. n = Fold[msg.table]
      BY <1>n, <2>1
    <3>2. result = HandlerIncomingData(db, msg)
      BY <1>n
    <3>3. QED BY <2>1, <2>2, <3>1, <3>2, InsertHandled
  <2>4. result.tables[n].cols = Columns(def)
    <3>1. n \in DOMAIN db => result.tables[n].cols = db[n].cols
      BY <1>e DEF Effect
    <3>2. QED BY <1>n, <2>2, <2>3, <3>1
  <2>5. Padded(result.tables[n].cols, msg.data) = RowObject(def, topic[w].new)
    BY <2>2, <2>4 DEF Padded, RowObject
  <2>6. RowsOf(result.tables, n)
          = (IF n \in DOMAIN db THEN RowsOf(db, n) ELSE {}) \cup {RowObject(def, topic[w].new)}
    BY <2>2, <2>3, <2>4, <2>5
  <2>7. QED BY <1>2, <1>n, <2>3, <2>6 DEF RowsIn
<1>3. CASE topic[w].op = "DELETE" /\ SameTable(def, w)
  <2> DEFINE k == KeyOf(def)
  <2>1. topic[w].def = def /\ msg.table = def.name /\ msg.table \notin BadNames /\ ~def.full
    BY <1>3, PlainMessage DEF Plain
  <2>2. StoredRow(def, topic[w].old) /\ TableDefinition(def)
    BY <1>3, <1>m, <2>1 DEF Change
  <2>3. /\ k \in DOMAIN def.cols /\ def.cols[k].key
        /\ \A j \in DOMAIN def.cols : def.cols[j].key => j = k
    BY <2>2, PlainKey
  <2>4. /\ msg.primary_key = def.cols[k].name
        /\ msg.before[msg.primary_key] = ColumnText(topic[w].old[k])
    <3>1. \E j \in DOMAIN def.cols :
             /\ def.full \/ def.cols[j].key
             /\ msg.primary_key = def.cols[j].name
             /\ msg.before[msg.primary_key] = ColumnText(topic[w].old[j])
      BY <1>3, <2>1, MessageIs
    <3>2. QED BY <2>1, <2>3, <3>1
  <2>5. /\ msg.before[msg.primary_key] = topic[w].old[k]
        /\ msg.primary_key \in Columns(def)
    BY <2>2, <2>3, <2>4, KeyText
  <2>6. topic[w].old[k] \notin Quoted /\ topic[w].old[k] \notin Unparsed
    BY <1>3, <2>1, QuotedAssumption DEF Plain, Is
  <2>7. result = DeleteRow(db, msg.table, msg.before, msg.primary_key)
    BY <1>3, <1>m, HandlerKind
  <2>8. CASE n \in DOMAIN db
    <3>1. Exists(db, msg.table) /\ msg.primary_key \in db[n].cols
      BY <1>n, <2>1, <2>5, <2>8 DEF Exists
    <3>2. result.ok
      BY <1>n, <2>1, <2>5, <2>6, <2>7, <3>1, DeleteEffect
    <3>3. \A x : x \in RowsOf(result.tables, n) <=>
                   x \in RowsOf(db, n) /\ x[msg.primary_key] # msg.before[msg.primary_key]
      <4> HIDE DEF n, msg
      <4>1. Without(db, result.tables, Fold[msg.table], msg.before, msg.primary_key)
        BY <2>7, <3>2, DeleteEffect
      <4>2. msg.before[msg.primary_key] \notin Quoted
        BY <2>5, <2>6
      <4>3. \A x : Selects(x, msg.before, msg.primary_key)
                     <=> x[msg.primary_key] = msg.before[msg.primary_key]
        BY <4>2 DEF Selects
      <4>4. QED BY <1>n, <2>1, <4>1, <4>3 DEF Without
    <3>4. n \in DOMAIN result.tables
      BY <1>e, <2>8 DEF Effect
    <3>5. QED BY <1>3, <1>n, <2>4, <2>5, <2>8, <3>3, <3>4 DEF RowsIn
  <2>9. CASE n \notin DOMAIN db
    <3>1. DOMAIN result.tables = DOMAIN db
      BY <2>7, DeleteEffect
    <3>2. QED BY <1>3, <1>n, <2>9, <3>1 DEF RowsIn
  <2>10. QED BY <2>8, <2>9
<1>4. QED BY <1>1, <1>2, <1>3, <1>m, PlainMessage

LEMMA FaithfulStep ==
    ASSUME Basis, Basis', [ReplicaNext]_replicaVars, Shape, ColumnsKept, FaithfulTables
    PROVE  FaithfulTables'
<1> SUFFICES ASSUME state' = "up", connected', deaths' = 0, evictions' = 0,
                    NEW def \in Definitions', Plain(def)'
             PROVE  (BagToSet(TargetRows(def)) = SourceRows(def, Cardinality(Handled)))'
  BY DEF FaithfulTables
<1>t. TypeOK /\ TypeOK' /\ topic \in Topics /\ topic' = topic
  BY TablesStep DEF Basis, ConsumerInv, IInv
<1>1. def \in Definitions /\ Plain(def)
  BY <1>t DEF Definitions, Plain, Is, SameTable
<1>2. \A n : SourceRows(def, n)' = SourceRows(def, n)
  BY <1>t DEF SourceRows, Is
<1>3. BagToSet(TargetRows(def))' = RowsIn(tables', def)
  <2>1. (BagToSet(TargetRows(def)) = RowsIn(tables, def))'
    BY TargetIs, PTL
  <2>2. QED BY <2>1 DEF RowsIn, RowsOf
<1>4. deaths = 0 /\ (connected => state = "up")
  BY DataStep DEF Basis, Prefix
<1>5. CASE state # "up" /\ UNCHANGED <<tables, written, failed>>
  <2>1. DOMAIN tables' = {} /\ Handled' = {}
    BY <1>4, <1>5 DEF Shape, Basis, Prefix, Handled
  <2>2. Cardinality(Handled') = 0
    BY <2>1, FS_EmptySet
  <2>3. SourceRows(def, 0) = {}
    BY DEF SourceRows
  <2>4. RowsIn(tables', def) = {}
    BY <2>1 DEF RowsIn
  <2>5. QED BY <1>2, <1>3, <2>2, <2>3, <2>4
<1>6. CASE connected /\ UNCHANGED <<tables, written, failed, evictions>>
  <2>1. BagToSet(TargetRows(def)) = SourceRows(def, Cardinality(Handled))
    BY <1>1, <1>4, <1>6 DEF FaithfulTables
  <2>2. Handled' = Handled /\ TargetRows(def)' = TargetRows(def)
    BY <1>6 DEF Handled, TargetRows
  <2>3. QED BY <1>2, <2>1, <2>2 DEF BagToSet
<1>7. CASE connected /\ WriteMessage
  <2> DEFINE w == writing
             result == HandlerIncomingData(tables, Message(w))
  <2>1. /\ w # 0 /\ w \in Messages /\ Handled' = Handled \cup {w}
        /\ evictions = 0 /\ state = "up" /\ tables' = result.tables
    BY <1>4, <1>7, <1>t, InNumbers DEF WriteMessage, Handled
  <2>2. First = w
    BY <2>1 DEF First
  <2>3. Handled = 1 .. w - 1 /\ Cardinality(Handled) = w - 1
    BY <1>4, <2>1, <2>2, HandledIs
  <2>4. Cardinality(Handled') = w
    <3>1. IsFiniteSet(Handled) /\ w \notin Handled /\ w \in Nat
      <4>1. w \in Nat
        BY <2>1, TopicAssumption
      <4>2. IsFiniteSet(1 .. w - 1)
        BY <4>1, FS_Interval
      <4>3. QED BY <2>3, <4>1, <4>2
    <3>2. Cardinality(Handled \cup {w}) = Cardinality(Handled) + 1
      BY <3>1, FS_AddElement
    <3>3. QED BY <2>1, <2>3, <3>1, <3>2
  <2>5. RowsIn(tables, def) = SourceRows(def, w - 1)
    BY <1>1, <1>4, <1>7, <2>1, <2>3, TargetIs DEF FaithfulTables
  <2>6. /\ result = HandlerIncomingData(tables, Message(w)) /\ Database(tables)
        /\ Fold[def.name] \in DOMAIN tables => tables[Fold[def.name]].cols = Columns(def)
    BY <1>1 DEF Basis, ColumnsKept
  <2> HIDE DEF w, result
  <2>7. ASSUME NEW r
        PROVE  r \in RowsIn(result.tables, def) <=> r \in SourceRows(def, w)
    <3>1. r \in RowsIn(tables, def) <=> r \in SourceRows(def, w - 1)
      BY <2>5
    <3>2. /\ ~SameTable(def, w) =>
                 (r \in RowsIn(result.tables, def) <=> r \in RowsIn(tables, def))
          /\ topic[w].op = "INSERT" /\ SameTable(def, w) =>
                 (r \in RowsIn(result.tables, def) <=>
                     r \in RowsIn(tables, def) \/ r = RowObject(def, topic[w].new))
          /\ topic[w].op = "DELETE" /\ SameTable(def, w) =>
                 (r \in RowsIn(result.tables, def) <=>
                     /\ r \in RowsIn(tables, def)
                     /\ r[def.cols[KeyOf(def)].name] # topic[w].old[KeyOf(def)])
      BY <1>1, <1>t, <2>1, <2>6, TargetStep
    <3>3. /\ ~SameTable(def, w) =>
                 (r \in SourceRows(def, w) <=> r \in SourceRows(def, w - 1))
          /\ topic[w].op = "INSERT" /\ SameTable(def, w) =>
                 (r \in SourceRows(def, w) <=>
                     r \in SourceRows(def, w - 1) \/ r = RowObject(def, topic[w].new))
          /\ topic[w].op = "DELETE" /\ SameTable(def, w) =>
                 (r \in SourceRows(def, w) <=>
                     /\ r \in SourceRows(def, w - 1)
                     /\ r[def.cols[KeyOf(def)].name] # topic[w].old[KeyOf(def)])
      BY <1>1, <1>t, <2>1, SourceStep
    <3>4. SameTable(def, w) => topic[w].op = "INSERT" \/ topic[w].op = "DELETE"
      BY <1>1, <1>t, <2>1, PlainMessage
    <3>5. QED BY <3>1, <3>2, <3>3, <3>4
  <2>8. RowsIn(result.tables, def) = SourceRows(def, w)
    BY <2>7
  <2>9. QED BY <1>2, <1>3, <2>1, <2>4, <2>8
<1>8. QED BY <1>4, <1>5, <1>6, <1>7, DataStep

(* Theorem: FaithfulTables.  An unbroken run makes every plain table that  *)
(* of the source.                                                          *)
THEOREM TablesAreFaithful == ReplicaSpec => []FaithfulTables
<1>1. ReplicaInit => Shape /\ ColumnsKept /\ FaithfulTables
  BY DEF ReplicaInit, Init, Shape, ColumnsKept, FaithfulTables
<1>2. /\ Basis /\ Basis' /\ Shape /\ ColumnsKept /\ FaithfulTables /\ [ReplicaNext]_replicaVars
      => Shape' /\ ColumnsKept' /\ FaithfulTables'
  BY ShapeStep, ColumnsStep, FaithfulStep
<1>3. QED BY <1>1, <1>2, BasisHolds, PTL DEF ReplicaSpec
----------------------------------------------------------------------------
(* Types *)

TableTyped(t) ==
    /\ t.cols \in {Columns(def) : def \in Definitions}
    /\ IsABag(t.rows)
    /\ \A row \in DOMAIN t.rows : DOMAIN row = t.cols

Typed(db) ==
    \A n \in DOMAIN db : n \in {Fold[def.name] : def \in Definitions} /\ TableTyped(db[n])

(* Every message keeps the tables typed: its rows have the table's columns. *)
LEMMA CreateTyped ==
    ASSUME NEW db, Typed(db), NEW name, NEW data, NEW def \in Definitions,
           name = def.name, DOMAIN data = Columns(def),
           NEW made, made = CreateTableIfNotExists(db, name, data)
    PROVE  Typed(made)
<1>1. CASE made = db
  BY <1>1
<1>2. CASE made = WithTable(db, Fold[name], data)
  <2>1. IsABag(EmptyBag) /\ DOMAIN EmptyBag = {}
    BY DEF IsABag, EmptyBag, SetToBag
  <2>2. /\ DOMAIN made = DOMAIN db \cup {Fold[name]}
        /\ \A n \in DOMAIN made :
              made[n] = IF n = Fold[name] THEN [cols |-> DOMAIN data, rows |-> EmptyBag] ELSE db[n]
    BY <1>2 DEF WithTable
  <2>3. TableTyped([cols |-> DOMAIN data, rows |-> EmptyBag])
    BY <2>1 DEF TableTyped
  <2>4. QED BY <2>2, <2>3 DEF Typed
<1>3. QED BY <1>1, <1>2 DEF CreateTableIfNotExists

LEMMA BagPlusOne ==
    ASSUME NEW b, IsABag(b), NEW e
    PROVE  IsABag(b (+) SetToBag({e})) /\ DOMAIN (b (+) SetToBag({e})) = DOMAIN b \cup {e}
<1>1. \A x \in DOMAIN b : b[x] \in Nat /\ b[x] > 0
  BY DEF IsABag
<1> DEFINE s == SetToBag({e})
           c == b (+) s
<1>2. DOMAIN s = {e} /\ \A x \in DOMAIN s : s[x] = 1
  BY DEF SetToBag
<1> HIDE DEF s
<1>3. /\ DOMAIN c = DOMAIN b \cup {e} /\ c = [x \in DOMAIN c |-> c[x]]
      /\ \A x \in DOMAIN c : c[x] = (IF x \in DOMAIN b THEN b[x] ELSE 0)
                                    + (IF x \in DOMAIN s THEN s[x] ELSE 0)
  BY <1>2 DEF (+)
<1> HIDE DEF c
<1>4. \A x \in DOMAIN c : c[x] \in Nat /\ c[x] > 0
  BY <1>1, <1>2, <1>3
<1>5. IsABag(c)
  BY <1>3, <1>4 DEF IsABag
<1>6. QED BY <1>3, <1>5 DEF c, s

LEMMA InsertTyped ==
    ASSUME NEW db, Database(db), Typed(db), NEW name, NEW data,
           NEW result, result = InsertRow(db, name, data)
    PROVE  Typed(result.tables)
<1> DEFINE fits == Exists(db, name) /\ data # Absent /\ DOMAIN data \subseteq db[Fold[name]].cols
           row == Padded(db[Fold[name]].cols, data)
           rows == db[Fold[name]].rows (+) SetToBag({row})
<1>1. CASE ~fits
  BY <1>1 DEF InsertRow, Failure
<1>2. CASE fits
  <2>1. Fold[name] \in DOMAIN db
    BY <1>2 DEF Exists
  <2>2. DOMAIN row = db[Fold[name]].cols
    BY DEF Padded
  <2>3. result.tables = [db EXCEPT ![Fold[name]].rows = rows]
    BY <1>2 DEF InsertRow, Success
  <2> HIDE DEF row
  <2>4. TableTyped(db[Fold[name]])
    BY <2>1 DEF Typed
  <2>5. IsABag(rows) /\ DOMAIN rows = DOMAIN db[Fold[name]].rows \cup {row}
    BY <2>4, BagPlusOne DEF TableTyped
  <2> HIDE DEF rows
  <2>6. /\ DOMAIN result.tables = DOMAIN db
        /\ \A n \in DOMAIN db \ {Fold[name]} : result.tables[n] = db[n]
        /\ result.tables[Fold[name]] = [cols |-> db[Fold[name]].cols, rows |-> rows]
    BY <2>1, <2>3 DEF Database
  <2>7. TableTyped(result.tables[Fold[name]])
    BY <2>2, <2>4, <2>5, <2>6 DEF TableTyped
  <2>8. QED BY <2>6, <2>7 DEF Typed
<1>3. QED BY <1>1, <1>2

LEMMA DeleteTyped ==
    ASSUME NEW db, Database(db), Typed(db), NEW name, NEW before, NEW key,
           NEW result, result = DeleteRow(db, name, before, key)
    PROVE  Typed(result.tables)
<1> DEFINE fits == /\ Exists(db, name) /\ key \in db[Fold[name]].cols
                   /\ before[key] \notin Unparsed
           rows == db[Fold[name]].rows
           kept == [row \in {r \in DOMAIN rows : ~Selects(r, before, key)} |-> rows[row]]
<1>1. CASE ~fits
  BY <1>1 DEF DeleteRow, Failure
<1>2. CASE fits
  <2>1. Fold[name] \in DOMAIN db
    BY <1>2 DEF Exists
  <2>2. result.tables = [db EXCEPT ![Fold[name]].rows = kept]
    BY <1>2 DEF DeleteRow, Success
  <2>3. TableTyped(db[Fold[name]])
    BY <2>1 DEF Typed
  <2>4. DOMAIN kept \subseteq DOMAIN rows /\ IsABag(kept)
    BY <2>3 DEF TableTyped, IsABag
  <2> HIDE DEF kept
  <2>5. /\ DOMAIN result.tables = DOMAIN db
        /\ \A n \in DOMAIN db \ {Fold[name]} : result.tables[n] = db[n]
        /\ result.tables[Fold[name]] = [cols |-> db[Fold[name]].cols, rows |-> kept]
    BY <2>1, <2>2 DEF Database
  <2>6. TableTyped(result.tables[Fold[name]])
    BY <2>3, <2>4, <2>5 DEF TableTyped
  <2>7. QED BY <2>5, <2>6 DEF Typed
<1>3. QED BY <1>1, <1>2

LEMMA MessageTyped ==
    ASSUME topic \in Topics, NEW db, Database(db), Typed(db), NEW w \in Messages,
           NEW new \in BrokenOff(db, Message(w))
    PROVE  Typed(new)
<1> DEFINE msg == Message(w)
           made == CreateTableIfNotExists(db, msg.table, msg.data)
           handled == HandlerIncomingData(db, msg)
<1>1. msg.op = "INSERT" => Typed(made) /\ Database(made)
  <2> SUFFICES ASSUME msg.op = "INSERT" PROVE Typed(made) /\ Database(made)
    OBVIOUS
  <2>1. /\ topic[w].def \in Definitions /\ msg.table = topic[w].def.name
        /\ DOMAIN msg.data = Columns(topic[w].def)
    BY MessageIs
  <2>2. made = CreateTableIfNotExists(db, msg.table, msg.data)
    OBVIOUS
  <2> HIDE DEF made, msg
  <2>3. QED BY <2>1, <2>2, CreateTyped, CreateEffect
<1>2. Typed(handled.tables)
  <2>1. CASE msg.op = "INSERT"
    <3>1. handled = InsertRow(made, msg.table, msg.data)
      BY <2>1, HandlerKind
    <3>2. Typed(made) /\ Database(made)
      BY <1>1, <2>1
    <3> HIDE DEF handled, made, msg
    <3>3. QED BY <3>1, <3>2, InsertTyped
  <2>2. CASE msg.op = "DELETE"
    <3>1. handled = DeleteRow(db, msg.table, msg.before, msg.primary_key)
      BY <2>2, HandlerKind
    <3> HIDE DEF handled, msg
    <3>2. QED BY <3>1, DeleteTyped
  <2>3. CASE msg.op \notin {"INSERT", "DELETE"}
    <3>1. handled = Failure(db)
      BY <2>3, HandlerKind
    <3>2. QED BY <3>1 DEF Failure
  <2>4. QED BY <2>1, <2>2, <2>3
<1>3. \/ new = db \/ new = handled.tables
      \/ msg.op = "INSERT" /\ new = made
  BY DEF BrokenOff
<1> HIDE DEF msg, made, handled
<1>4. QED BY <1>1, <1>2, <1>3

(* Theorem: ReplicaTypeOK. *)
THEOREM TablesTyped == ReplicaSpec => []ReplicaTypeOK
<1>1. ReplicaInit => ReplicaTypeOK
  BY DEF ReplicaInit, ReplicaTypeOK
<1>2. Basis /\ ReplicaTypeOK /\ [ReplicaNext]_replicaVars => ReplicaTypeOK'
  <2> SUFFICES ASSUME Basis, ReplicaTypeOK, [ReplicaNext]_replicaVars PROVE ReplicaTypeOK'
    OBVIOUS
  <2>1. topic \in Topics /\ topic' = topic /\ Database(tables) /\ TypeOK
    BY TablesStep DEF Basis, ConsumerInv, IInv
  <2>2. Typed(tables)
    BY DEF ReplicaTypeOK, Typed, TableTyped
  <2>3. Typed(tables')
    <3>1. CASE tables' = tables
      BY <2>2, <3>1
    <3>2. CASE writing # 0 /\ tables' \in BrokenOff(tables, Message(writing))
      BY <2>1, <2>2, <3>2, MessageTyped, InNumbers
    <3>3. QED BY <3>1, <3>2, TablesStep
  <2>4. dropped' \in SUBSET Messages
    <3>1. InProcess \subseteq Messages
      BY <2>1, InProcessMessages
    <3>2. \/ dropped' = dropped
          \/ dropped' = dropped \cup {o \in InProcess : o < committed}
      BY DEF ReplicaNext, WriteMessage, replicaVars
    <3>3. QED BY <3>1, <3>2 DEF ReplicaTypeOK
  <2>5. Definitions' = Definitions
    BY <2>1 DEF Definitions
  <2>6. QED BY <2>1, <2>3, <2>4, <2>5 DEF ReplicaTypeOK, Typed, TableTyped
<1>3. QED BY <1>1, <1>2, BasisHolds, PTL DEF ReplicaSpec
====
