---- MODULE ChangeEvents ----
(***************************************************************************)
(* From a parsed row message to the Kafka message and on to the consumer's *)
(* queue: handleInsert, handleUpdate, handleDelete and handleTruncate of   *)
(* producer_azs/postgresql_replicator.cpp, and saveIntoQueue of            *)
(* consumer_bo/replication_consumer.h.  A JSON object is a function from   *)
(* its member names; a member that is not there and an empty object are    *)
(* the empty function, which the consumer cannot tell apart.               *)
(***************************************************************************)
EXTENDS PgOutput

Absent == <<>>

(* RelationMessage::getRelationNamespace returns the name of the table. *)
RelationName(relation) == relation.relation_name
RelationNamespace(relation) == relation.relation_name

(* The n-th value goes under the name of the n-th cached column. *)
Object(values, cols) ==
    [c \in {cols[k].name : k \in DOMAIN values} |->
        values[CHOOSE k \in DOMAIN values : cols[k].name = c]]

Member(data, col) == col.name \in DOMAIN data

(* The last resort of extractKey, and a mutated form of it: the flags are  *)
(* not looked at.                                                          *)
ExtractKeyFirst(data, cols) ==
    IF cols # <<>> /\ Member(data, cols[1]) THEN cols[1].name ELSE ""

(* extractKey: the first flagged column of the object, else the first      *)
(* column.  One column, however many the key has.                          *)
ExtractKey(data, cols) ==
    LET flagged == {k \in DOMAIN cols : cols[k].flag /\ Member(data, cols[k])} IN
        IF flagged # {}
        THEN cols[CHOOSE k \in flagged : \A j \in flagged : k <= j].name
        ELSE ExtractKeyFirst(data, cols)

Event(op, relation, data, before, after) ==
    [op |-> op,
     table |-> RelationName(relation),
     schema |-> RelationNamespace(relation),
     data |-> data, before |-> before, after |-> after,
     primary |->
         ExtractKey(IF op = "INSERT" THEN data ELSE IF op = "UPDATE" THEN after ELSE before,
                    relation.columns)]

HandleInsert(relation, tuple) ==
    Event("INSERT", relation, Object(tuple, relation.columns), Absent, Absent)

(* "before" is there only if the parser found an old tuple. *)
HandleUpdate(relation, tuples) ==
    Event("UPDATE", relation, Absent,
          IF tuples.old # <<>> THEN Object(tuples.old, relation.columns) ELSE Absent,
          Object(tuples.new, relation.columns))

HandleDelete(relation, tuple) ==
    Event("DELETE", relation, Absent, Object(tuple, relation.columns), Absent)

(* A truncate names tables in an array and has no member "table". *)
HandleTruncate ==
    [op |-> "TRUNCATE", table |-> "", schema |-> "",
     data |-> Absent, before |-> Absent, after |-> Absent, primary |-> ""]
----------------------------------------------------------------------------
(* A change of the source is [op, def, old, new]: rows that do not apply   *)
(* are <<>>.  The event the producer makes of it when the relation it has  *)
(* cached is relation.                                                     *)
EventOf(change, relation) ==
    CASE change.op = "INSERT" -> HandleInsert(relation, ParseInsert(InsertBody(change.new)))
      [] change.op = "UPDATE" ->
           HandleUpdate(relation, ParseUpdate(UpdateBody(change.def, change.old, change.new)))
      [] change.op = "DELETE" -> HandleDelete(relation, ParseDelete(DeleteBody(change.def, change.old)))
      [] OTHER -> HandleTruncate

(* saveIntoQueue: the fields of ConsumerMessage.  The schema is left out,  *)
(* and so is what the operation has no use for.                            *)
ConsumerMessage(event) ==
    [op |-> event.op,
     table |-> event.table,
     primary_key |-> event.primary,
     data |-> IF event.op = "INSERT" THEN event.data ELSE Absent,
     before |-> IF event.op \in {"UPDATE", "DELETE"} THEN event.before ELSE Absent,
     after |-> IF event.op = "UPDATE" THEN event.after ELSE Absent]
----------------------------------------------------------------------------
(* Reference definitions, for the properties *)

(* A row under the column names of its own definition. *)
RowObject(def, row) ==
    [c \in Columns(def) |->
        ColumnText(row[CHOOSE k \in DOMAIN row : def.cols[k].name = c])]
====
