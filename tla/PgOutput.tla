---- MODULE PgOutput ----
(***************************************************************************)
(* The row messages of PostgreSQL's pgoutput plugin, as the server writes  *)
(* them (outside the repository; producer_azs/readme quotes the format)    *)
(* and as producer_azs/pgoutput_parser.cpp and replication_message.cpp     *)
(* read them.                                                              *)
(*                                                                         *)
(* A table's definition is [schema, name, full, cols]: full means REPLICA  *)
(* IDENTITY FULL, and cols is the sequence of [name, key].  A row is a     *)
(* sequence of values, one for each column: Null, Toasted (stored out of   *)
(* line and not sent because it did not change) or a text.  The body of a  *)
(* message is the sequence of its tuples, each after its tag.              *)
(***************************************************************************)
EXTENDS Naturals, Sequences

CONSTANTS Null, Toasted

(* A table has columns, no two of one name. *)
TableDefinition(def) ==
    /\ Len(def.cols) \in Nat \ {0} /\ DOMAIN def.cols = 1 .. Len(def.cols)
    /\ def.full \in BOOLEAN
    /\ \A k \in DOMAIN def.cols : def.cols[k].key \in BOOLEAN
    /\ \A j, k \in DOMAIN def.cols : def.cols[j].name = def.cols[k].name => j = k

Columns(def) == {def.cols[k].name : k \in DOMAIN def.cols}
HasKey(def) == \E k \in DOMAIN def.cols : def.cols[k].key
----------------------------------------------------------------------------
(* What the server writes *)

Tagged(tag, row) == [tag |-> tag, tuple |-> row]

(* The columns of a relation message: the flag marks the columns of the    *)
(* replica identity, which are all of them under REPLICA IDENTITY FULL.    *)
SentColumns(def) ==
    [k \in DOMAIN def.cols |->
        [name |-> def.cols[k].name, flag |-> def.full \/ def.cols[k].key]]

(* The old row, or its key with nulls in the place of the other columns. *)
OldPart(def, old) ==
    IF def.full
    THEN Tagged("O", old)
    ELSE Tagged("K", [k \in DOMAIN old |-> IF def.cols[k].key THEN old[k] ELSE Null])

KeyChanged(def, old, new) ==
    \E k \in DOMAIN old : def.cols[k].key /\ old[k] # new[k]

InsertBody(new) == << Tagged("N", new) >>
DeleteBody(def, old) == << OldPart(def, old) >>
UpdateBody(def, old, new) ==
    IF def.full \/ KeyChanged(def, old, new)
    THEN << OldPart(def, old), Tagged("N", new) >>
    ELSE << Tagged("N", new) >>
----------------------------------------------------------------------------
(* What the parser reads *)

(* RelationMessage::parse. *)
ParseRelation(def) ==
    [namespace |-> def.schema, relation_name |-> def.name, columns |-> SentColumns(def)]

(* A null and an unchanged value become texts like any other. *)
ColumnText(v) ==
    CASE v = Null -> "NULL"
      [] v = Toasted -> "TOAST"
      [] OTHER -> v

(* parseTuple; its two overloads do the same. *)
ParseTuple(row) == [k \in DOMAIN row |-> ColumnText(row[k])]

(* InsertMessage::parse and DeleteMessage::parse read the tag and do not   *)
(* look at it.                                                             *)
ParseInsert(body) == ParseTuple(body[1].tuple)
ParseDelete(body) == ParseTuple(body[1].tuple)

(* UpdateMessage::parse reads the first tag, then takes the byte after it, *)
(* the high byte of the first tuple's column count, for the tag of an old  *)
(* tuple.  It never is 'O': that would take 79 * 256 columns.  So the      *)
(* first tuple is the new one, whatever its tag, and a second is not read. *)
ParseUpdate(body) == [old |-> <<>>, new |-> ParseTuple(body[1].tuple)]
====
