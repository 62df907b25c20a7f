---- MODULE DatabaseWriter ----
(***************************************************************************)
(* What consumer_bo/database_writer.cpp does to the target database with a *)
(* message: the statements it builds and what PostgreSQL makes of them.    *)
(* The target is a map from table names to [cols, rows]: rows is a bag,    *)
(* for the tables are created without a key.  Every column is TEXT, since  *)
(* the producer sends every value as a string.                             *)
(*                                                                         *)
(* Each statement is a transaction of its own.  Its result is [ok, tables].*)
(***************************************************************************)
EXTENDS ChangeEvents, Bags

CONSTANTS
    Fold,       \* the name of a table as PostgreSQL reads it without quotes
    BadNames,   \* names that need quotes: no statement with them parses
    Quoted,     \* texts with an apostrophe, which a bare literal ends
    Unparsed,   \* those with which a delete does not parse
    Misread(_, _, _)    \* whether the condition such a text makes of a row's
                        \* column holds of the row (no text is supposed to end
                        \* the statement and to begin another)

ASSUME QuotedAssumption == Unparsed \subseteq Quoted

Failure(tables) == [ok |-> FALSE, tables |-> tables]
Success(tables) == [ok |-> TRUE, tables |-> tables]
Exists(tables, name) == name \notin BadNames /\ Fold[name] \in DOMAIN tables

(* CREATE TABLE: the columns are those of a row. *)
WithTable(tables, stored, data) ==
    [n \in DOMAIN tables \cup {stored} |->
        IF n = stored THEN [cols |-> DOMAIN data, rows |-> EmptyBag] ELSE tables[n]]

(* Mutated form of CreateTableIfNotExists: the name is put in quotes. *)
CreateTableQuoted(tables, name, data) ==
    IF name \in BadNames \/ Exists(tables, name) THEN tables
    ELSE WithTable(tables, name, data)

(* createTableIfNotExists: the columns are those of the first row, for     *)
(* good.  tableExists looks for the name as it is spelled, but CREATE      *)
(* TABLE IF NOT EXISTS then finds the table anyway.                        *)
CreateTableIfNotExists(tables, name, data) ==
    IF name \in BadNames \/ Exists(tables, name) THEN tables
    ELSE WithTable(tables, Fold[name], data)

(* Columns the statement does not name are null. *)
Padded(cols, data) == [c \in cols |-> IF c \in DOMAIN data THEN data[c] ELSE Null]

(* Mutated form of InsertRow: a column the table does not have is left out. *)
InsertRowCut(tables, name, data) ==
    IF Exists(tables, name) /\ data # Absent
    THEN Success([tables EXCEPT ![Fold[name]].rows =
                     @ (+) SetToBag({Padded(tables[Fold[name]].cols, data)})])
    ELSE Failure(tables)

(* insertRow. *)
InsertRow(tables, name, data) ==
    IF /\ Exists(tables, name)
       /\ data # Absent
       /\ DOMAIN data \subseteq tables[Fold[name]].cols
    THEN Success([tables EXCEPT ![Fold[name]].rows =
                     @ (+) SetToBag({Padded(tables[Fold[name]].cols, data)})])
    ELSE Failure(tables)

(* updateRow: its SET clause has no equals sign between a column and its   *)
(* value, which does not parse.                                            *)
UpdateRow(tables) == Failure(tables)

(* Mutated form of DeleteRow: the WHERE clause is left out. *)
DeleteEveryRow(tables, name, before, primary_key) ==
    IF Exists(tables, name)
    THEN Success([tables EXCEPT ![Fold[name]].rows = EmptyBag])
    ELSE Failure(tables)

(* The rows the WHERE clause of a delete selects.  The value is not        *)
(* escaped: with an apostrophe in it the clause may be any condition.      *)
Selects(row, before, primary_key) ==
    IF before[primary_key] \in Quoted
    THEN Misread(row, primary_key, before[primary_key])
    ELSE row[primary_key] = before[primary_key]

(* deleteRow. *)
DeleteRow(tables, name, before, primary_key) ==
    IF /\ Exists(tables, name)
       /\ primary_key \in tables[Fold[name]].cols
       /\ before[primary_key] \notin Unparsed
    THEN Success([tables EXCEPT ![Fold[name]].rows =
                     [row \in {r \in DOMAIN @ : ~Selects(r, before, primary_key)} |-> @[row]]])
    ELSE Failure(tables)

(* Mutated form of HandlerIncomingData: an insert goes only into a table   *)
(* that was just created.                                                  *)
HandlerInsertingOnce(tables, msg) ==
    CASE msg.op = "INSERT" /\ Exists(tables, msg.table) -> Failure(tables)
      [] msg.op = "INSERT" ->
            InsertRow(CreateTableIfNotExists(tables, msg.table, msg.data), msg.table, msg.data)
      [] msg.op = "DELETE" -> DeleteRow(tables, msg.table, msg.before, msg.primary_key)
      [] OTHER -> Failure(tables)

(* handlerIncomingData.  The result of the creation is overwritten; a      *)
(* truncate changes nothing and is reported as a failure.                  *)
HandlerIncomingData(tables, msg) ==
    CASE msg.op = "INSERT" ->
            InsertRow(CreateTableIfNotExists(tables, msg.table, msg.data), msg.table, msg.data)
      [] msg.op = "UPDATE" -> UpdateRow(tables)
      [] msg.op = "DELETE" -> DeleteRow(tables, msg.table, msg.before, msg.primary_key)
      [] OTHER -> Failure(tables)

(* What the database can be left with when the connection breaks off       *)
(* before the last statement has reported.                                 *)
BrokenOff(tables, msg) ==
    {tables, HandlerIncomingData(tables, msg).tables}
    \cup IF msg.op = "INSERT"
         THEN {CreateTableIfNotExists(tables, msg.table, msg.data)} ELSE {}
====
