---- MODULE Decoding ----
(***************************************************************************)
(* One producer's replication sessions as far as data goes: the position   *)
(* it asks for, the table descriptions it caches (relation_cache_ of       *)
(* PgOutputParser), and the event it makes of each row message.  Producer  *)
(* has the control around it: when a packet is handled, what is confirmed. *)
(*                                                                         *)
(* The server is outside the repository: it describes a table in a session *)
(* before the first row message of the table, and again after a change of  *)
(* the table's definition.                                                 *)
(***************************************************************************)
EXTENDS ChangeEvents, LsnConfig

CONSTANTS
    Tables,         \* relation oids
    Definitions,    \* the definitions a table can have
    Texts,          \* the values of a column
    ConfigFiles     \* the contents replicator.conf can have

ASSUME DefinitionsAssumption == \A def \in Definitions : TableDefinition(def)
ASSUME FilesAssumption == ConfigFiles \subseteq Seq(Lines)

VARIABLES
    session,        \* a replication session is open
    configured,     \* the text of RESTART_LSN the session was started with
    requested,      \* the position START_REPLICATION named
    defs,           \* the table's definition at the server
    described,      \* tables the server has described in this session
    relation_cache, \* the parser's map from oids to relation messages
    last            \* the change of the last step and the event made of it, or Nothing

vars == <<session, configured, requested, defs, described, relation_cache, last>>

Nothing == [change |-> [op |-> "NONE"]]
Rows(def, values) == [DOMAIN def.cols -> values]

(* The replica identity cannot be null, and a row the server writes out of *)
(* its WAL has all its values.                                             *)
StoredRows(def) ==
    {row \in Rows(def, Texts \cup {Null}) :
        \A k \in DOMAIN row : def.cols[k].key => row[k] # Null}

(* In the new row of an update an unchanged value may be missing. *)
SentRows(def) ==
    {row \in Rows(def, Texts \cup {Null, Toasted}) :
        \A k \in DOMAIN row : def.cols[k].key => row[k] \notin {Null, Toasted}}

TypeOK ==
    /\ session \in BOOLEAN
    /\ defs \in [Tables -> Definitions]
    /\ described \subseteq DOMAIN relation_cache
    /\ DOMAIN relation_cache \subseteq Tables
    /\ \A t \in DOMAIN relation_cache :
          relation_cache[t] \in {ParseRelation(def) : def \in Definitions}
    /\ last.change.op \in {"NONE", "INSERT", "UPDATE", "DELETE", "TRUNCATE"}

Init ==
    /\ session = FALSE
    /\ configured = EmptyText
    /\ requested = RequestedLsn(EmptyText)
    /\ defs \in [Tables -> Definitions]
    /\ described = {}
    /\ relation_cache = [t \in {} |-> {}]
    /\ last = Nothing
----------------------------------------------------------------------------
(* startReplicationAll reads the configuration.  A position it cannot      *)
(* parse throws, and there is no session.                                  *)
StartSession ==
    /\ ~session
    /\ \E file \in ConfigFiles :
          LET text == ConfigValue(file, "RESTART_LSN") IN
              /\ ~ParseThrows(text)
              /\ configured' = text
              /\ requested' = RequestedLsn(text)
    /\ session' = TRUE
    /\ UNCHANGED <<defs, described, relation_cache, last>>

(* The process ends, and its parser with it. *)
EndSession ==
    /\ session
    /\ session' = FALSE
    /\ described' = {}
    /\ relation_cache' = [t \in {} |-> {}]
    /\ last' = Nothing
    /\ UNCHANGED <<configured, requested, defs>>

(* A change of a table's definition, as the WAL has it. *)
Alter ==
    \E t \in Tables, def \in Definitions :
        /\ def # defs[t]
        /\ defs' = [defs EXCEPT ![t] = def]
        /\ described' = described \ {t}
        /\ last' = Nothing
        /\ UNCHANGED <<session, configured, requested, relation_cache>>

(* Mutated forms of CacheRelation: the message is parsed and forgotten;    *)
(* and a table that is in the map already keeps its entry.                 *)
CacheRelationNever(t, relation) == UNCHANGED relation_cache
CacheRelationOnce(t, relation) ==
    relation_cache' = [s \in DOMAIN relation_cache \cup {t} |->
        IF s \in DOMAIN relation_cache THEN relation_cache[s] ELSE relation]

(* cacheRelation. *)
CacheRelation(t, relation) ==
    relation_cache' = [s \in DOMAIN relation_cache \cup {t} |->
        IF s = t THEN relation ELSE relation_cache[s]]

(* An 'R' message. *)
Describe(t) ==
    /\ session
    /\ t \notin described
    /\ CacheRelation(t, ParseRelation(defs[t]))
    /\ described' = described \cup {t}
    /\ last' = Nothing
    /\ UNCHANGED <<session, configured, requested, defs>>
----------------------------------------------------------------------------
(* A row message of table t arrives and handleMessage makes an event of it,*)
(* unless its table is not in the map.                                     *)
Handle(t, change) ==
    /\ session
    /\ t \in described
    /\ last' = IF t \in DOMAIN relation_cache
               THEN [change |-> change, event |-> EventOf(change, relation_cache[t])]
               ELSE Nothing
    /\ UNCHANGED <<session, configured, requested, defs, described, relation_cache>>

Insert(t) ==
    \E new \in StoredRows(defs[t]) :
        Handle(t, [op |-> "INSERT", def |-> defs[t], old |-> <<>>, new |-> new])

(* The server refuses updates and deletes of a published table without a   *)
(* replica identity.                                                       *)
Update(t) ==
    /\ HasKey(defs[t]) \/ defs[t].full
    /\ \E old \in StoredRows(defs[t]), new \in SentRows(defs[t]) :
          Handle(t, [op |-> "UPDATE", def |-> defs[t], old |-> old, new |-> new])

Delete(t) ==
    /\ HasKey(defs[t]) \/ defs[t].full
    /\ \E old \in StoredRows(defs[t]) :
          Handle(t, [op |-> "DELETE", def |-> defs[t], old |-> old, new |-> <<>>])

Truncate(t) ==
    Handle(t, [op |-> "TRUNCATE", def |-> defs[t], old |-> <<>>, new |-> <<>>])

Next ==
    \/ StartSession \/ EndSession \/ Alter
    \/ \E t \in Tables : Describe(t) \/ Insert(t) \/ Update(t) \/ Delete(t) \/ Truncate(t)

Spec == Init /\ [][Next]_vars
----------------------------------------------------------------------------
(* Properties *)

(* An event is about the row it was made of: whatever was altered and      *)
(* described before, the object of an insert is the new row, that of a     *)
(* delete has the row's value of a key column under the name "primary"     *)
(* gives, and that of an update which leaves the key alone is the new row. *)
EventNamesRow ==
    LET change == last.change  event == last.event IN
        /\ change.op = "INSERT" => event.data = RowObject(change.def, change.new)
        /\ change.op = "DELETE" =>
              \E k \in DOMAIN change.def.cols :
                  /\ change.def.full \/ change.def.cols[k].key
                  /\ event.primary = change.def.cols[k].name
                  /\ event.before[event.primary] = ColumnText(change.old[k])
        /\ change.op = "UPDATE" /\ ~change.def.full
           /\ ~KeyChanged(change.def, change.old, change.new)
           => event.after = RowObject(change.def, change.new)

(* Reading and writing a position in the wrong base can only make the      *)
(* producer ask for an earlier one than configured, of which the server    *)
(* sends again what was not confirmed; it never asks to skip changes.      *)
RequestedNotPastConfigured == NotPast(requested, MeantLsn(configured))

(* The new row of an update arrives as the new row, as the readme has it   *)
(* (readme:172-183: what follows 'N' is the new tuple, 'K' or 'O' precede  *)
(* it).  It does not: UpdateMessage::parse takes the first tuple.          *)
AfterIsNew ==
    LET change == last.change  event == last.event IN
        change.op = "UPDATE" => event.after = RowObject(change.def, change.new)
====
