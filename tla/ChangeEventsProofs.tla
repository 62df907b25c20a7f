---- MODULE ChangeEventsProofs ----
(***************************************************************************)
(* Lemmas about what the parser and the handlers compute from one row      *)
(* message, for every table definition and row.                            *)
(***************************************************************************)
EXTENDS ChangeEvents, WellFoundedInduction, TLAPS

(* A set of positions has a first one. *)
LEMMA FirstExists ==
    ASSUME NEW S, S \subseteq Nat, S # {}
    PROVE  \E k \in S : \A j \in S : k <= j
<1> DEFINE Less == {ss \in Nat \X Nat : ss[1] < ss[2]}
<1>1. IsWellFoundedOn(Less, Nat)
  BY NatLessThanWellFounded DEF OpToRel
<1> HIDE DEF Less
<1>2. PICK k \in S : \A j \in S : <<j, k>> \notin Less
  BY <1>1, WFMin
<1>3. \A j \in S : ~(j < k)
  BY <1>2 DEF Less
<1>4. QED BY <1>3

(* Read with the columns it was written with, a row is its row object. *)
LEMMA ObjectOfRow ==
    ASSUME NEW def, NEW row, DOMAIN row = DOMAIN def.cols
    PROVE  Object(ParseTuple(row), ParseRelation(def).columns) = RowObject(def, row)
<1> DEFINE cols == ParseRelation(def).columns
           tuple == ParseTuple(row)
<1>1. /\ DOMAIN cols = DOMAIN def.cols
      /\ \A k \in DOMAIN cols : cols[k].name = def.cols[k].name
  BY DEF ParseRelation, SentColumns
<1>2. DOMAIN tuple = DOMAIN row /\ \A k \in DOMAIN row : tuple[k] = ColumnText(row[k])
  BY DEF ParseTuple
<1> HIDE DEF cols, tuple
<1>3. {cols[k].name : k \in DOMAIN tuple} = Columns(def)
  BY <1>1, <1>2 DEF Columns
<1>4. ASSUME NEW c \in Columns(def)
      PROVE  tuple[CHOOSE k \in DOMAIN tuple : cols[k].name = c]
               = ColumnText(row[CHOOSE k \in DOMAIN row : def.cols[k].name = c])
  <2>1. \E k \in DOMAIN row : def.cols[k].name = c
    BY DEF Columns
  <2>2. (CHOOSE k \in DOMAIN row : def.cols[k].name = c) \in DOMAIN row
    BY <2>1
  <2>3. (CHOOSE k \in DOMAIN tuple : cols[k].name = c)
          = (CHOOSE k \in DOMAIN row : def.cols[k].name = c)
    BY <1>1, <1>2
  <2>4. QED BY <1>2, <2>2, <2>3
<1>5. QED BY <1>3, <1>4 DEF Object, RowObject, cols, tuple

(* The event of a delete names the value of one key column. *)
LEMMA DeleteNamesKey ==
    ASSUME NEW def, TableDefinition(def), NEW row, DOMAIN row = DOMAIN def.cols,
           HasKey(def) \/ def.full,
           NEW event, event = HandleDelete(ParseRelation(def), ParseDelete(DeleteBody(def, row)))
    PROVE  \E k \in DOMAIN def.cols :
              /\ def.full \/ def.cols[k].key
              /\ event.primary = def.cols[k].name
              /\ event.before[event.primary] = ColumnText(row[k])
<1> DEFINE old == OldPart(def, row).tuple
           cols == ParseRelation(def).columns
           data == Object(ParseTuple(old), cols)
           flagged == {k \in DOMAIN cols : cols[k].flag /\ Member(data, cols[k])}
<1>1. /\ DOMAIN old = DOMAIN def.cols
      /\ \A k \in DOMAIN def.cols : def.full \/ def.cols[k].key => old[k] = row[k]
  BY DEF OldPart, Tagged
<1>2. /\ DOMAIN cols = DOMAIN def.cols
      /\ \A k \in DOMAIN cols : /\ cols[k].name = def.cols[k].name
                                /\ cols[k].flag = (def.full \/ def.cols[k].key)
  BY DEF ParseRelation, SentColumns
<1>3. event.before = data /\ event.primary = ExtractKey(data, cols)
  <2>1. ParseDelete(DeleteBody(def, row)) = ParseTuple(old)
    BY DEF ParseDelete, DeleteBody
  <2>2. QED BY <2>1 DEF HandleDelete, Event
<1> HIDE DEF old, cols
<1>4. /\ DOMAIN data = Columns(def)
      /\ \A c \in Columns(def) :
            data[c] = ColumnText(old[CHOOSE k \in DOMAIN old : def.cols[k].name = c])
  <2>1. data = RowObject(def, old)
    BY <1>1, ObjectOfRow DEF cols
  <2>2. QED BY <2>1 DEF RowObject
<1> HIDE DEF data
<1>5. PICK k \in flagged : \A j \in flagged : k <= j
  <2>1. \A k \in DOMAIN def.cols : Member(data, cols[k])
    BY <1>2, <1>4 DEF Member, Columns
  <2>2. \E k \in DOMAIN def.cols : def.full \/ def.cols[k].key
    <3>1. 1 \in DOMAIN def.cols
      BY DEF TableDefinition
    <3>2. QED BY <3>1 DEF HasKey
  <2>3. flagged # {} /\ flagged \subseteq Nat
    BY <1>2, <2>1, <2>2 DEF TableDefinition
  <2>4. QED BY <2>3, FirstExists
<1>6. k \in DOMAIN def.cols /\ (def.full \/ def.cols[k].key)
  BY <1>2
<1>7. ExtractKey(data, cols) = def.cols[k].name
  <2>1. flagged \subseteq Nat
    BY <1>2 DEF TableDefinition
  <2>2. (CHOOSE m \in flagged : \A j \in flagged : m <= j) = k
    BY <1>5, <2>1
  <2>3. ExtractKey(data, cols) = cols[k].name
    BY <1>5, <2>2 DEF ExtractKey
  <2>4. QED BY <1>2, <1>6, <2>3
<1>8. data[def.cols[k].name] = ColumnText(old[k])
  <2>1. def.cols[k].name \in Columns(def)
    BY <1>6 DEF Columns
  <2>2. (CHOOSE j \in DOMAIN old : def.cols[j].name = def.cols[k].name) = k
    BY <1>1, <1>6 DEF TableDefinition
  <2>3. data[def.cols[k].name]
          = ColumnText(old[CHOOSE j \in DOMAIN old : def.cols[j].name = def.cols[k].name])
    BY <1>4, <2>1
  <2>4. QED BY <2>2, <2>3
<1>9. QED BY <1>1, <1>3, <1>6, <1>7, <1>8

(* handleMessage calls the handler of the operation. *)
LEMMA EventOfKind ==
    ASSUME NEW change, NEW relation
    PROVE  /\ change.op = "INSERT" =>
                 EventOf(change, relation) = HandleInsert(relation, ParseInsert(InsertBody(change.new)))
           /\ change.op = "UPDATE" =>
                 EventOf(change, relation) =
                     HandleUpdate(relation, ParseUpdate(UpdateBody(change.def, change.old, change.new)))
           /\ change.op = "DELETE" =>
                 EventOf(change, relation) =
                     HandleDelete(relation, ParseDelete(DeleteBody(change.def, change.old)))
           /\ change.op \notin {"INSERT", "UPDATE", "DELETE"} =>
                 EventOf(change, relation) = HandleTruncate
BY Zenon DEF EventOf
====
