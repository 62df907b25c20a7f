---- MODULE ReplayProofs ----
(***************************************************************************)
(* Proofs about Replica when processes die and are expelled: what is read  *)
(* again from the committed offset.  The argument for the rows: all that   *)
(* comes after the message at the database is still on its way (Pending),  *)
(* so that a row which should not be there has its delete before it, and a *)
(* row that is missing will come again.  The argument for the copies: a    *)
(* death or an eviction puts a message at most once more before the        *)
(* database (Ahead), so each copy that was made used up one of them.       *)
(***************************************************************************)
EXTENDS ReplicaProofs

(* Messages the process, or the next one, has still to handle. *)
Pending(o) == IF state = "up" THEN o \in InProcess \/ position <= o ELSE committed <= o

Row(def, i) == RowObject(def, topic[i].new)
----------------------------------------------------------------------------
(* What comes after the message at the database *)

(* A sequence without gaps takes every value between its ends. *)
LEMMA NoGap ==
    ASSUME Malformed = {}, NEW s \in Seq(Int), NEW e, InOrder(s, e),
           Len(s) >= 1, NEW o \in Int, s[1] < o, o <= s[Len(s)]
    PROVE  \E k \in 1 .. Len(s) : s[k] = o
<1> DEFINE reached == {k \in 1 .. Len(s) : o <= s[k]}
<1>1. Len(s) \in Nat /\ \A k \in 1 .. Len(s) : s[k] \in Int
  OBVIOUS
<1>2. PICK k \in reached : \A j \in reached : k <= j
  <2>1. reached \subseteq Nat /\ reached # {}
    BY <1>1
  <2> HIDE DEF reached
  <2>2. QED BY <2>1, FirstExists
<1>3. k \in 1 .. Len(s) /\ o <= s[k] /\ k # 1
  BY <1>2
<1>4. k - 1 \in 1 .. Len(s) - 1 /\ k - 1 \in 1 .. Len(s) /\ k - 1 + 1 = k
  BY <1>1, <1>3
<1>5. s[k - 1] < o
  <2>1. k - 1 \notin reached
    BY <1>1, <1>2, <1>4
  <2>2. QED BY <1>1, <1>4, <2>1
<1>6. \A m \in s[k - 1] + 1 .. s[k] - 1 : m \in {}
  BY <1>4 DEF InOrder, Follows
<1>7. s[k] = o
  BY <1>1, <1>3, <1>4, <1>5, <1>6
<1>8. QED BY <1>3, <1>7

LEMMA Joined ==
    ASSUME NEW a \in Seq(Int), NEW b \in Seq(Int), NEW s, s = a \o b, NEW P,
           \A k \in 1 .. Len(a) : a[k] \in P,
           \A k \in 1 .. Len(b) : b[k] \in P
    PROVE  /\ s \in Seq(Int) /\ Len(s) = Len(a) + Len(b)
           /\ Len(a) \in Nat /\ Len(b) \in Nat
           /\ \A k \in 1 .. Len(s) : s[k] \in P
           /\ Len(a) >= 1 => s[1] = a[1]
           /\ Len(b) >= 1 => s[Len(s)] = b[Len(b)]
<1> DEFINE t == a \o b
<1>1. /\ t \in Seq(Int) /\ Len(t) = Len(a) + Len(b) /\ Len(a) \in Nat /\ Len(b) \in Nat
      /\ \A k \in 1 .. Len(a) : t[k] = a[k]
      /\ \A k \in 1 .. Len(t) : k > Len(a) => t[k] = b[k - Len(a)]
  OBVIOUS
<1>2. s = t
  OBVIOUS
<1> HIDE DEF t
<1>3. ASSUME NEW k \in 1 .. Len(t) PROVE t[k] \in P
  <2>1. CASE k \in 1 .. Len(a)
    BY <1>1, <2>1
  <2>2. CASE k > Len(a)
    <3>1. k - Len(a) \in 1 .. Len(b)
      BY <1>1, <2>2
    <3>2. QED BY <1>1, <2>2, <3>1
  <2>3. QED BY <1>1, <2>1, <2>2
<1>4. /\ Len(a) >= 1 => t[1] = a[1]
      /\ Len(b) >= 1 => t[Len(t)] = b[Len(b)]
  <2> DEFINE la == Len(a)
             lb == Len(b)
             lt == Len(t)
  <2>1. /\ la \in Nat /\ lb \in Nat /\ lt = la + lb
        /\ \A k \in 1 .. la : t[k] = a[k]
        /\ \A k \in 1 .. lt : k > la => t[k] = b[k - la]
    BY <1>1
  <2> HIDE DEF la, lb, lt
  <2>2. lb >= 1 => lt \in 1 .. lt /\ lt > la /\ lt - la = lb
    BY <2>1
  <2>3. lb >= 1 => t[lt] = b[lb]
    BY <2>1, <2>2
  <2>4. la >= 1 => t[1] = a[1]
    BY <2>1
  <2>5. QED BY <2>3, <2>4 DEF la, lb, lt
<1>5. QED BY <1>1, <1>2, <1>3, <1>4

LEMMA PipelineEnds ==
    ASSUME TypeOK
    PROVE  /\ Pipeline \in Seq(Int) /\ Len(Pipeline) >= 1
           /\ writing # 0 => Pipeline[1] = writing
           /\ Pipeline[Len(Pipeline)] = position
           /\ \A k \in 1 .. Len(Pipeline) : Pipeline[k] \in InProcess \cup {position}
<1> DEFINE w == Held(writing)
           h == Held(inHand)
           x == w \o buf
           y == x \o h
           P == InProcess \cup {position}
<1>1. /\ w \in Seq(Int) /\ buf \in Seq(Int) /\ h \in Seq(Int) /\ position \in Int
  BY FrontTyped, TopicAssumption DEF TypeOK, FifoTypeOK, Slot
<1>2. \A k \in 1 .. Len(buf) : buf[k] \in P
  <2>1. \A k \in 1 .. Len(buf) : buf[k] # 0 /\ k \in DOMAIN buf
    BY TopicAssumption DEF TypeOK, FifoTypeOK
  <2>2. QED BY <2>1 DEF InProcess
<1>3. /\ \A k \in 1 .. Len(w) : w[k] \in P
      /\ \A k \in 1 .. Len(h) : h[k] \in P
      /\ writing # 0 => Len(w) = 1 /\ w[1] = writing
  BY DEF InProcess, Held
<1>4. Pipeline = y \o <<position>>
  BY DEF Pipeline
<1>5. x = w \o buf /\ y = x \o h /\ position \in P
  OBVIOUS
<1> HIDE DEF w, h, x, y, P
<1>6. /\ x \in Seq(Int) /\ Len(x) = Len(w) + Len(buf) /\ Len(w) \in Nat /\ Len(buf) \in Nat
      /\ \A k \in 1 .. Len(x) : x[k] \in P
      /\ Len(w) >= 1 => x[1] = w[1]
  BY <1>1, <1>2, <1>3, <1>5, Joined
<1>7. /\ y \in Seq(Int) /\ Len(y) = Len(x) + Len(h) /\ Len(x) \in Nat /\ Len(h) \in Nat
      /\ \A k \in 1 .. Len(y) : y[k] \in P
      /\ Len(x) >= 1 => y[1] = x[1]
  BY <1>1, <1>3, <1>5, <1>6, Joined
<1>8. writing # 0 => Len(y) >= 1 /\ y[1] = writing
  <2> SUFFICES ASSUME writing # 0 PROVE Len(y) >= 1 /\ y[1] = writing
    OBVIOUS
  <2>1. Len(w) = 1 /\ w[1] = writing /\ Len(w) >= 1
    BY <1>3
  <2>2. Len(x) >= 1 /\ Len(h) \in Nat
    BY <1>6, <1>7, <2>1
  <2>3. Len(y) >= 1
    BY <1>7, <2>2
  <2>4. QED BY <1>6, <1>7, <2>1, <2>2, <2>3, Zenon
<1>9. /\ <<position>> \in Seq(Int) /\ Len(<<position>>) = 1
      /\ <<position>>[Len(<<position>>)] = position
      /\ \A k \in 1 .. Len(<<position>>) : <<position>>[k] \in P
  BY <1>1, <1>5
<1>10. /\ Pipeline \in Seq(Int) /\ Len(Pipeline) = Len(y) + Len(<<position>>) /\ Len(y) \in Nat
       /\ \A k \in 1 .. Len(Pipeline) : Pipeline[k] \in P
       /\ Len(y) >= 1 => Pipeline[1] = y[1]
       /\ Len(<<position>>) >= 1 => Pipeline[Len(Pipeline)] = <<position>>[Len(<<position>>)]
  BY <1>4, <1>7, <1>9, Joined
<1>11. Len(Pipeline) >= 1 /\ Pipeline[Len(Pipeline)] = position
  BY <1>9, <1>10
<1>12. QED BY <1>8, <1>9, <1>10, <1>11 DEF P

(* All messages after the one at the database are still to come. *)
LEMMA LaterPending ==
    ASSUME Basis, writing # 0, NEW o \in Messages, writing < o
    PROVE  Pending(o)
<1>t. TypeOK /\ Malformed = {}
  BY ReplicaAssumption DEF Basis, ConsumerInv, IInv
<1>1. state = "up" /\ InOrder(Pipeline, evictions)
  <2>1. state = "up"
    BY DEF Basis, ConsumerInv, EmptyWhenDown
  <2>2. QED BY <2>1 DEF Basis, ConsumerInv, PipelineInOrder, InOrder, Follows
<1>2. CASE position <= o
  BY <1>1, <1>2 DEF Pending
<1>3. CASE ~(position <= o)
  <2>1. /\ Pipeline \in Seq(Int) /\ Len(Pipeline) >= 1
        /\ Pipeline[1] = writing /\ Pipeline[Len(Pipeline)] = position
    BY <1>t, PipelineEnds
  <2>2. o \in Int /\ o <= position /\ o # position
    BY <1>3, <1>t, InNumbers
  <2> DEFINE s == Pipeline
  <2>3. s \in Seq(Int) /\ Len(s) >= 1 /\ s[1] < o /\ o <= s[Len(s)] /\ InOrder(s, evictions)
    BY <1>1, <2>1, <2>2
  <2> HIDE DEF s
  <2>4. PICK k \in 1 .. Len(s) : s[k] = o
    BY <1>t, <2>2, <2>3, NoGap
  <2>5. o \in InProcess
    BY <1>t, <2>2, <2>4, PipelineEnds DEF s
  <2>6. QED BY <1>1, <2>5 DEF Pending
<1>4. QED BY <1>2, <1>3
----------------------------------------------------------------------------
(* What a step does to what is on its way and to the rows of a plain table *)

(* Nothing of the table went wrong so far. *)
Clean(def) == \A o \in failed \cup dropped : ~SameTable(def, o)

LEMMA TopicStays ==
    ASSUME [ReplicaNext]_replicaVars
    PROVE  /\ topic' = topic /\ Definitions' = Definitions
           /\ \A def : /\ Plain(def)' = Plain(def)
                       /\ \A o : SameTable(def, o)' = SameTable(def, o)
                       /\ \A i : Row(def, i)' = Row(def, i)
           /\ \A op, def, o : Is(op, def, o)' = Is(op, def, o)
           /\ \A def : Clean(def)' => Clean(def)
<1>1. topic' = topic
  BY TablesStep
<1>2. Definitions' = Definitions
  BY <1>1 DEF Definitions
<1>3. \A def : /\ Plain(def)' = Plain(def)
               /\ \A o : SameTable(def, o)' = SameTable(def, o)
               /\ \A i : Row(def, i)' = Row(def, i)
  BY <1>1 DEF Plain, Is, SameTable, Row
<1>4. \A op, def, o : Is(op, def, o)' = Is(op, def, o)
  BY <1>1 DEF Is
<1>5. failed \subseteq failed' /\ dropped \subseteq dropped'
  BY DEF ReplicaNext, replicaVars, vars, Start, StartFails, OperatorStart, Consume, Push, Pop,
         AutoCommit, Evict, Die, LoseConnection, WriteMessage
<1>6. \A def : Clean(def)' => Clean(def)
  BY <1>3, <1>5 DEF Clean
<1>7. QED BY <1>1, <1>2, <1>3, <1>4, <1>6

(* A message stays on its way until the database has it, unless it is      *)
(* dropped.                                                                *)
LEMMA PendingStep ==
    ASSUME Basis, Basis', [ReplicaNext]_replicaVars,
           NEW o \in Messages, Pending(o), o \notin dropped'
    PROVE  Pending(o)' \/ (WriteMessage /\ o = writing)
<1>t. TypeOK /\ TypeOK' /\ o \in Nat /\ position \in Nat /\ committed \in Nat
  BY InNumbers DEF Basis, ConsumerInv, IInv
<1>0. InProcess' = (Contents(buf') \cup {inHand', writing'}) \ {0}
  BY DEF InProcess, Contents
<1>f. state = "up" => committed <= position
  BY DEF Basis, ConsumerInv, IInv, ConsumedAccounted
<1>1. CASE Start
  <2>1. state = "down" /\ state' = "up" /\ position' = committed
    BY <1>1 DEF Start
  <2>2. QED BY <2>1 DEF Pending
<1>2. CASE StartFails \/ OperatorStart
  <2>1. state # "up" /\ state' # "up" /\ committed' = committed
    BY <1>2 DEF StartFails, OperatorStart
  <2>2. QED BY <2>1 DEF Pending
<1>3. CASE Die
  <2>1. /\ state = "up" /\ state' # "up" /\ committed' = committed
        /\ dropped' = dropped \cup {m \in InProcess : m < committed}
    <3>1. dropped' = dropped \cup {m \in InProcess : m < committed}
      BY <1>3, <1>t DEF ReplicaNext, replicaVars, vars, Die, Start, StartFails, OperatorStart,
         Consume, Push, Pop, AutoCommit, Evict, LoseConnection, WriteMessage, TypeOK
    <3>2. QED BY <1>3, <3>1 DEF Die
  <2>2. CASE o \in InProcess
    <3>1. ~(o < committed)
      BY <2>1, <2>2
    <3>2. QED BY <1>t, <2>1, <3>1 DEF Pending
  <2>3. CASE position <= o
    BY <1>f, <1>t, <2>1, <2>3 DEF Pending
  <2>4. QED BY <2>1, <2>2, <2>3 DEF Pending
<1>4. CASE Consume
  <2>1. /\ UNCHANGED <<buf, state, writing>> /\ inHand = 0 /\ inHand' = position
        /\ state = "up" /\ position' = position + 1
    BY <1>4, ReplicaAssumption DEF Consume
  <2>2. InProcess \subseteq InProcess' /\ (o = position => o \in InProcess')
    BY <1>0, <1>t, <2>1, InProcessIs, TopicAssumption
  <2>3. position <= o => o = position \/ position + 1 <= o
    BY <1>t
  <2>4. QED BY <2>1, <2>2, <2>3 DEF Pending
<1>5. CASE Push
  <2>1. /\ UNCHANGED <<state, position, committed, writing>>
        /\ inHand \in Messages /\ buf' = Append(buf, inHand) /\ inHand' = 0
    BY <1>5, <1>t, TopicAssumption DEF Push, Put, TypeOK, Slot
  <2>2. Contents(buf') = Contents(buf) \cup {inHand}
    BY <1>t, <2>1, AppendRange DEF TypeOK, FifoTypeOK
  <2>3. InProcess \subseteq InProcess'
    BY <1>0, <2>1, <2>2, InProcessIs
  <2>4. QED BY <2>1, <2>3 DEF Pending
<1>6. CASE Pop
  <2>1. /\ UNCHANGED <<state, position, committed, inHand>> /\ writing = 0
        /\ buf # <<>> /\ buf' = Tail(buf) /\ writing' = Head(buf)
    BY <1>6 DEF Pop, Take
  <2>2. Contents(buf) = {writing'} \cup Contents(buf')
    BY <1>t, <2>1, TailRange DEF TypeOK, FifoTypeOK
  <2>3. InProcess \subseteq InProcess'
    BY <1>0, <2>1, <2>2, InProcessIs
  <2>4. QED BY <2>1, <2>3 DEF Pending
<1>7. CASE WriteMessage
  <2>1. UNCHANGED <<buf, state, position, committed, inHand>> /\ writing' = 0
    BY <1>7 DEF WriteMessage
  <2>2. InProcess \subseteq InProcess' \cup {writing}
    BY <1>0, <2>1, InProcessIs
  <2>3. QED BY <1>7, <2>1, <2>2 DEF Pending
<1>8. CASE AutoCommit
  <2>1. UNCHANGED <<buf, state, position, inHand, writing>> /\ state = "up"
    BY <1>8 DEF AutoCommit
  <2>2. InProcess' = InProcess
    BY <2>1 DEF InProcess
  <2>3. QED BY <2>1, <2>2 DEF Pending
<1>9. CASE Evict
  <2>1. UNCHANGED <<buf, state, inHand, writing>> /\ state = "up" /\ position' = committed
    BY <1>9 DEF Evict
  <2>2. InProcess' = InProcess
    BY <2>1 DEF InProcess
  <2>3. QED BY <1>f, <1>t, <2>1, <2>2 DEF Pending
<1>10. CASE LoseConnection \/ UNCHANGED replicaVars
  <2>1. UNCHANGED <<buf, state, position, committed, inHand, writing>>
    BY <1>10 DEF LoseConnection, replicaVars, vars
  <2>2. InProcess' = InProcess
    BY <2>1 DEF InProcess
  <2>3. QED BY <2>1, <2>2 DEF Pending
<1>11. QED
  BY <1>1, <1>2, <1>3, <1>4, <1>5, <1>6, <1>7, <1>8, <1>9, <1>10 DEF ReplicaNext

KeyName(def) == def.cols[KeyOf(def)].name

(* What an insert and a delete of the message w make of the table's rows.  *)
Inserts(db, new, def, w) ==
    /\ Is("INSERT", def, w)
    /\ \A r : r \in RowsIn(new, def) <=> r \in RowsIn(db, def) \/ r = Row(def, w)
Deletes(db, new, def, w) ==
    /\ Is("DELETE", def, w)
    /\ \A r : r \in RowsIn(new, def) <=>
                 r \in RowsIn(db, def) /\ r[KeyName(def)] # topic[w].old[KeyOf(def)]

(* A statement of a plain table is carried out or it is not. *)
LEMMA RowsHandled ==
    ASSUME topic \in Topics, NEW db, Database(db), NEW def \in Definitions, Plain(def),
           Fold[def.name] \in DOMAIN db => db[Fold[def.name]].cols = Columns(def),
           NEW w \in Messages, NEW new, new = HandlerIncomingData(db, Message(w)).tables
    PROVE  \/ RowsIn(new, def) = RowsIn(db, def) /\ ~SameTable(def, w)
           \/ Inserts(db, new, def, w)
           \/ Deletes(db, new, def, w)
<1> DEFINE result == HandlerIncomingData(db, Message(w))
<1>1. result = HandlerIncomingData(db, Message(w)) /\ new = result.tables
  OBVIOUS
<1> HIDE DEF result
<1>2. ASSUME NEW r
      PROVE  /\ ~SameTable(def, w) => (r \in RowsIn(new, def) <=> r \in RowsIn(db, def))
             /\ topic[w].op = "INSERT" /\ SameTable(def, w) =>
                   (r \in RowsIn(new, def) <=> r \in RowsIn(db, def) \/ r = Row(def, w))
             /\ topic[w].op = "DELETE" /\ SameTable(def, w) =>
                   (r \in RowsIn(new, def) <=>
                       r \in RowsIn(db, def) /\ r[KeyName(def)] # topic[w].old[KeyOf(def)])
  BY <1>1, TargetStep DEF Row, KeyName
<1>3. CASE ~SameTable(def, w)
  BY <1>2, <1>3
<1>4. CASE SameTable(def, w)
  <2>1. Is("INSERT", def, w) \/ Is("DELETE", def, w)
    BY <1>4, PlainMessage DEF Is
  <2>2. CASE Is("INSERT", def, w)
    BY <1>2, <1>4, <2>2 DEF Inserts, Is
  <2>3. CASE Is("DELETE", def, w)
    BY <1>2, <1>4, <2>3 DEF Deletes, Is
  <2>4. QED BY <2>1, <2>2, <2>3
<1>5. QED BY <1>3, <1>4

LEMMA RowsCutOff ==
    ASSUME topic \in Topics, NEW db, Database(db), NEW def \in Definitions, Plain(def),
           Fold[def.name] \in DOMAIN db => db[Fold[def.name]].cols = Columns(def),
           NEW w \in Messages, NEW new \in BrokenOff(db, Message(w))
    PROVE  \/ RowsIn(new, def) = RowsIn(db, def)
           \/ Inserts(db, new, def, w)
           \/ Deletes(db, new, def, w)
<1>1. CASE new = db
  BY <1>1
<1>2. CASE new = HandlerIncomingData(db, Message(w)).tables
  BY <1>2, RowsHandled
<1>3. CASE new = CreateTableIfNotExists(db, Message(w).table, Message(w).data)
  <2> DEFINE name == Message(w).table
  <2>1. /\ \A n : n \in DOMAIN new <=> n \in DOMAIN db \/ (n = Fold[name] /\ name \notin BadNames)
        /\ \A n \in DOMAIN db : new[n] = db[n]
        /\ Fold[name] \in DOMAIN new \ DOMAIN db => RowsOf(new, Fold[name]) = {}
    BY <1>3, CreateEffect
  <2> HIDE DEF name
  <2>2. QED BY <2>1 DEF RowsIn, RowsOf
<1>4. QED BY <1>1, <1>2, <1>3 DEF BrokenOff

LEMMA RowsStep ==
    ASSUME Basis, Basis', ColumnsKept, [ReplicaNext]_replicaVars,
           NEW def \in Definitions, Plain(def), Clean(def)'
    PROVE  \/ /\ RowsIn(tables', def) = RowsIn(tables, def)
              /\ WriteMessage => ~SameTable(def, writing)
           \/ /\ writing # 0 /\ writing \in Messages
              /\ Inserts(tables, tables', def, writing) \/ Deletes(tables, tables', def, writing)
<1>1. /\ TypeOK /\ topic \in Topics /\ Database(tables)
      /\ Fold[def.name] \in DOMAIN tables => tables[Fold[def.name]].cols = Columns(def)
  BY DEF Basis, ConsumerInv, IInv, ColumnsKept
<1>2. writing # 0 => writing \in Messages
  BY <1>1, InNumbers
<1>3. CASE WriteMessage
  <2>1. writing # 0
    BY <1>3 DEF WriteMessage
  <2>2. CASE connected
    <3>1. tables' = HandlerIncomingData(tables, Message(writing)).tables
      BY <1>3, <2>2 DEF WriteMessage
    <3>2. QED BY <1>1, <1>2, <2>1, <3>1, RowsHandled
  <2>3. CASE ~connected
    <3>1. tables' = tables /\ writing \in failed'
      BY <1>3, <2>3 DEF WriteMessage
    <3>2. ~SameTable(def, writing)
      BY <3>1, TopicStays DEF Clean
    <3>3. QED BY <3>1, <3>2
  <2>4. QED BY <2>2, <2>3
<1>4. CASE ~WriteMessage
  BY <1>1, <1>2, <1>4, TablesStep, RowsCutOff
<1>5. QED BY <1>3, <1>4
----------------------------------------------------------------------------
(* The rows in the end *)

(* Message d deletes the row message i inserts. *)
Kills(def, d, i) == Is("DELETE", def, d) /\ topic[d].old[KeyOf(def)] = topic[i].new[KeyOf(def)]

(* A row that should go has its delete still to come. *)
Justified(def, r) ==
    \E i \in Messages :
        /\ Is("INSERT", def, i) /\ r = Row(def, i)
        /\ \A d \in Messages : i < d /\ Kills(def, d, i) => Pending(d)

(* A row that should stay is there or has its insert still to come. *)
Provided(def, i) ==
    Is("INSERT", def, i) /\ (\A d \in Messages : i < d => ~Kills(def, d, i)) =>
        Row(def, i) \in RowsIn(tables, def) \/ Pending(i)

ReplayInv ==
    \A def \in Definitions : Plain(def) /\ Clean(def) =>
        /\ \A r \in RowsIn(tables, def) : Justified(def, r)
        /\ \A i \in Messages : Provided(def, i)

LEMMA KeyOfRow ==
    ASSUME topic \in Topics, NEW def \in Definitions, Plain(def),
           NEW i \in Messages, Is("INSERT", def, i)
    PROVE  Row(def, i)[KeyName(def)] = topic[i].new[KeyOf(def)]
<1>1. Change(topic[i])
  BY ReplicaAssumption
<1>2. StoredRow(def, topic[i].new) /\ TableDefinition(def)
  BY <1>1 DEF Is, Change
<1>3. KeyOf(def) \in DOMAIN def.cols /\ def.cols[KeyOf(def)].key
  BY <1>2, PlainKey
<1>4. QED BY <1>2, <1>3, KeyText DEF Row, KeyName

LEMMA ReplayStep ==
    ASSUME Basis, Basis', ColumnsKept, ReplayInv, [ReplicaNext]_replicaVars
    PROVE  ReplayInv'
<1> SUFFICES ASSUME NEW def \in Definitions', Plain(def)', Clean(def)'
             PROVE  /\ \A r \in RowsIn(tables', def) : Justified(def, r)'
                    /\ \A i \in Messages : Provided(def, i)'
  BY DEF ReplayInv, RowsIn, RowsOf
<1>t. TypeOK /\ topic \in Topics /\ \A o \in Messages : o \in Nat
  BY InNumbers DEF Basis, ConsumerInv, IInv
<1>d. def \in Definitions /\ Plain(def) /\ Clean(def)
  BY TopicStays
<1>s. /\ topic' = topic
      /\ \A op, o : Is(op, def, o)' = Is(op, def, o)
      /\ \A i : Row(def, i)' = Row(def, i)
  BY TopicStays
<1>k. \A d, i : Kills(def, d, i)' = Kills(def, d, i)
  BY <1>s DEF Kills
<1>p. ASSUME NEW o \in Messages, Pending(o), SameTable(def, o)
      PROVE  Pending(o)' \/ (WriteMessage /\ o = writing)
  <2>1. o \notin dropped'
    BY <1>p, TopicStays DEF Clean
  <2>2. QED BY <1>p, <2>1, PendingStep
<1>o. \A op, o : Is(op, def, o) => SameTable(def, o)
  BY DEF Is, SameTable
<1>r. \/ /\ RowsIn(tables', def) = RowsIn(tables, def)
         /\ WriteMessage => ~SameTable(def, writing)
      \/ /\ writing # 0 /\ writing \in Messages
         /\ Inserts(tables, tables', def, writing) \/ Deletes(tables, tables', def, writing)
  BY <1>d, RowsStep
<1>1. ASSUME NEW r \in RowsIn(tables', def) PROVE Justified(def, r)'
  <2>1. CASE r \in RowsIn(tables, def)
    <3>1. PICK i \in Messages : /\ Is("INSERT", def, i) /\ r = Row(def, i)
                                /\ \A d \in Messages : i < d /\ Kills(def, d, i) => Pending(d)
      BY <1>d, <2>1 DEF ReplayInv, Justified
    <3>2. ASSUME NEW d \in Messages, i < d, Kills(def, d, i) PROVE Pending(d)'
      <4>1. Pending(d) /\ SameTable(def, d)
        BY <1>o, <3>1, <3>2 DEF Kills
      <4>2. CASE WriteMessage /\ d = writing
        <5>1. Deletes(tables, tables', def, d)
          BY <1>r, <3>2, <4>1, <4>2 DEF Inserts, Kills, Is
        <5>2. r[KeyName(def)] # topic[d].old[KeyOf(def)]
          BY <1>1, <5>1 DEF Deletes
        <5>3. r[KeyName(def)] = topic[i].new[KeyOf(def)]
          BY <1>d, <1>t, <3>1, KeyOfRow
        <5>4. QED BY <3>2, <5>2, <5>3 DEF Kills
      <4>3. QED BY <1>p, <4>1, <4>2
    <3>3. QED BY <1>k, <1>s, <3>1, <3>2 DEF Justified
  <2>2. CASE r \notin RowsIn(tables, def)
    <3>1. writing # 0 /\ writing \in Messages /\ Is("INSERT", def, writing) /\ r = Row(def, writing)
      BY <1>r, <1>1, <2>2 DEF Inserts, Deletes
    <3>2. ASSUME NEW d \in Messages, writing < d, Kills(def, d, writing) PROVE Pending(d)'
      <4>1. Pending(d) /\ SameTable(def, d) /\ d # writing
        BY <1>o, <1>t, <3>1, <3>2, LaterPending DEF Kills
      <4>2. QED BY <1>p, <4>1
    <3>3. QED BY <1>k, <1>s, <3>1, <3>2 DEF Justified
  <2>3. QED BY <2>1, <2>2
<1>2. ASSUME NEW i \in Messages PROVE Provided(def, i)'
  <2> SUFFICES ASSUME Is("INSERT", def, i), \A d \in Messages : i < d => ~Kills(def, d, i)
               PROVE  Row(def, i) \in RowsIn(tables', def) \/ Pending(i)'
    BY <1>k, <1>s DEF Provided, RowsIn, RowsOf
  <2>1. Row(def, i) \in RowsIn(tables, def) \/ Pending(i)
    BY <1>d DEF ReplayInv, Provided
  <2>2. CASE Row(def, i) \in RowsIn(tables, def) /\ Row(def, i) \notin RowsIn(tables', def)
    <3>1. /\ writing # 0 /\ writing \in Messages /\ Is("DELETE", def, writing)
          /\ Row(def, i)[KeyName(def)] = topic[writing].old[KeyOf(def)]
      BY <1>r, <2>2 DEF Inserts, Deletes
    <3>2. Kills(def, writing, i)
      BY <1>d, <1>t, <3>1, KeyOfRow DEF Kills
    <3>3. writing < i
      <4>1. ~(i < writing) /\ writing # i
        BY <3>1, <3>2 DEF Is
      <4>2. QED BY <1>t, <3>1, <4>1
    <3>4. Pending(i)
      BY <3>1, <3>3, LaterPending
    <3>5. QED BY <1>o, <1>p, <1>t, <3>1, <3>3, <3>4
  <2>3. CASE Pending(i) /\ ~Pending(i)'
    <3>1. WriteMessage /\ i = writing /\ SameTable(def, i)
      BY <1>o, <1>p, <2>3
    <3>2. Inserts(tables, tables', def, i)
      BY <1>r, <3>1 DEF Deletes, Is
    <3>3. QED BY <3>2 DEF Inserts
  <2>4. QED BY <2>1, <2>2, <2>3
<1>3. QED BY <1>1, <1>2

(* Theorem: Converges.  Whatever was read again after deaths and           *)
(* evictions, a plain table ends up with the rows of the source.           *)
THEOREM RowsConverge == ReplicaSpec => []Converges
<1>1. ReplicaInit => ColumnsKept /\ ReplayInv
  <2> SUFFICES ASSUME ReplicaInit PROVE ColumnsKept /\ ReplayInv
    OBVIOUS
  <2>1. tables = [name \in {} |-> {}] /\ state = "down" /\ committed = 1
    BY DEF ReplicaInit, Init
  <2>2. \A def : RowsIn(tables, def) = {}
    BY <2>1 DEF RowsIn
  <2>3. \A o \in Messages : Pending(o)
    BY <2>1, TopicAssumption DEF Pending
  <2>4. QED BY <2>1, <2>2, <2>3 DEF ColumnsKept, ReplayInv, Provided
<1>2. /\ Basis /\ Basis' /\ ColumnsKept /\ ReplayInv /\ [ReplicaNext]_replicaVars
      => ColumnsKept' /\ ReplayInv'
  BY ColumnsStep, ReplayStep
<1>3. Basis /\ ReplayInv => Converges
  <2> SUFFICES ASSUME Basis, ReplayInv, committed = TopicLen + 1, InProcess = {},
                      NEW def \in Definitions, Plain(def),
                      \A o \in failed \cup dropped : ~SameTable(def, o)
               PROVE  BagToSet(TargetRows(def)) = SourceRows(def, TopicLen)
    BY DEF Converges
  <2>1. \A o \in Messages : ~Pending(o)
    <3>1. /\ TypeOK /\ (state = "up" => committed <= position)
      BY DEF Basis, ConsumerInv, IInv, ConsumedAccounted
    <3>2. \A o \in Messages : ~(committed <= o) /\ (state = "up" => ~(position <= o))
      BY <3>1, TopicAssumption DEF TypeOK
    <3>3. QED BY <3>2 DEF Pending
  <2>2. Clean(def)
    BY DEF Clean
  <2>3. \A i \in Messages : Live(def, i, TopicLen) <=>
           Is("INSERT", def, i) /\ \A d \in Messages : i < d => ~Kills(def, d, i)
    <3>1. \A i \in Messages, d \in Messages : d \in i + 1 .. TopicLen <=> i < d
      BY TopicAssumption
    <3>2. \A i \in Messages : \A d : d \in i + 1 .. TopicLen => d \in Messages
      BY TopicAssumption
    <3>3. QED BY <3>1, <3>2 DEF Live, Kills
  <2>4. ASSUME NEW r
        PROVE  r \in RowsIn(tables, def) <=> \E i \in Messages : Live(def, i, TopicLen) /\ r = Row(def, i)
    <3>1. r \in RowsIn(tables, def) =>
             \E i \in Messages : /\ Is("INSERT", def, i) /\ r = Row(def, i)
                                 /\ \A d \in Messages : i < d => ~Kills(def, d, i)
      BY <2>1, <2>2 DEF ReplayInv, Justified
    <3>2. \A i \in Messages :
             Is("INSERT", def, i) /\ (\A d \in Messages : i < d => ~Kills(def, d, i))
                => Row(def, i) \in RowsIn(tables, def)
      BY <2>1, <2>2 DEF ReplayInv, Provided
    <3>3. QED BY <2>3, <3>1, <3>2
  <2>5. ASSUME NEW r PROVE r \in RowsIn(tables, def) <=> r \in SourceRows(def, TopicLen)
    BY <2>4, SourceIs, TopicAssumption DEF Row
  <2>6. RowsIn(tables, def) = SourceRows(def, TopicLen)
    BY <2>5
  <2>7. QED BY <2>6, TargetIs
<1>4. QED BY <1>1, <1>2, <1>3, BasisHolds, PTL DEF ReplicaSpec
----------------------------------------------------------------------------
(* How often a message can still come before the database *)

If(b) == IF b THEN 1 ELSE 0
Times(s, o) == Cardinality({k \in DOMAIN s : s[k] = o})

(* Of the present process and what it will consume, or of what the next    *)
(* process will consume; a process without its connection writes nothing.  *)
Ahead(o) ==
    IF state # "up" THEN If(committed <= o)
    ELSE IF connected THEN Times(buf, o) + If(writing = o) + If(inHand = o) + If(position <= o)
    ELSE 0

Budget == 1 + deaths + evictions
Used(o) == Budget - Ahead(o)

LEMMA TimesAppend ==
    ASSUME NEW s \in Seq(Messages), NEW e \in Messages, NEW o
    PROVE  /\ Times(s, o) \in Nat
           /\ Times(Append(s, e), o) = Times(s, o) + If(e = o)
<1> DEFINE at == {k \in DOMAIN s : s[k] = o}
           more == {k \in DOMAIN Append(s, e) : Append(s, e)[k] = o}
<1>1. /\ DOMAIN s = 1 .. Len(s) /\ Len(s) \in Nat /\ Len(s) + 1 \notin DOMAIN s
      /\ DOMAIN Append(s, e) = DOMAIN s \cup {Len(s) + 1}
      /\ Append(s, e)[Len(s) + 1] = e
      /\ \A k \in DOMAIN s : Append(s, e)[k] = s[k]
  OBVIOUS
<1>2. IsFiniteSet(at) /\ Cardinality(at) \in Nat
  <2>1. IsFiniteSet(DOMAIN s)
    BY <1>1, FS_Interval
  <2>2. IsFiniteSet(at)
    BY <2>1, FS_Subset
  <2>3. QED BY <2>2, FS_CardinalityType
<1>3. more = IF e = o THEN at \cup {Len(s) + 1} ELSE at
  BY <1>1
<1>4. Len(s) + 1 \notin at
  BY <1>1
<1> HIDE DEF at, more
<1>5. Cardinality(at \cup {Len(s) + 1}) = Cardinality(at) + 1
  BY <1>2, <1>4, FS_AddElement
<1>6. Cardinality(more) = Cardinality(at) + If(e = o)
  BY <1>2, <1>3, <1>5 DEF If
<1>7. QED BY <1>2, <1>6 DEF at, more, Times

LEMMA TimesTail ==
    ASSUME NEW s \in Seq(Messages), s # <<>>, NEW o
    PROVE  /\ Times(Tail(s), o) \in Nat
           /\ Times(Tail(s), o) + If(Head(s) = o) <= Times(s, o)
<1> DEFINE at == {k \in DOMAIN s : s[k] = o}
           rest == {k \in DOMAIN Tail(s) : Tail(s)[k] = o}
           shift == [k \in rest |-> k + 1]
<1>1. /\ DOMAIN s = 1 .. Len(s) /\ Len(s) \in Nat \ {0}
      /\ DOMAIN Tail(s) = 1 .. Len(s) - 1 /\ Head(s) = s[1]
      /\ \A k \in DOMAIN Tail(s) : Tail(s)[k] = s[k + 1]
  OBVIOUS
<1>2. IsFiniteSet(at) /\ Cardinality(at) \in Nat
  <2>1. IsFiniteSet(DOMAIN s)
    BY <1>1, FS_Interval
  <2>2. IsFiniteSet(at)
    BY <2>1, FS_Subset
  <2>3. QED BY <2>2, FS_CardinalityType
<1>3. IsFiniteSet(at \ {1}) /\ Cardinality(at \ {1}) = Cardinality(at) - If(Head(s) = o)
  <2>1. 1 \in at <=> Head(s) = o
    BY <1>1
  <2> HIDE DEF at
  <2>2. QED BY <1>2, <2>1, FS_RemoveElement DEF If
<1>4. shift \in Injection(rest, at \ {1})
  <2>1. \A k \in rest : k \in Nat /\ k + 1 \in at \ {1}
    BY <1>1
  <2> HIDE DEF at, rest
  <2>2. shift \in [rest -> at \ {1}]
    BY <2>1
  <2>3. \A j, k \in rest : shift[j] = shift[k] => j = k
    BY <2>1
  <2> HIDE DEF shift
  <2>4. QED BY <2>2, <2>3 DEF Injection, IsInjective
<1> HIDE DEF at, rest, shift
<1>5. IsFiniteSet(rest) /\ Cardinality(rest) <= Cardinality(at \ {1})
  BY <1>3, <1>4, FS_Injection
<1>6. Cardinality(rest) \in Nat
  BY <1>5, FS_CardinalityType
<1>7. Times(s, o) = Cardinality(at) /\ Times(Tail(s), o) = Cardinality(rest)
  BY DEF at, rest, Times
<1>8. If(Head(s) = o) \in {0, 1}
  BY DEF If
<1>9. QED BY <1>2, <1>3, <1>5, <1>6, <1>7, <1>8

LEMMA AheadType ==
    ASSUME TypeOK, NEW o
    PROVE  /\ Ahead(o) \in Nat /\ Times(buf, o) \in Nat /\ Budget \in Nat /\ Used(o) \in Int
<1>1. buf \in Seq(Messages) /\ deaths \in Nat /\ evictions \in Nat
  BY DEF TypeOK, FifoTypeOK
<1>2. Times(buf, o) \in Nat
  <2>1. IsFiniteSet(DOMAIN buf)
    <3>1. DOMAIN buf = 1 .. Len(buf) /\ Len(buf) \in Nat
      BY <1>1
    <3>2. QED BY <3>1, FS_Interval
  <2>2. IsFiniteSet({k \in DOMAIN buf : buf[k] = o})
    BY <2>1, FS_Subset
  <2>3. QED BY <2>2, FS_CardinalityType DEF Times
<1>3. Ahead(o) \in Nat
  BY <1>2 DEF Ahead, If
<1>4. QED BY <1>1, <1>2, <1>3 DEF Budget, Used

(* A statement on its way was carried out, or could have been. *)
Strikes(o) ==
    /\ writing # 0 /\ connected /\ o = writing
    /\ WriteMessage \/ LoseConnection \/ Die

(* No step gives a message more chances than it adds to the budget, and    *)
(* one that carries out its statement takes one away.                      *)
LEMMA UsedStep ==
    ASSUME Basis, Basis', [ReplicaNext]_replicaVars, NEW o \in Messages
    PROVE  /\ Used(o) <= Used(o)'
           /\ Strikes(o) => Used(o) + 1 <= Used(o)'
<1>t. /\ TypeOK /\ TypeOK' /\ o \in Nat \ {0} /\ position \in Nat /\ committed \in Nat
      /\ deaths \in Nat /\ evictions \in Nat /\ buf \in Seq(Messages)
      /\ state = "up" => committed <= position
      /\ EmptyWhenDown
  <2>1. TypeOK /\ TypeOK' /\ EmptyWhenDown /\ ConsumedAccounted
    BY DEF Basis, ConsumerInv, IInv
  <2>2. o \in Nat \ {0}
    BY TopicAssumption
  <2>3. deaths \in Nat /\ evictions \in Nat
    BY <2>1 DEF TypeOK
  <2>4. QED BY <2>1, <2>2, <2>3, InNumbers DEF ConsumedAccounted
<1>a. /\ Ahead(o) \in Nat /\ Times(buf, o) \in Nat /\ Budget \in Nat
      /\ Used(o) = Budget - Ahead(o) /\ Budget = 1 + deaths + evictions
  BY <1>t, AheadType DEF Used, Budget
<1>b. /\ Ahead(o)' \in Nat /\ Times(buf', o) \in Nat
      /\ Used(o)' = Budget' - Ahead(o)' /\ Budget' = 1 + deaths' + evictions'
  <2>1. (Ahead(o) \in Nat /\ Times(buf, o) \in Nat)'
    BY <1>t, AheadType, PTL
  <2>2. QED BY <2>1 DEF Used, Budget, Times
<1>w. writing # 0 => state = "up"
  BY <1>t DEF EmptyWhenDown
<1>i. \A b : If(b) \in {0, 1}
  BY DEF If
<1>u. state = "up" /\ connected =>
         Ahead(o) = Times(buf, o) + If(writing = o) + If(inHand = o) + If(position <= o)
  BY DEF Ahead
<1>v. state' = "up" /\ connected' =>
         Ahead(o)' = Times(buf', o) + If(writing' = o) + If(inHand' = o) + If(position' <= o)
  BY DEF Ahead, Times, If
<1>z. /\ state = "up" /\ ~connected => Ahead(o) = 0
      /\ state' = "up" /\ ~connected' => Ahead(o)' = 0
  BY DEF Ahead
<1>1. CASE Start
  <2>1. /\ state = "down" /\ state' = "up" /\ position' = committed /\ connected' = TRUE
        /\ UNCHANGED <<buf, inHand, writing, deaths, evictions>>
    BY <1>1 DEF Start
  <2>2. buf = <<>> /\ inHand = 0 /\ writing = 0
    BY <1>t, <2>1 DEF EmptyWhenDown
  <2>3. Times(buf, o) = 0
    <3>1. {k \in DOMAIN buf : buf[k] = o} = {}
      BY <2>2
    <3>2. QED BY <3>1, FS_EmptySet DEF Times
  <2>4. Ahead(o)' = If(committed <= o) /\ Ahead(o) = If(committed <= o)
    BY <1>i, <1>t, <2>1, <2>2, <2>3 DEF Ahead, Times, If
  <2>5. QED BY <1>a, <1>b, <2>1, <2>2, <2>4 DEF Strikes
<1>2. CASE StartFails \/ OperatorStart
  <2>1. state # "up" /\ state' # "up" /\ UNCHANGED <<committed, deaths, evictions>>
    BY <1>2 DEF StartFails, OperatorStart
  <2>2. Ahead(o)' = Ahead(o)
    BY <2>1 DEF Ahead
  <2>3. QED BY <1>a, <1>b, <1>w, <2>1, <2>2 DEF Strikes
<1>3. CASE Die
  <2>1. state = "up" /\ state' # "up" /\ deaths' = deaths + 1 /\ evictions' = evictions
    BY <1>3 DEF Die
  <2>2. Ahead(o)' <= 1
    BY <2>1 DEF Ahead, If
  <2>3. Strikes(o) => Ahead(o) >= 1
    <3>1. Strikes(o) => Ahead(o) = Times(buf, o) + 1 + If(inHand = o) + If(position <= o)
      BY <2>1 DEF Strikes, Ahead, If
    <3>2. QED BY <1>a, <1>i, <3>1
  <2>4. QED BY <1>a, <1>b, <1>t, <2>1, <2>2, <2>3
<1>4. CASE Consume
  <2>1. /\ UNCHANGED <<buf, state, writing, connected, deaths, evictions>>
        /\ state = "up" /\ inHand = 0 /\ inHand' = position /\ position' = position + 1
    BY <1>4, ReplicaAssumption DEF Consume
  <2>2. If(inHand' = o) + If(position' <= o) = If(inHand = o) + If(position <= o)
    BY <1>t, <2>1 DEF If
  <2>3. Ahead(o)' = Ahead(o)
    BY <1>a, <1>i, <1>u, <1>v, <1>z, <2>1, <2>2
  <2>4. ~Strikes(o)
    BY <1>4, <2>1, <1>t DEF Strikes, Consume, WriteMessage, LoseConnection, Die
  <2>5. QED BY <1>a, <1>b, <2>1, <2>3, <2>4
<1>5. CASE Push
  <2>1. /\ UNCHANGED <<state, position, committed, writing, connected, deaths, evictions>>
        /\ inHand \in Messages /\ buf' = Append(buf, inHand) /\ inHand' = 0
    BY <1>5, <1>t, TopicAssumption DEF Push, Put, TypeOK, Slot
  <2>2. Times(buf', o) = Times(buf, o) + If(inHand = o)
    BY <1>t, <2>1, TimesAppend
  <2>3. If(inHand' = o) = 0
    BY <1>t, <2>1 DEF If
  <2>4. Ahead(o)' = Ahead(o)
    <3>1. state = "up"
      BY <1>5, <1>t DEF Push, EmptyWhenDown
    <3>2. QED BY <1>a, <1>i, <1>u, <1>v, <1>z, <2>1, <2>2, <2>3, <3>1
  <2>5. inHand # 0 /\ ~Strikes(o)
    BY <1>5, <2>1, <1>t DEF Push, Strikes, WriteMessage, LoseConnection, Die
  <2>6. QED BY <1>a, <1>b, <2>1, <2>4, <2>5
<1>6. CASE Pop
  <2>1. /\ UNCHANGED <<state, position, committed, inHand, connected, deaths, evictions>>
        /\ writing = 0 /\ buf # <<>> /\ buf' = Tail(buf) /\ writing' = Head(buf)
    BY <1>6 DEF Pop, Take
  <2>2. Times(buf', o) \in Nat /\ Times(buf', o) + If(writing' = o) <= Times(buf, o)
    BY <1>t, <2>1, TimesTail
  <2>3. If(writing = o) = 0
    BY <1>t, <2>1 DEF If
  <2>4. Ahead(o)' <= Ahead(o)
    <3>1. state = "up"
      BY <1>6 DEF Pop
    <3>2. QED BY <1>a, <1>i, <1>u, <1>v, <1>z, <2>1, <2>2, <2>3, <3>1
  <2>5. QED BY <1>a, <1>b, <2>1, <2>4 DEF Strikes
<1>7. CASE WriteMessage
  <2>1. /\ UNCHANGED <<buf, state, position, committed, inHand, connected, deaths, evictions>>
        /\ writing # 0 /\ writing' = 0
    BY <1>7 DEF WriteMessage
  <2>2. If(writing' = o) = 0 /\ (o = writing => If(writing = o) = 1)
    BY <1>t, <2>1 DEF If
  <2>3. CASE connected
    <3>1. /\ Ahead(o) = Times(buf, o) + If(writing = o) + If(inHand = o) + If(position <= o)
          /\ Ahead(o)' = Times(buf, o) + If(inHand = o) + If(position <= o)
      BY <1>a, <1>i, <1>u, <1>v, <1>w, <2>1, <2>2, <2>3
    <3>2. QED BY <1>a, <1>b, <1>i, <2>1, <2>2, <3>1 DEF Strikes
  <2>4. CASE ~connected
    BY <1>a, <1>b, <1>w, <2>1, <2>4 DEF Ahead, Strikes
  <2>5. QED BY <2>3, <2>4
<1>8. CASE LoseConnection
  <2>1. state = "up" /\ connected' = FALSE /\ connected /\ UNCHANGED <<state, deaths, evictions>>
    BY <1>8 DEF LoseConnection
  <2>2. Ahead(o)' = 0
    BY <2>1 DEF Ahead
  <2>3. Strikes(o) => Ahead(o) >= 1
    <3>1. Strikes(o) => Ahead(o) = Times(buf, o) + 1 + If(inHand = o) + If(position <= o)
      BY <2>1 DEF Strikes, Ahead, If
    <3>2. QED BY <1>a, <1>i, <3>1
  <2>4. QED BY <1>a, <1>b, <2>1, <2>2, <2>3
<1>9. CASE AutoCommit
  <2>1. /\ UNCHANGED <<buf, state, position, inHand, writing, connected, deaths, evictions>>
        /\ state = "up" /\ committed' # committed
    BY <1>9, <1>t DEF AutoCommit
  <2>2. Ahead(o)' = Ahead(o)
    BY <2>1 DEF Ahead, Times
  <2>3. ~Strikes(o)
    BY <2>1 DEF Strikes, WriteMessage, LoseConnection, Die
  <2>4. QED BY <1>a, <1>b, <2>1, <2>2, <2>3
<1>10. CASE Evict
  <2>1. /\ UNCHANGED <<buf, state, inHand, writing, connected, deaths>> /\ state = "up"
        /\ position' = committed /\ evictions' = evictions + 1
    BY <1>10 DEF Evict
  <2>2. Ahead(o)' <= Ahead(o) + 1
    BY <1>a, <1>b, <1>i, <1>u, <1>v, <1>z, <2>1
  <2>3. ~Strikes(o)
    BY <2>1, <1>t DEF Strikes, WriteMessage, LoseConnection, Die
  <2>4. QED BY <1>a, <1>b, <1>t, <2>1, <2>2, <2>3
<1>11. CASE UNCHANGED replicaVars
  <2>1. UNCHANGED <<buf, state, position, committed, inHand, writing, connected, deaths, evictions>>
    BY <1>11 DEF replicaVars, vars
  <2>2. Ahead(o)' = Ahead(o)
    BY <2>1 DEF Ahead, Times
  <2>3. ~Strikes(o)
    BY <1>t, <2>1 DEF Strikes, WriteMessage, LoseConnection, Die
  <2>4. QED BY <1>a, <1>b, <2>1, <2>2, <2>3
<1>12. QED
  BY <1>1, <1>2, <1>3, <1>4, <1>5, <1>6, <1>7, <1>8, <1>9, <1>10, <1>11 DEF ReplicaNext
----------------------------------------------------------------------------
(* How many copies of a row there are *)

Count(db, n, r) == IF n \in DOMAIN db /\ r \in RowsOf(db, n) THEN db[n].rows[r] ELSE 0

Bags(db) == Database(db) /\ \A n \in DOMAIN db : IsABag(db[n].rows)

LEMMA CountType ==
    ASSUME NEW db, Bags(db), NEW n, NEW r
    PROVE  Count(db, n, r) \in Nat
<1>1. n \in DOMAIN db /\ r \in RowsOf(db, n) => db[n].rows[r] \in Nat
  BY DEF Bags, IsABag, RowsOf
<1>2. QED BY <1>1 DEF Count

LEMMA CreateCount ==
    ASSUME NEW db, Bags(db), NEW name, NEW data,
           NEW made, made = CreateTableIfNotExists(db, name, data)
    PROVE  Bags(made) /\ \A n, r : Count(made, n, r) = Count(db, n, r)
<1>1. CASE made = db
  BY <1>1
<1>2. CASE made = WithTable(db, Fold[name], data) /\ Fold[name] \notin DOMAIN db
  <2>1. IsABag(EmptyBag) /\ DOMAIN EmptyBag = {}
    BY DEF IsABag, EmptyBag, SetToBag
  <2>2. /\ DOMAIN made = DOMAIN db \cup {Fold[name]}
        /\ \A n \in DOMAIN db : made[n] = db[n]
        /\ made[Fold[name]] = [cols |-> DOMAIN data, rows |-> EmptyBag]
    BY <1>2 DEF WithTable
  <2>3. RowsOf(made, Fold[name]) = {} /\ \A n \in DOMAIN db : RowsOf(made, n) = RowsOf(db, n)
    BY <2>1, <2>2 DEF RowsOf
  <2>4. Bags(made)
    BY <2>1, <2>2 DEF Bags, Database
  <2>5. ASSUME NEW n, NEW r PROVE Count(made, n, r) = Count(db, n, r)
    BY <1>2, <2>2, <2>3 DEF Count
  <2>6. QED BY <2>4, <2>5
<1>3. QED BY <1>1, <1>2 DEF CreateTableIfNotExists, Exists

LEMMA InsertCount ==
    ASSUME NEW db, Bags(db), NEW name, NEW data,
           NEW result, result = InsertRow(db, name, data), NEW n, NEW r
    PROVE  \/ Count(result.tables, n, r) = Count(db, n, r)
           \/ /\ n = Fold[name] /\ n \in DOMAIN result.tables
              /\ r = Padded(result.tables[n].cols, data)
              /\ Count(result.tables, n, r) = Count(db, n, r) + 1
<1> DEFINE fits == Exists(db, name) /\ data # Absent /\ DOMAIN data \subseteq db[Fold[name]].cols
           row == Padded(db[Fold[name]].cols, data)
<1>1. CASE ~fits
  <2>1. result.tables = db
    BY <1>1 DEF InsertRow, Failure
  <2>2. QED BY <2>1
<1>2. CASE fits
  <2> DEFINE f == Fold[name]
             old == db[f].rows
             new == old (+) SetToBag({row})
  <2>1. f \in DOMAIN db /\ IsABag(old)
    BY <1>2 DEF Exists, Bags
  <2>2. result.tables = [db EXCEPT ![f].rows = new]
    BY <1>2 DEF InsertRow, Success
  <2>3. row = Padded(db[f].cols, data)
    OBVIOUS
  <2> HIDE DEF row
  <2>4. /\ DOMAIN new = DOMAIN old \cup {row}
        /\ \A x \in DOMAIN new :
              new[x] = (IF x \in DOMAIN old THEN old[x] ELSE 0) + (IF x = row THEN 1 ELSE 0)
    BY DEF (+), SetToBag
  <2> HIDE DEF new
  <2>5. /\ DOMAIN result.tables = DOMAIN db
        /\ \A m \in DOMAIN db \ {f} : result.tables[m] = db[m]
        /\ result.tables[f] = [cols |-> db[f].cols, rows |-> new]
    BY <2>1, <2>2 DEF Bags, Database
  <2>6. CASE n # f
    <3>1. Count(result.tables, n, r) = Count(db, n, r)
      BY <2>5, <2>6 DEF Count, RowsOf
    <3>2. QED BY <3>1
  <2>7. CASE n = f
    <3>1. /\ Count(result.tables, f, r) = IF r \in DOMAIN new THEN new[r] ELSE 0
          /\ Count(db, f, r) = IF r \in DOMAIN old THEN old[r] ELSE 0
      BY <2>1, <2>5 DEF Count, RowsOf
    <3>2. \A x \in DOMAIN old : old[x] \in Nat
      BY <2>1 DEF IsABag
    <3> HIDE DEF old, f
    <3>3. r # row => Count(result.tables, f, r) = Count(db, f, r)
      BY <2>4, <3>1, <3>2
    <3>4. r = row => Count(result.tables, f, r) = Count(db, f, r) + 1
      BY <2>4, <3>1, <3>2
    <3>5. f \in DOMAIN result.tables /\ result.tables[f].cols = db[f].cols
      BY <2>1, <2>5
    <3>6. CASE r # row
      BY <2>7, <3>3, <3>6
    <3>7. CASE r = row
      BY <2>3, <2>7, <3>4, <3>5, <3>7 DEF f
    <3>8. QED BY <3>6, <3>7
  <2>8. QED BY <2>6, <2>7
<1>3. QED BY <1>1, <1>2

LEMMA DeleteCount ==
    ASSUME NEW db, Bags(db), NEW name, NEW before, NEW key,
           NEW result, result = DeleteRow(db, name, before, key), NEW n, NEW r
    PROVE  Count(result.tables, n, r) <= Count(db, n, r)
<1> DEFINE fits == /\ Exists(db, name) /\ key \in db[Fold[name]].cols
                   /\ before[key] \notin Unparsed
           f == Fold[name]
           old == db[f].rows
           kept == [row \in {x \in DOMAIN old : ~Selects(x, before, key)} |-> old[row]]
<1>t. Count(db, n, r) \in Nat
  BY CountType
<1>1. CASE ~fits
  <2>1. result.tables = db
    BY <1>1 DEF DeleteRow, Failure
  <2>2. QED BY <1>t, <2>1
<1>2. CASE fits
  <2>1. f \in DOMAIN db
    BY <1>2 DEF Exists
  <2>2. result.tables = [db EXCEPT ![f].rows = kept]
    BY <1>2 DEF DeleteRow, Success
  <2>3. DOMAIN kept \subseteq DOMAIN old /\ \A x \in DOMAIN kept : kept[x] = old[x]
    OBVIOUS
  <2> HIDE DEF kept
  <2>4. /\ DOMAIN result.tables = DOMAIN db
        /\ \A m \in DOMAIN db \ {f} : result.tables[m] = db[m]
        /\ result.tables[f] = [cols |-> db[f].cols, rows |-> kept]
    BY <2>1, <2>2 DEF Bags, Database
  <2>5. CASE n # f
    <3>1. Count(result.tables, n, r) = Count(db, n, r)
      BY <2>4, <2>5 DEF Count, RowsOf
    <3>2. QED BY <1>t, <3>1
  <2>6. CASE n = f
    <3>1. /\ Count(result.tables, f, r) = IF r \in DOMAIN kept THEN kept[r] ELSE 0
          /\ Count(db, f, r) = IF r \in DOMAIN old THEN old[r] ELSE 0
      BY <2>1, <2>4 DEF Count, RowsOf
    <3>2. Count(result.tables, f, r) \in {0, Count(db, f, r)}
      BY <2>3, <3>1
    <3>3. QED BY <1>t, <2>6, <3>2
  <2>7. QED BY <2>5, <2>6
<1>3. QED BY <1>1, <1>2

(* Whatever became of a statement, it made one copy of one row at most. *)
LEMMA OneCopyMore ==
    ASSUME NEW db, Bags(db), NEW msg, NEW new \in BrokenOff(db, msg), NEW n, NEW r
    PROVE  \/ Count(new, n, r) <= Count(db, n, r)
           \/ /\ msg.op = "INSERT" /\ n = Fold[msg.table] /\ n \in DOMAIN new
              /\ r = Padded(new[n].cols, msg.data)
              /\ Count(new, n, r) = Count(db, n, r) + 1
<1> DEFINE result == HandlerIncomingData(db, msg)
           made == CreateTableIfNotExists(db, msg.table, msg.data)
<1>t. Count(db, n, r) \in Nat
  BY CountType
<1>0. result = HandlerIncomingData(db, msg) /\ made = CreateTableIfNotExists(db, msg.table, msg.data)
  OBVIOUS
<1>1. new = db \/ new = result.tables \/ new = made
  BY DEF BrokenOff
<1> HIDE DEF result, made
<1>2. Bags(made) /\ Count(made, n, r) = Count(db, n, r)
  BY <1>0, CreateCount
<1>3. CASE new = db \/ new = made
  BY <1>2, <1>3, <1>t
<1>4. CASE new = result.tables
  <2>1. CASE msg.op = "INSERT"
    <3>1. result = InsertRow(made, msg.table, msg.data)
      BY <1>0, <2>1, HandlerKind
    <3>2. \/ Count(result.tables, n, r) = Count(made, n, r)
          \/ /\ n = Fold[msg.table] /\ n \in DOMAIN result.tables
             /\ r = Padded(result.tables[n].cols, msg.data)
             /\ Count(result.tables, n, r) = Count(made, n, r) + 1
      BY <1>2, <3>1, InsertCount
    <3>3. QED BY <1>2, <1>4, <1>t, <2>1, <3>2
  <2>2. CASE msg.op = "DELETE"
    <3>1. result = DeleteRow(db, msg.table, msg.before, msg.primary_key)
      BY <1>0, <2>2, HandlerKind
    <3>2. QED BY <1>4, <3>1, DeleteCount
  <2>3. CASE msg.op \notin {"INSERT", "DELETE"}
    <3>1. result.tables = db
      BY <1>0, <2>3, HandlerKind DEF Failure
    <3>2. QED BY <1>4, <1>t, <3>1
  <2>4. QED BY <2>1, <2>2, <2>3
<1>5. QED BY <1>1, <1>3, <1>4

Copies(def, r) == Count(tables, Fold[def.name], r)

LEMMA CopiesStep ==
    ASSUME Basis, Basis', ReplicaTypeOK, ReplicaTypeOK', ColumnsKept', [ReplicaNext]_replicaVars,
           NEW def \in Definitions, Plain(def), NEW r
    PROVE  /\ Copies(def, r) \in Nat
           /\ Copies(def, r)' \in Nat
           /\ \/ Copies(def, r)' <= Copies(def, r)
              \/ /\ Strikes(writing) /\ writing \in Messages
                 /\ Is("INSERT", def, writing) /\ r = Row(def, writing)
                 /\ Copies(def, r)' = Copies(def, r) + 1
<1> DEFINE n == Fold[def.name]
           msg == Message(writing)
<1>1. Bags(tables) /\ topic \in Topics /\ TypeOK
  BY DEF ReplicaTypeOK, Bags, Basis, ConsumerInv, IInv
<1>2. Copies(def, r) \in Nat /\ Copies(def, r)' \in Nat
  <2>1. Copies(def, r) \in Nat
    BY <1>1, CountType DEF Copies
  <2>2. Bags(tables')
    BY DEF ReplicaTypeOK, Bags, Basis, Database
  <2>3. QED BY <2>1, <2>2, CountType DEF Copies, Count, RowsOf
<1>3. Copies(def, r) = Count(tables, n, r) /\ Copies(def, r)' = Count(tables', n, r)
  BY DEF Copies, Count, RowsOf
<1>4. CASE tables' = tables
  BY <1>2, <1>3, <1>4
<1>5. CASE tables' # tables
  <2>1. writing # 0 /\ connected /\ tables' \in BrokenOff(tables, msg)
    BY <1>5, TablesStep
  <2>2. writing \in Messages
    BY <1>1, <2>1, InNumbers
  <2>3. Strikes(writing)
    <3>1. WriteMessage \/ LoseConnection \/ Die
      BY <1>5 DEF ReplicaNext, replicaVars
    <3>2. QED BY <2>1, <3>1 DEF Strikes
  <2>4. CASE Count(tables', n, r) <= Count(tables, n, r)
    BY <1>2, <1>3, <2>4
  <2>5. CASE /\ msg.op = "INSERT" /\ n = Fold[msg.table] /\ n \in DOMAIN tables'
             /\ r = Padded(tables'[n].cols, msg.data)
             /\ Count(tables', n, r) = Count(tables, n, r) + 1
    <3>1. topic[writing].op = "INSERT" /\ msg.table = topic[writing].def.name
      BY <1>1, <2>2, <2>5, MessageIs
    <3>2. SameTable(def, writing)
      BY <2>5, <3>1 DEF SameTable
    <3>3. topic[writing].def = def
      BY <1>1, <2>2, <3>2, PlainMessage
    <3>4. msg.data = Row(def, writing) /\ DOMAIN msg.data = Columns(def)
      BY <1>1, <2>2, <3>1, <3>3, MessageIs DEF Row
    <3>5. tables'[n].cols = Columns(def)
      BY <2>5, TopicStays DEF ColumnsKept
    <3>6. r = Row(def, writing)
      BY <2>5, <3>4, <3>5 DEF Padded, Row, RowObject
    <3>7. QED BY <1>2, <1>3, <2>2, <2>3, <2>5, <3>1, <3>3, <3>6 DEF Is
  <2>6. QED BY <1>1, <2>1, <2>4, <2>5, OneCopyMore
<1>6. QED BY <1>4, <1>5

Sent(def, r) == {o \in Messages : Is("INSERT", def, o) /\ Row(def, o) = r}

(* One pair for each time a message of the row was used up. *)
Pairs(def, r) == {p \in Sent(def, r) \X (1 .. Budget) : p[2] <= Used(p[1])}

CopiesInv ==
    /\ \A o \in Messages : 0 <= Used(o)
    /\ \A def \in Definitions : Plain(def) =>
          \A r : Copies(def, r) <= Cardinality(Pairs(def, r))

LEMMA PairsFinite ==
    ASSUME TypeOK, NEW def, NEW r
    PROVE  /\ IsFiniteSet(Sent(def, r)) /\ IsFiniteSet(Pairs(def, r))
           /\ Cardinality(Sent(def, r)) \in Nat /\ Cardinality(Pairs(def, r)) \in Nat
           /\ Cardinality(Pairs(def, r)) <= Budget * Cardinality(Sent(def, r))
<1>1. IsFiniteSet(Sent(def, r))
  <2>1. IsFiniteSet(Messages)
    BY TopicAssumption, FS_Interval
  <2>2. QED BY <2>1, FS_Subset DEF Sent
<1>2. Budget \in Nat /\ Budget >= 1
  BY DEF TypeOK, Budget
<1>3. IsFiniteSet(1 .. Budget) /\ Cardinality(1 .. Budget) = Budget
  BY <1>2, FS_Interval
<1>4. /\ IsFiniteSet(Sent(def, r) \X (1 .. Budget))
      /\ Cardinality(Sent(def, r) \X (1 .. Budget))
           = Cardinality(Sent(def, r)) * Cardinality(1 .. Budget)
  BY <1>1, <1>3, FS_Product
<1>5. Pairs(def, r) \in SUBSET (Sent(def, r) \X (1 .. Budget))
  BY DEF Pairs
<1>6. /\ IsFiniteSet(Pairs(def, r))
      /\ Cardinality(Pairs(def, r)) <= Cardinality(Sent(def, r) \X (1 .. Budget))
  BY <1>4, <1>5, FS_Subset
<1>7. Cardinality(Sent(def, r)) \in Nat /\ Cardinality(Pairs(def, r)) \in Nat
  BY <1>1, <1>6, FS_CardinalityType
<1> DEFINE c == Cardinality(Sent(def, r))
<1>8. Cardinality(Pairs(def, r)) <= c * Budget /\ c \in Nat
  BY <1>3, <1>4, <1>6, <1>7
<1>9. c * Budget = Budget * c
  BY <1>2, <1>8
<1>10. QED BY <1>1, <1>6, <1>7, <1>8, <1>9

LEMMA CopiesInvStep ==
    ASSUME Basis, Basis', ReplicaTypeOK, ReplicaTypeOK', ColumnsKept', CopiesInv, [ReplicaNext]_replicaVars
    PROVE  CopiesInv'
<1>t. TypeOK /\ TypeOK'
  BY DEF Basis, ConsumerInv, IInv
<1>u. \A o \in Messages : /\ Used(o) \in Int /\ Used(o)' \in Int /\ 0 <= Used(o)
                          /\ Used(o) <= Used(o)'
                          /\ Strikes(o) => Used(o) + 1 <= Used(o)'
  <2> TAKE o \in Messages
  <2>1. (Used(o) \in Int)'
    BY <1>t, AheadType, PTL
  <2>2. QED BY <1>t, <2>1, AheadType, UsedStep DEF CopiesInv
<1>b. /\ Budget \in Nat /\ Budget' \in Nat
      /\ \A o \in Messages : Used(o) <= Budget /\ Used(o)' <= Budget'
  <2>1. \A o \in Messages : Budget \in Nat /\ Used(o) <= Budget
    BY <1>t, AheadType DEF Used
  <2>2. \A o \in Messages : Budget' \in Nat /\ Used(o)' <= Budget'
    <3> TAKE o \in Messages
    <3>1. (Ahead(o) \in Nat /\ Budget \in Nat)'
      BY <1>t, AheadType, PTL
    <3>2. QED BY <3>1 DEF Used
  <2>3. Budget \in Nat /\ Budget' \in Nat
    <3>1. (Budget \in Nat)'
      BY <1>t, AheadType, PTL
    <3>2. QED BY <1>t, <3>1, AheadType
  <2>4. QED BY <2>1, <2>2, <2>3
<1>1. \A o \in Messages : 0 <= Used(o)'
  BY <1>u
<1>2. ASSUME NEW def \in Definitions', Plain(def)', NEW r
      PROVE  Copies(def, r)' <= Cardinality(Pairs(def, r)')
  <2> DEFINE S == Sent(def, r)
             P == Pairs(def, r)
             Q == Pairs(def, r)'
  <2>1. def \in Definitions /\ Plain(def) /\ Sent(def, r)' = Sent(def, r)
    <3>1. /\ def \in Definitions /\ Plain(def)
          /\ \A o : Is("INSERT", def, o)' = Is("INSERT", def, o) /\ Row(def, o)' = Row(def, o)
      BY <1>2, TopicStays
    <3>2. QED BY <3>1 DEF Sent
  <2>2. /\ \A p : p \in P <=> p \in S \X (1 .. Budget) /\ p[2] <= Used(p[1])
        /\ \A p : p \in Q <=> p \in S \X (1 .. Budget') /\ p[2] <= Used(p[1])'
        /\ S \subseteq Messages
    BY <2>1 DEF Pairs, Sent
  <2>3. IsFiniteSet(P) /\ Cardinality(P) \in Nat /\ IsFiniteSet(Q) /\ Cardinality(Q) \in Nat
    <3>1. (IsFiniteSet(Pairs(def, r)) /\ Cardinality(Pairs(def, r)) \in Nat)'
      BY <1>t, PairsFinite, PTL
    <3>2. QED BY <1>t, <3>1, PairsFinite
  <2>4. Copies(def, r) <= Cardinality(P) /\ Copies(def, r) \in Nat
    BY <2>1, CopiesStep DEF CopiesInv
  <2> HIDE DEF P, Q, S
  <2>5. P \subseteq Q
    <3> SUFFICES ASSUME NEW p \in P PROVE p \in Q
      OBVIOUS
    <3>1. /\ p \in S \X (1 .. Budget) /\ p[2] <= Used(p[1]) /\ p[1] \in Messages
          /\ p[2] \in 1 .. Budget /\ p = <<p[1], p[2]>> /\ p[1] \in S
      BY <2>2
    <3>2. p[2] <= Used(p[1])' /\ p[2] \in 1 .. Budget'
      BY <1>b, <1>u, <3>1
    <3>3. QED BY <2>2, <3>1, <3>2
  <2>6. Cardinality(P) <= Cardinality(Q)
    BY <2>3, <2>5, FS_Subset
  <2>7. CASE Copies(def, r)' <= Copies(def, r)
    BY <2>1, <2>3, <2>4, <2>6, <2>7, CopiesStep DEF Q
  <2>8. CASE /\ Strikes(writing) /\ writing \in Messages
             /\ Is("INSERT", def, writing) /\ r = Row(def, writing)
             /\ Copies(def, r)' = Copies(def, r) + 1
    <3>w. PICK w \in Messages : w = writing
      BY <2>8
    <3>e. PICK e : e = <<w, Used(w) + 1>>
      OBVIOUS
    <3>1. w \in S
      BY <2>8, <3>w DEF S, Sent
    <3>2. /\ Used(w) \in Int /\ 0 <= Used(w) /\ Used(w) + 1 <= Used(w)'
          /\ Used(w)' \in Int /\ Used(w)' <= Budget'
      BY <1>b, <1>u, <2>8, <3>w
    <3>3. Used(w) + 1 \in 1 .. Budget' /\ ~(Used(w) + 1 <= Used(w))
      BY <1>b, <3>2
    <3>4. e[1] = w /\ e[2] = Used(w) + 1 /\ e \in S \X (1 .. Budget')
      BY <3>1, <3>3, <3>e
    <3>5. e \in Q /\ e \notin P
      <4>1. Used(e[1]) = Used(w) /\ e[2] <= Used(w)' /\ ~(e[2] <= Used(w))
        BY <3>2, <3>3, <3>4
      <4>2. e[2] <= Used(e[1])'
        BY <3>2, <3>4
      <4>3. QED BY <2>2, <3>4, <4>1, <4>2
    <3>6. Cardinality(P \cup {e}) = Cardinality(P) + 1
      BY <2>3, <3>5, FS_AddElement
    <3>7. Cardinality(P \cup {e}) <= Cardinality(Q)
      <4>1. P \cup {e} \in SUBSET Q
        BY <2>5, <3>5
      <4>2. QED BY <2>3, <4>1, FS_Subset
    <3>8. QED BY <2>3, <2>4, <2>8, <3>6, <3>7 DEF Q
  <2>9. QED BY <2>1, <2>7, <2>8, CopiesStep
<1>3. QED BY <1>1, <1>2 DEF CopiesInv

(* Theorem: CopiesBounded.  For each time a row was sent there is one copy *)
(* of it at most, and one more for each death and each eviction.           *)
THEOREM CopiesAreBounded == ReplicaSpec => []CopiesBounded
<1>1. ReplicaInit => ColumnsKept /\ CopiesInv
  <2> SUFFICES ASSUME ReplicaInit PROVE ColumnsKept /\ CopiesInv
    OBVIOUS
  <2>1. /\ tables = [name \in {} |-> {}] /\ state = "down" /\ TypeOK
        /\ deaths = 0 /\ evictions = 0
    BY TypeInit DEF ReplicaInit, Init
  <2>2. \A o \in Messages : 0 <= Used(o)
    BY <2>1 DEF Used, Budget, Ahead, If
  <2>3. \A def, r : Copies(def, r) = 0
    BY <2>1 DEF Copies, Count
  <2>4. \A def, r : Cardinality(Pairs(def, r)) \in Nat
    BY <2>1, PairsFinite
  <2>5. QED BY <2>1, <2>2, <2>3, <2>4 DEF ColumnsKept, CopiesInv
<1>2. /\ Basis /\ Basis' /\ ReplicaTypeOK /\ ReplicaTypeOK' /\ ColumnsKept /\ CopiesInv
      /\ [ReplicaNext]_replicaVars
      => ColumnsKept' /\ CopiesInv'
  BY ColumnsStep, CopiesInvStep
<1>3. Basis /\ ReplicaTypeOK /\ CopiesInv => CopiesBounded
  <2> SUFFICES ASSUME Basis, ReplicaTypeOK, CopiesInv, NEW def \in Definitions, Plain(def),
                      NEW r \in BagToSet(TargetRows(def))
               PROVE  TargetRows(def)[r] <= Budget * Cardinality(Sent(def, r))
    BY DEF CopiesBounded, Budget, Sent, Row
  <2>1. TypeOK /\ Bags(tables)
    BY DEF ReplicaTypeOK, Bags, Basis, ConsumerInv, IInv
  <2>2. TargetRows(def)[r] = Copies(def, r)
    <3>1. r \in RowsIn(tables, def)
      BY TargetIs
    <3>2. QED BY <3>1 DEF RowsIn, Copies, Count, TargetRows
  <2>3. Copies(def, r) \in Nat
    BY <2>1, CountType DEF Copies
  <2>4. /\ Cardinality(Pairs(def, r)) \in Nat /\ Cardinality(Sent(def, r)) \in Nat
        /\ Cardinality(Pairs(def, r)) <= Budget * Cardinality(Sent(def, r))
        /\ Budget \in Nat
    BY <2>1, PairsFinite, AheadType
  <2>5. Copies(def, r) <= Cardinality(Pairs(def, r))
    BY DEF CopiesInv
  <2> DEFINE most == Budget * Cardinality(Sent(def, r))
  <2>6. most \in Nat
    BY <2>4
  <2>7. Cardinality(Pairs(def, r)) <= most
    BY <2>4
  <2> HIDE DEF most
  <2>8. Copies(def, r) <= most
    BY <2>3, <2>4, <2>5, <2>6, <2>7
  <2>9. QED BY <2>2, <2>8 DEF most
<1>4. QED BY <1>1, <1>2, <1>3, BasisHolds, TablesTyped, PTL DEF ReplicaSpec
====
