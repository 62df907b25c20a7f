---- MODULE DecodingProofs ----
(***************************************************************************)
(* Proofs about Decoding for every set of tables, definitions and values.  *)
(* The argument: what the server has described in this session is what the *)
(* parser has cached, so a row is read with the columns it was written     *)
(* with, and for those the handlers give back the row.  And a position is  *)
(* read on its way to the server in ways that only make it earlier.        *)
(***************************************************************************)
EXTENDS Decoding, ChangeEventsProofs

CacheCurrent == \A t \in described : relation_cache[t] = ParseRelation(defs[t])

IInv == TypeOK /\ CacheCurrent /\ EventNamesRow
----------------------------------------------------------------------------
(* The steps *)

LEMMA CacheStep ==
    ASSUME TypeOK, CacheCurrent, Next
    PROVE  TypeOK' /\ CacheCurrent'
<1>1. CASE StartSession
  BY <1>1 DEF StartSession, TypeOK, CacheCurrent
<1>2. CASE EndSession
  BY <1>2 DEF EndSession, TypeOK, CacheCurrent, Nothing
<1>3. CASE Alter
  BY <1>3 DEF Alter, TypeOK, CacheCurrent, Nothing
<1>4. ASSUME NEW t \in Tables, Describe(t) PROVE TypeOK' /\ CacheCurrent'
  <2>1. /\ DOMAIN relation_cache' = DOMAIN relation_cache \cup {t}
        /\ relation_cache'[t] = ParseRelation(defs[t])
        /\ \A s \in DOMAIN relation_cache \ {t} : relation_cache'[s] = relation_cache[s]
    BY <1>4 DEF Describe, CacheRelation
  <2>2. /\ described' = described \cup {t} /\ last' = Nothing
        /\ UNCHANGED <<session, defs>>
    BY <1>4 DEF Describe
  <2>3. TypeOK'
    BY <2>1, <2>2 DEF TypeOK, Nothing
  <2>4. CacheCurrent'
    BY <2>1, <2>2 DEF TypeOK, CacheCurrent
  <2>5. QED BY <2>3, <2>4
<1>5. ASSUME NEW t \in Tables, Insert(t) \/ Update(t) \/ Delete(t) \/ Truncate(t)
      PROVE  TypeOK' /\ CacheCurrent'
  <2>1. PICK change : Handle(t, change) /\ change.op \in {"INSERT", "UPDATE", "DELETE", "TRUNCATE"}
    <3>1. CASE Insert(t)
      BY <3>1 DEF Insert
    <3>2. CASE Update(t)
      BY <3>2 DEF Update
    <3>3. CASE Delete(t)
      BY <3>3 DEF Delete
    <3>4. CASE Truncate(t)
      BY <3>4 DEF Truncate
    <3>5. QED BY <1>5, <3>1, <3>2, <3>3, <3>4
  <2>2. last'.change.op \in {"NONE", "INSERT", "UPDATE", "DELETE", "TRUNCATE"}
    BY <2>1 DEF Handle, Nothing
  <2>3. QED BY <2>1, <2>2 DEF Handle, TypeOK, CacheCurrent
<1>6. QED BY <1>1, <1>2, <1>3, <1>4, <1>5 DEF Next

(* A row message is handled with the columns of its own table. *)
LEMMA HandledCurrent ==
    ASSUME IInv, NEW t \in Tables, NEW change, Handle(t, change)
    PROVE  /\ defs[t] \in Definitions
           /\ last' = [change |-> change, event |-> EventOf(change, ParseRelation(defs[t]))]
BY DEF IInv, TypeOK, CacheCurrent, Handle

LEMMA InsertNamesRow ==
    ASSUME IInv, NEW t \in Tables, Insert(t)
    PROVE  EventNamesRow'
<1>1. PICK new \in StoredRows(defs[t]) :
         Handle(t, [op |-> "INSERT", def |-> defs[t], old |-> <<>>, new |-> new])
  BY DEF Insert
<1>2. DOMAIN new = DOMAIN defs[t].cols
  BY DEF StoredRows, Rows
<1>3. /\ last'.change = [op |-> "INSERT", def |-> defs[t], old |-> <<>>, new |-> new]
      /\ last'.event = EventOf(last'.change, ParseRelation(defs[t]))
  BY <1>1, HandledCurrent
<1>4. last'.event.data = RowObject(defs[t], new)
  <2>1. ParseInsert(InsertBody(new)) = ParseTuple(new)
    BY DEF ParseInsert, InsertBody, Tagged
  <2>2. last'.event = HandleInsert(ParseRelation(defs[t]), ParseTuple(new))
    BY <1>3, <2>1, EventOfKind
  <2>3. QED BY <1>2, <2>2, ObjectOfRow DEF HandleInsert, Event
<1>5. QED BY <1>3, <1>4 DEF EventNamesRow

LEMMA UpdateNamesRow ==
    ASSUME IInv, NEW t \in Tables, Update(t)
    PROVE  EventNamesRow'
<1>1. PICK old \in StoredRows(defs[t]), new \in SentRows(defs[t]) :
         Handle(t, [op |-> "UPDATE", def |-> defs[t], old |-> old, new |-> new])
  BY DEF Update
<1>2. DOMAIN new = DOMAIN defs[t].cols
  BY DEF SentRows, Rows
<1>3. /\ last'.change = [op |-> "UPDATE", def |-> defs[t], old |-> old, new |-> new]
      /\ last'.event = EventOf(last'.change, ParseRelation(defs[t]))
  BY <1>1, HandledCurrent
<1>4. ASSUME ~defs[t].full, ~KeyChanged(defs[t], old, new)
      PROVE  last'.event.after = RowObject(defs[t], new)
  <2>1. UpdateBody(defs[t], old, new) = << Tagged("N", new) >>
    BY <1>4 DEF UpdateBody
  <2>2. ParseUpdate(UpdateBody(defs[t], old, new)).new = ParseTuple(new)
    BY <2>1 DEF ParseUpdate, Tagged
  <2>3. last'.event = HandleUpdate(ParseRelation(defs[t]), ParseUpdate(UpdateBody(defs[t], old, new)))
    BY <1>3, EventOfKind
  <2>4. QED BY <1>2, <2>2, <2>3, ObjectOfRow DEF HandleUpdate, Event
<1>5. QED BY <1>3, <1>4 DEF EventNamesRow

LEMMA DeleteNamesRow ==
    ASSUME IInv, NEW t \in Tables, Delete(t)
    PROVE  EventNamesRow'
<1>1. PICK old \in StoredRows(defs[t]) :
         Handle(t, [op |-> "DELETE", def |-> defs[t], old |-> old, new |-> <<>>])
  BY DEF Delete
<1>2. DOMAIN old = DOMAIN defs[t].cols /\ (HasKey(defs[t]) \/ defs[t].full)
  BY DEF StoredRows, Rows, Delete
<1>3. /\ last'.change = [op |-> "DELETE", def |-> defs[t], old |-> old, new |-> <<>>]
      /\ last'.event = EventOf(last'.change, ParseRelation(defs[t]))
      /\ defs[t] \in Definitions
  BY <1>1, HandledCurrent
<1>4. last'.event = HandleDelete(ParseRelation(defs[t]), ParseDelete(DeleteBody(defs[t], old)))
  BY <1>3, EventOfKind
<1>5. \E k \in DOMAIN defs[t].cols :
         /\ defs[t].full \/ defs[t].cols[k].key
         /\ last'.event.primary = defs[t].cols[k].name
         /\ last'.event.before[last'.event.primary] = ColumnText(old[k])
  BY <1>2, <1>3, <1>4, DeleteNamesKey, DefinitionsAssumption
<1>6. QED BY <1>3, <1>5 DEF EventNamesRow

LEMMA Inductive == Spec => []IInv
<1>1. Init => IInv
  <2>1. Init => TypeOK /\ CacheCurrent
    <3>1. DOMAIN [t \in {} |-> {}] = {}
      OBVIOUS
    <3>2. Nothing.change.op = "NONE"
      BY DEF Nothing
    <3>3. QED BY <3>1, <3>2 DEF Init, TypeOK, CacheCurrent
  <2>2. Init => EventNamesRow
    BY DEF Init, EventNamesRow, Nothing
  <2>3. QED BY <2>1, <2>2 DEF IInv
<1>2. ASSUME IInv, [Next]_vars PROVE IInv'
  <2>1. CASE UNCHANGED vars
    BY <1>2, <2>1 DEF vars, IInv, TypeOK, CacheCurrent, EventNamesRow
  <2>2. CASE Next
    <3>1. TypeOK' /\ CacheCurrent'
      BY <1>2, <2>2, CacheStep DEF IInv
    <3>2. EventNamesRow'
      <4>1. CASE StartSession
        BY <1>2, <4>1 DEF StartSession, IInv, EventNamesRow
      <4>2. ASSUME last' = Nothing PROVE EventNamesRow'
        BY <4>2 DEF EventNamesRow, Nothing
      <4>3. CASE EndSession \/ Alter \/ \E t \in Tables : Describe(t)
        BY <4>2, <4>3 DEF EndSession, Alter, Describe
      <4>4. ASSUME NEW t \in Tables, Truncate(t) PROVE EventNamesRow'
        <5>1. last'.change.op = "TRUNCATE"
          BY <1>2, <4>4, HandledCurrent DEF Truncate
        <5>2. QED BY <5>1 DEF EventNamesRow
      <4>5. ASSUME NEW t \in Tables, Insert(t) \/ Update(t) \/ Delete(t) PROVE EventNamesRow'
        BY <1>2, <4>5, InsertNamesRow, UpdateNamesRow, DeleteNamesRow
      <4>6. QED BY <2>2, <4>1, <4>3, <4>4, <4>5 DEF Next
    <3>3. QED BY <3>1, <3>2 DEF IInv
  <2>3. QED BY <1>2, <2>1, <2>2
<1>3. QED BY <1>1, <1>2, PTL DEF Spec
----------------------------------------------------------------------------
(* The position asked for.  Both readings of a text go over its digits     *)
(* from the left; the gap between them only widens on the way.             *)

LEMMA NumbersDef ==
    ASSUME NEW base \in Nat, NEW digits \in Seq(0 .. 15)
    PROVE  /\ Numbers(base, digits) \in [0 .. Len(digits) -> Nat]
           /\ Numbers(base, digits)[0] = 0
           /\ \A i \in 1 .. Len(digits) :
                 /\ digits[i] \in 0 .. 15
                 /\ Numbers(base, digits)[i] = Numbers(base, digits)[i - 1] * base + digits[i]
<1> DEFINE Upto(f, k) == /\ f \in [0 .. k -> Nat] /\ f[0] = 0
                         /\ \A i \in 1 .. k : f[i] = f[i - 1] * base + digits[i]
           Bad == {k \in 0 .. Len(digits) : ~ \E f : Upto(f, k)}
<1>1. Len(digits) \in Nat /\ \A i \in 1 .. Len(digits) : digits[i] \in 0 .. 15 /\ digits[i] \in Nat
  OBVIOUS
<1> HIDE DEF Upto
<1>2. Bad = {}
  <2> SUFFICES ASSUME Bad # {} PROVE FALSE
    OBVIOUS
  <2>1. PICK k \in Bad : \A j \in Bad : k <= j
    <3>1. Bad \subseteq Nat
      OBVIOUS
    <3> HIDE DEF Bad
    <3>2. QED BY <3>1, FirstExists
  <2>2. CASE k = 0
    <3>1. Upto([i \in 0 .. 0 |-> 0], 0)
      BY DEF Upto
    <3>2. QED BY <2>1, <2>2, <3>1
  <2>3. CASE k # 0
    <3>1. k \in Nat /\ k - 1 \in 0 .. Len(digits) /\ k \in 1 .. Len(digits) /\ ~(k <= k - 1)
      BY <1>1, <2>1, <2>3
    <3>2. PICK f : Upto(f, k - 1)
      <4>1. k - 1 \notin Bad
        BY <2>1, <3>1
      <4>2. QED BY <3>1, <4>1
    <3> DEFINE g == [i \in 0 .. k |-> IF i = k THEN f[k - 1] * base + digits[k] ELSE f[i]]
    <3>3. f[k - 1] * base + digits[k] \in Nat
      <4>1. f[k - 1] \in Nat /\ digits[k] \in Nat
        BY <1>1, <3>1, <3>2 DEF Upto
      <4>2. f[k - 1] * base \in Nat
        BY <4>1
      <4>3. QED BY <4>1, <4>2
    <3>4. g \in [0 .. k -> Nat] /\ g[0] = 0 /\ g[k] = f[k - 1] * base + digits[k]
      BY <3>1, <3>2, <3>3 DEF Upto
    <3>5. \A i \in 0 .. k - 1 : g[i] = f[i]
      BY <3>1
    <3> HIDE DEF g
    <3>6. Upto(g, k)
      <4>1. ASSUME NEW i \in 1 .. k PROVE g[i] = g[i - 1] * base + digits[i]
        <5>1. CASE i = k
          <6>1. k - 1 \in 0 .. k - 1
            BY <3>1
          <6>2. g[k - 1] = f[k - 1]
            BY <3>5, <6>1
          <6>3. QED BY <3>4, <5>1, <6>2
        <5>2. CASE i # k
          <6>1. i \in 1 .. k - 1 /\ i \in 0 .. k - 1 /\ i - 1 \in 0 .. k - 1
            BY <3>1, <5>2
          <6>2. f[i] = f[i - 1] * base + digits[i]
            BY <3>2, <6>1 DEF Upto
          <6>3. QED BY <3>5, <6>1, <6>2
        <5>3. QED BY <5>1, <5>2
      <4>2. QED BY <3>4, <4>1 DEF Upto
    <3>7. QED BY <2>1, <3>6
  <2>4. QED BY <2>2, <2>3
<1>3. PICK f : Upto(f, Len(digits))
  <2>1. Len(digits) \in 0 .. Len(digits)
    BY <1>1
  <2>2. Len(digits) \notin Bad
    BY <1>2
  <2> QED BY <2>1, <2>2
<1>4. f = [i \in 0 .. Len(digits) |-> IF i = 0 THEN 0 ELSE f[i - 1] * base + digits[i]]
  BY <1>1, <1>3 DEF Upto
<1>5. Numbers(base, digits) =
        [i \in 0 .. Len(digits) |->
            IF i = 0 THEN 0 ELSE Numbers(base, digits)[i - 1] * base + digits[i]]
  BY <1>4 DEF Numbers
<1> DEFINE n == Numbers(base, digits)
           max == Len(digits)
<1> HIDE DEF n
<1>6. n = [i \in 0 .. max |-> IF i = 0 THEN 0 ELSE n[i - 1] * base + digits[i]]
  BY <1>5 DEF n
<1> HIDE DEF max
<1>7. /\ max \in Nat /\ 0 \in 0 .. max
      /\ \A i \in 1 .. max : /\ i \in 0 .. max /\ i # 0 /\ i - 1 \in 0 .. max
                             /\ digits[i] \in Nat /\ digits[i] \in 0 .. 15
  BY <1>1 DEF max
<1>8. n[0] = 0 /\ \A i \in 1 .. max : n[i] = n[i - 1] * base + digits[i]
  BY <1>6, <1>7
<1>9. n \in [0 .. max -> Nat]
  <2> DEFINE Off == {i \in 0 .. max : n[i] \notin Nat}
  <2> SUFFICES Off = {}
    BY <1>6
  <2> SUFFICES ASSUME Off # {} PROVE FALSE
    OBVIOUS
  <2>1. PICK i \in Off : \A j \in Off : i <= j
    <3>1. Off \subseteq Nat
      OBVIOUS
    <3> HIDE DEF Off
    <3>2. QED BY <3>1, FirstExists
  <2>2. i \in 1 .. max /\ i - 1 \in 0 .. max /\ ~(i <= i - 1)
    BY <1>7, <1>8, <2>1
  <2>3. n[i - 1] \in Nat /\ digits[i] \in Nat
    BY <1>7, <2>1, <2>2
  <2>4. n[i - 1] * base \in Nat
    BY <2>3
  <2>5. n[i] \in Nat
    BY <1>8, <2>2, <2>3, <2>4
  <2>6. QED BY <2>1, <2>5
<1>10. QED BY <1>7, <1>8, <1>9 DEF n, max

LEMMA TenthLess == \A m \in Nat : /\ m \div 10 \in Nat /\ m % 10 \in 0 .. 9
                                  /\ m = 10 * (m \div 10) + (m % 10)
                                  /\ m >= 10 => m \div 10 < m
  OBVIOUS

LEMMA ReadAsHexDef ==
    /\ ReadAsHex \in [0 .. HalfLimit - 1 -> Nat]
    /\ \A m \in 0 .. HalfLimit - 1 :
          ReadAsHex[m] = IF m < 10 THEN m ELSE ReadAsHex[m \div 10] * 16 + (m % 10)
<1> DEFINE Upto(f, k) ==
        /\ f \in [0 .. k -> Nat]
        /\ \A m \in 0 .. k : f[m] = IF m < 10 THEN m ELSE f[m \div 10] * 16 + (m % 10)
           max == HalfLimit - 1
           Bad == {k \in 0 .. max : ~ \E f : Upto(f, k)}
<1>1. max \in Nat
  BY WidthAssumption
<1> HIDE DEF Upto, max
<1>2. Bad = {}
  <2> SUFFICES ASSUME Bad # {} PROVE FALSE
    OBVIOUS
  <2>1. PICK k \in Bad : \A j \in Bad : k <= j
    <3>1. Bad \subseteq Nat
      BY <1>1
    <3> HIDE DEF Bad
    <3>2. QED BY <3>1, FirstExists
  <2>2. CASE k = 0
    <3>1. Upto([m \in 0 .. 0 |-> 0], 0)
      BY DEF Upto
    <3>2. QED BY <2>1, <2>2, <3>1
  <2>3. CASE k # 0
    <3>1. k \in Nat /\ k - 1 \in 0 .. max /\ ~(k <= k - 1)
      BY <1>1, <2>1, <2>3
    <3>2. PICK f : Upto(f, k - 1)
      <4>1. k - 1 \notin Bad
        BY <2>1, <3>1
      <4>2. QED BY <3>1, <4>1
    <3> DEFINE value == IF k < 10 THEN k ELSE f[k \div 10] * 16 + (k % 10)
               g == [m \in 0 .. k |-> IF m = k THEN value ELSE f[m]]
    <3>3. value \in Nat
      <4>1. ASSUME k >= 10 PROVE f[k \div 10] \in Nat /\ k % 10 \in Nat
        BY <3>1, <3>2, <4>1, TenthLess DEF Upto
      <4>2. QED BY <3>1, <4>1
    <3> HIDE DEF value
    <3>4. g \in [0 .. k -> Nat] /\ g[k] = value
      BY <3>1, <3>2, <3>3 DEF Upto
    <3>5. \A m \in 0 .. k - 1 : g[m] = f[m]
      BY <3>1
    <3> HIDE DEF g
    <3>6. ASSUME NEW m \in 0 .. k
          PROVE  g[m] = IF m < 10 THEN m ELSE g[m \div 10] * 16 + (m % 10)
      <4>1. m >= 10 => g[m \div 10] = f[m \div 10]
        <5>1. m >= 10 => m \div 10 \in 0 .. k - 1
          BY <3>1, TenthLess
        <5>2. QED BY <3>5, <5>1
      <4>2. CASE m = k
        BY <3>1, <3>4, <4>1, <4>2 DEF value
      <4>3. CASE m # k
        <5>1. m \in 0 .. k - 1
          BY <3>1, <4>3
        <5>2. f[m] = IF m < 10 THEN m ELSE f[m \div 10] * 16 + (m % 10)
          BY <3>2, <5>1 DEF Upto
        <5>3. QED BY <3>1, <3>5, <4>1, <5>1, <5>2
      <4>4. QED BY <4>2, <4>3
    <3>7. Upto(g, k)
      BY <3>4, <3>6 DEF Upto
    <3>8. QED BY <2>1, <3>7
  <2>4. QED BY <2>2, <2>3
<1>3. PICK f : Upto(f, max)
  <2>1. max \in 0 .. max /\ max \notin Bad
    BY <1>1, <1>2
  <2>2. QED BY <2>1
<1>4. f = [m \in 0 .. HalfLimit - 1 |->
              IF m < 10 THEN m ELSE f[m \div 10] * 16 + (m % 10)]
  BY <1>3 DEF Upto, max
<1>5. ReadAsHex = [m \in 0 .. HalfLimit - 1 |->
              IF m < 10 THEN m ELSE ReadAsHex[m \div 10] * 16 + (m % 10)]
  BY <1>4 DEF ReadAsHex
<1> DEFINE h == ReadAsHex
<1> HIDE DEF h
<1>6. h = [m \in 0 .. max |-> IF m < 10 THEN m ELSE h[m \div 10] * 16 + (m % 10)]
  BY <1>5 DEF h, max
<1>7. h \in [0 .. max -> Nat]
  <2> DEFINE Off == {m \in 0 .. max : h[m] \notin Nat}
  <2> SUFFICES Off = {}
    BY <1>6
  <2> SUFFICES ASSUME Off # {} PROVE FALSE
    OBVIOUS
  <2>1. PICK m \in Off : \A j \in Off : m <= j
    <3>1. Off \subseteq Nat
      BY <1>1
    <3> HIDE DEF Off
    <3>2. QED BY <3>1, FirstExists
  <2>2. h[m] = IF m < 10 THEN m ELSE h[m \div 10] * 16 + (m % 10)
    BY <1>6, <2>1
  <2>3. m \in Nat /\ (m >= 10 => m \div 10 \in 0 .. max /\ ~(m <= m \div 10))
    BY <1>1, <2>1, TenthLess
  <2>4. m >= 10 => h[m \div 10] \in Nat /\ m % 10 \in Nat
    BY <2>1, <2>3, TenthLess
  <2>5. h[m] \in Nat
    BY <2>2, <2>3, <2>4
  <2>6. QED BY <2>1, <2>5
<1>8. QED BY <1>6, <1>7 DEF h, max

LEMMA DigitAdds == \A a \in Nat, b \in Nat, d \in 0 .. 15 : b = a * 16 + d => a <= b
  OBVIOUS

(* Read in base 16, the first digits of a text make no more than all of    *)
(* them do, and at least what they make in base 10.                        *)
LEMMA LongerIsMore ==
    ASSUME NEW digits \in Seq(0 .. 15), NEW i \in 0 .. Len(digits)
    PROVE  Numbers(16, digits)[i] <= Numbers(16, digits)[Len(digits)]
<1> DEFINE n == Numbers(16, digits)
           max == Len(digits)
<1>1. /\ max \in Nat /\ n \in [0 .. max -> Nat]
      /\ \A j \in 1 .. max : n[j] = n[j - 1] * 16 + digits[j] /\ digits[j] \in 0 .. 15
  <2>1. 16 \in Nat
    OBVIOUS
  <2>2. QED BY <2>1, NumbersDef
<1>2. i \in 0 .. max
  OBVIOUS
<1> HIDE DEF n, max
<1> DEFINE Bad == {d \in Nat : d <= max /\ n[max - d] > n[max]}
<1>3. Bad = {}
  <2> SUFFICES ASSUME Bad # {} PROVE FALSE
    OBVIOUS
  <2>1. PICK d \in Bad : \A j \in Bad : d <= j
    <3>1. Bad \subseteq Nat
      OBVIOUS
    <3> HIDE DEF Bad
    <3>2. QED BY <3>1, FirstExists
  <2>2. d \in Nat /\ d <= max /\ n[max - d] > n[max]
    BY <2>1
  <2>3. d # 0 /\ d - 1 \in Nat /\ d - 1 <= max /\ ~(d <= d - 1)
    <3>1. d # 0
      <4>1. max - 0 = max /\ n[max] \in Nat
        BY <1>1
      <4>2. ~(n[max - 0] > n[max])
        BY <4>1
      <4>3. QED BY <2>2, <4>2
    <3>2. QED BY <1>1, <2>2, <3>1
  <2>4. ~(n[max - (d - 1)] > n[max])
    BY <2>1, <2>3
  <2> DEFINE j == max - (d - 1)
  <2>5. j \in 1 .. max /\ j \in 0 .. max /\ j - 1 = max - d /\ j - 1 \in 0 .. max
        /\ max \in 0 .. max
    BY <1>1, <2>2, <2>3
  <2>6. n[j] = n[j - 1] * 16 + digits[j] /\ digits[j] \in 0 .. 15
    BY <1>1, <2>5
  <2>7. n[j] \in Nat /\ n[j - 1] \in Nat /\ n[max] \in Nat
    BY <1>1, <2>5
  <2> HIDE DEF j
  <2>8. n[j - 1] <= n[j]
    BY <2>6, <2>7, DigitAdds
  <2>9. ~(n[j] > n[max]) /\ n[j - 1] > n[max]
    BY <2>2, <2>4, <2>5 DEF j
  <2>10. QED BY <2>7, <2>8, <2>9
<1>4. max - i \in Nat /\ max - i <= max /\ max - (max - i) = i /\ i \in 0 .. max /\ max \in 0 .. max
  BY <1>1, <1>2
<1>5. ~(n[i] > n[max])
  BY <1>3, <1>4
<1>6. n[i] \in Nat /\ n[max] \in Nat
  BY <1>1, <1>4
<1>7. QED BY <1>5, <1>6 DEF n, max

LEMMA LeadingDigits ==
    ASSUME NEW p \in Nat, NEW q \in Nat, NEW r \in 0 .. 9, NEW d \in 0 .. 9, NEW a \in Nat,
           p = 10 * q + r, p <= a * 10 + d
    PROVE  q <= a
OBVIOUS

LEMMA GapGrows ==
    ASSUME NEW p \in Nat, NEW q \in Nat, NEW r \in 0 .. 9, p = 10 * q + r,
           NEW d \in 0 .. 9, NEW a \in Nat, NEW x \in Nat, x = a * 10 + d,
           NEW b \in Nat, NEW y \in Nat, y = b * 16 + d,
           NEW h \in Nat, NEW g \in Nat, g = h * 16 + r,
           q <= a, h + (a - q) <= b
    PROVE  g + (x - p) <= y
OBVIOUS

(* As far as the digits are decimal, a number no larger than theirs in     *)
(* base 10 reads as one no larger than theirs in base 16, and the distance *)
(* to theirs only grows.                                                   *)
LEMMA ReadingsPart ==
    ASSUME NEW digits \in Seq(0 .. 15), NEW i \in 0 .. Len(digits),
           \A j \in 1 .. i : digits[j] <= 9,
           NEW m \in 0 .. HalfLimit - 1, m <= Numbers(10, digits)[i]
    PROVE  ReadAsHex[m] + (Numbers(10, digits)[i] - m) <= Numbers(16, digits)[i]
<1> DEFINE x == Numbers(10, digits)
           y == Numbers(16, digits)
           max == Len(digits)
           h == ReadAsHex
           Gap(k) == \A p \in 0 .. HalfLimit - 1 : p <= x[k] => h[p] + (x[k] - p) <= y[k]
<1>1. /\ max \in Nat /\ x \in [0 .. max -> Nat] /\ y \in [0 .. max -> Nat]
      /\ x[0] = 0 /\ y[0] = 0
      /\ \A j \in 1 .. max : /\ x[j] = x[j - 1] * 10 + digits[j]
                             /\ y[j] = y[j - 1] * 16 + digits[j]
                             /\ digits[j] \in 0 .. 15
  <2>1. 10 \in Nat /\ 16 \in Nat
    OBVIOUS
  <2>2. QED BY <2>1, NumbersDef
<1>2. i \in 0 .. max /\ HalfLimit \in Nat \ {0}
  BY WidthAssumption
<1>3. /\ h \in [0 .. HalfLimit - 1 -> Nat]
      /\ \A p \in 0 .. HalfLimit - 1 :
            h[p] = IF p < 10 THEN p ELSE h[p \div 10] * 16 + (p % 10)
  BY ReadAsHexDef
<1> HIDE DEF x, y, max, h
<1> DEFINE Bad == {k \in 0 .. i : ~Gap(k)}
<1>4. Gap(0)
  BY <1>1, <1>2, <1>3
<1>5. ASSUME NEW k \in 1 .. i, Gap(k - 1) PROVE Gap(k)
  <2> SUFFICES ASSUME NEW p \in 0 .. HalfLimit - 1, p <= x[k]
               PROVE  h[p] + (x[k] - p) <= y[k]
    OBVIOUS
  <2>1. /\ k \in 1 .. max /\ k - 1 \in 0 .. max /\ k \in 0 .. max
        /\ digits[k] \in 0 .. 9
    <3>1. k \in 1 .. max /\ k - 1 \in 0 .. max /\ k \in 0 .. max
      BY <1>1, <1>2
    <3>2. digits[k] \in 0 .. 15 /\ digits[k] <= 9
      BY <1>1, <3>1
    <3>3. QED BY <3>1, <3>2
  <2>2. /\ x[k] = x[k - 1] * 10 + digits[k] /\ y[k] = y[k - 1] * 16 + digits[k]
        /\ x[k] \in Nat /\ y[k] \in Nat /\ x[k - 1] \in Nat /\ y[k - 1] \in Nat
    BY <1>1, <2>1
  <2> DEFINE q == IF p < 10 THEN 0 ELSE p \div 10
             r == IF p < 10 THEN p ELSE p % 10
  <2>3. q \in Nat /\ r \in 0 .. 9 /\ p = 10 * q + r /\ q <= p /\ q \in 0 .. HalfLimit - 1
    BY <1>2, TenthLess
  <2>4. h[p] = h[q] * 16 + r /\ h[q] \in Nat
    <3>1. h[0] = 0
      BY <1>2, <1>3
    <3>2. h[q] \in Nat
      BY <1>3, <2>3
    <3>3. CASE p < 10
      BY <1>3, <3>1, <3>3
    <3>4. CASE ~(p < 10)
      BY <1>3, <3>2, <3>4
    <3>5. QED BY <3>2, <3>3, <3>4
  <2>5. q <= x[k - 1]
    <3> HIDE DEF q, r
    <3>1. p \in Nat /\ p <= x[k - 1] * 10 + digits[k]
      BY <1>2, <2>2
    <3>2. QED BY <2>1, <2>2, <2>3, <3>1, LeadingDigits
  <2>6. h[q] + (x[k - 1] - q) <= y[k - 1]
    <3> HIDE DEF q
    <3>1. QED BY <1>5, <2>3, <2>5
  <2> HIDE DEF q, r
  <2>7. p \in Nat /\ h[p] \in Nat
    BY <1>2, <1>3
  <2>8. PICK g \in Nat, b \in Nat, a \in Nat, d \in 0 .. 9, y0 \in Nat, x0 \in Nat, h0 \in Nat :
           /\ g = h[p] /\ x0 = x[k] /\ y0 = y[k] /\ d = digits[k]
           /\ a = x[k - 1] /\ b = y[k - 1] /\ h0 = h[q]
    BY <2>1, <2>2, <2>4, <2>7
  <2>9. /\ p = 10 * q + r /\ x0 = a * 10 + d /\ y0 = b * 16 + d /\ g = h0 * 16 + r
        /\ q <= a /\ h0 + (a - q) <= b
    BY <2>2, <2>3, <2>4, <2>5, <2>6, <2>8
  <2>10. g + (x0 - p) <= y0
    BY <2>3, <2>7, <2>9, GapGrows
  <2>11. QED BY <2>8, <2>10
<1> HIDE DEF Gap
<1>6. Bad = {}
  <2> SUFFICES ASSUME Bad # {} PROVE FALSE
    OBVIOUS
  <2>1. PICK k \in Bad : \A j \in Bad : k <= j
    <3>1. Bad \subseteq Nat
      OBVIOUS
    <3> HIDE DEF Bad
    <3>2. QED BY <3>1, FirstExists
  <2>2. k \in 0 .. i /\ ~Gap(k)
    BY <2>1
  <2>3. k \in 1 .. i /\ k - 1 \in 0 .. i /\ ~(k <= k - 1)
    BY <1>1, <1>2, <1>4, <2>2
  <2>4. Gap(k - 1)
    BY <2>1, <2>3
  <2>5. QED BY <1>5, <2>2, <2>3, <2>4
<1>7. i \in 0 .. i
  BY <1>1, <1>2
<1>8. Gap(i)
  BY <1>6, <1>7
<1>9. QED BY <1>8 DEF Gap, x, y, h

LEMMA LastExists ==
    ASSUME NEW N \in Nat, NEW S, S \subseteq 0 .. N, S # {}
    PROVE  Max(S) \in S /\ \A j \in S : j <= Max(S)
<1> DEFINE T == {N - j : j \in S}
<1>1. T \subseteq Nat /\ T # {}
  <2>1. \A j \in S : j \in 0 .. N
    OBVIOUS
  <2>2. \A j \in S : N - j \in Nat
    BY <2>1
  <2>3. QED BY <2>2
<1>2. PICK k \in T : \A j \in T : k <= j
  <2> HIDE DEF T
  <2>1. QED BY <1>1, FirstExists
<1>3. PICK s \in S : k = N - s
  BY <1>2
<1>4. \A j \in S : s >= j
  <2> TAKE j \in S
  <2>1. N - j \in T
    OBVIOUS
  <2>2. N - s <= N - j /\ s \in 0 .. N /\ j \in 0 .. N
    BY <1>2, <1>3, <2>1
  <2>3. QED BY <2>2
<1>5. Max(S) \in S /\ \A j \in S : Max(S) >= j
  BY <1>3, <1>4 DEF Max
<1>6. QED BY <1>5

LEMMA PrefixIsDecimal ==
    ASSUME NEW digits \in Seq(0 .. 15)
    PROVE  /\ DecimalPrefix(digits) \in 0 .. Len(digits)
           /\ \A j \in 1 .. DecimalPrefix(digits) : digits[j] <= 9
<1> DEFINE S == {i \in 0 .. Len(digits) : \A j \in 1 .. i : digits[j] <= 9}
<1>1. Len(digits) \in Nat
  OBVIOUS
<1>2. S \subseteq 0 .. Len(digits) /\ 0 \in S
  BY <1>1
<1>3. DecimalPrefix(digits) \in S
  <2>1. DecimalPrefix(digits) = Max(S)
    BY DEF DecimalPrefix
  <2> HIDE DEF S
  <2>2. QED BY <1>1, <1>2, <2>1, LastExists
<1>4. QED BY <1>3

LEMMA RestIsLess == \A n \in Nat, limit \in Nat \ {0} : n % limit \in 0 .. limit - 1 /\ n % limit <= n
  OBVIOUS

LEMMA HalfNotPast ==
    ASSUME NEW digits \in Seq(0 .. 15)
    PROVE  /\ ReadAsHex[Stoul(digits)] \in Nat
           /\ Numbers(16, digits)[Len(digits)] \in Nat
           /\ ReadAsHex[Stoul(digits)] <= Numbers(16, digits)[Len(digits)]
<1> DEFINE i == DecimalPrefix(digits)
           m == Stoul(digits)
           x == Numbers(10, digits)
           y == Numbers(16, digits)
<1>1. i \in 0 .. Len(digits) /\ \A j \in 1 .. i : digits[j] <= 9
  BY PrefixIsDecimal
<1>2. x \in [0 .. Len(digits) -> Nat] /\ y \in [0 .. Len(digits) -> Nat]
  <2>1. 10 \in Nat /\ 16 \in Nat
    OBVIOUS
  <2>2. QED BY <2>1, NumbersDef
<1>3. x[i] \in Nat /\ y[i] \in Nat /\ y[Len(digits)] \in Nat
  <2> HIDE DEF x, y, i
  <2>1. QED BY <1>1, <1>2
<1>4. m \in 0 .. HalfLimit - 1 /\ m <= x[i]
  <2>1. m = x[i] % HalfLimit
    BY DEF Stoul
  <2> HIDE DEF x, i, m
  <2>2. QED BY <1>3, <2>1, RestIsLess, WidthAssumption
<1>5. ReadAsHex[m] + (x[i] - m) <= y[i]
  <2> HIDE DEF i, m
  <2>1. QED BY <1>1, <1>4, ReadingsPart
<1>6. y[i] <= y[Len(digits)]
  <2> HIDE DEF i
  <2>1. QED BY <1>1, LongerIsMore
<1>7. ReadAsHex[m] \in Nat /\ m \in Nat
  BY <1>4, ReadAsHexDef, WidthAssumption
<1> HIDE DEF x, y, i, m
<1>8. ReadAsHex[m] <= y[Len(digits)]
  <2> DEFINE h == ReadAsHex[m]
             a == x[i]
             b == y[i]
             c == y[Len(digits)]
  <2>1. h \in Nat /\ m \in Nat /\ a \in Nat /\ b \in Nat /\ c \in Nat
    BY <1>3, <1>7
  <2>2. m <= a /\ h + (a - m) <= b /\ b <= c
    BY <1>4, <1>5, <1>6
  <2> HIDE DEF h, a, b, c
  <2>3. h <= c
    BY <2>1, <2>2
  <2>4. QED BY <2>3 DEF h, c
<1>9. QED BY <1>3, <1>7, <1>8 DEF m, y

(* Whatever position a file configures, what the producer asks for is not  *)
(* past what the text says to the server.                                  *)
LEMMA NeverPast ==
    ASSUME NEW text \in Positions
    PROVE  NotPast(RequestedLsn(text), MeantLsn(text))
<1>1. text.high \in Seq(0 .. 15) /\ text.low \in Seq(0 .. 15)
  BY DEF Positions
<1>2. CASE text.slash
  <2>1. /\ RequestedLsn(text).high = ReadAsHex[Stoul(text.high)]
        /\ RequestedLsn(text).low = ReadAsHex[Stoul(text.low)]
    BY <1>2 DEF RequestedLsn, ParseLsn
  <2>2. /\ MeantLsn(text).high = Numbers(16, text.high)[Len(text.high)]
        /\ MeantLsn(text).low = Numbers(16, text.low)[Len(text.low)]
    BY <1>2 DEF MeantLsn
  <2>3. /\ RequestedLsn(text).high \in Nat /\ MeantLsn(text).high \in Nat
        /\ RequestedLsn(text).high <= MeantLsn(text).high
        /\ RequestedLsn(text).low <= MeantLsn(text).low
    BY <1>1, <2>1, <2>2, HalfNotPast
  <2>4. QED BY <2>3 DEF NotPast
<1>3. CASE ~text.slash
  <2>1. ReadAsHex[0] = 0
    BY ReadAsHexDef, WidthAssumption
  <2>2. /\ RequestedLsn(text) = [high |-> 0, low |-> 0]
        /\ MeantLsn(text) = [high |-> 0, low |-> 0]
    BY <1>3, <2>1 DEF RequestedLsn, ParseLsn, MeantLsn
  <2>3. QED BY <2>2 DEF NotPast
<1>4. QED BY <1>2, <1>3

LEMMA EmptyIsPosition == EmptyText \in Positions
<1>1. <<>> \in Seq(0 .. 15)
  OBVIOUS
<1>2. QED BY <1>1 DEF EmptyText, Positions

LEMMA ValueIsPosition ==
    ASSUME NEW file \in ConfigFiles, NEW key
    PROVE  ConfigValue(file, key) \in Positions
<1> DEFINE found == {k \in DOMAIN file : file[k].pair /\ file[k].key = key}
<1>1. file \in Seq(Lines)
  BY FilesAssumption
<1>2. CASE found = {}
  BY <1>2, EmptyIsPosition DEF ConfigValue
<1>3. CASE found # {}
  <2>1. Len(file) \in Nat /\ found \subseteq 0 .. Len(file)
    BY <1>1
  <2>2. ConfigValue(file, key) = file[Max(found)].value
    BY <1>3 DEF ConfigValue
  <2>3. Max(found) \in found
    <3> HIDE DEF found
    <3>1. QED BY <1>3, <2>1, LastExists
  <2>4. Max(found) \in DOMAIN file
    BY <2>3
  <2>5. file[Max(found)] \in Lines
    <3> HIDE DEF found
    <3>1. QED BY <1>1, <2>4
  <2>6. QED BY <2>2, <2>5 DEF Lines
<1>4. QED BY <1>2, <1>3

PositionAsked == configured \in Positions /\ requested = RequestedLsn(configured)
----------------------------------------------------------------------------
(* Theorems *)

(* Theorem: TypeOK; in particular, a table the server has described in a   *)
(* session is in the parser's map, so no row message is dropped for want   *)
(* of its columns.                                                         *)
THEOREM TypeCorrect == Spec => []TypeOK
<1>1. IInv => TypeOK
  BY DEF IInv
<1>2. QED BY <1>1, Inductive, PTL

(* Theorem: EventNamesRow, for all definitions, values and sequences of    *)
(* sessions, descriptions and changes of definition.                       *)
THEOREM EventsNameRows == Spec => []EventNamesRow
<1>1. IInv => EventNamesRow
  BY DEF IInv
<1>2. QED BY <1>1, Inductive, PTL

(* Theorem: RequestedNotPastConfigured, for every configuration file and   *)
(* every width of the integers a position goes through: the digits are     *)
(* read in a smaller base, cut off at one that is not decimal, and reduced *)
(* to 32 bits, all of which make a position earlier and never later.       *)
THEOREM PositionsNeverPast == Spec => []RequestedNotPastConfigured
<1>1. Init => PositionAsked
  BY EmptyIsPosition DEF Init, PositionAsked
<1>2. PositionAsked /\ [Next]_vars => PositionAsked'
  <2> SUFFICES ASSUME PositionAsked, [Next]_vars PROVE PositionAsked'
    OBVIOUS
  <2>1. CASE StartSession
    BY <2>1, ValueIsPosition DEF StartSession, PositionAsked
  <2>2. ASSUME UNCHANGED <<configured, requested>> PROVE PositionAsked'
    BY <2>2 DEF PositionAsked
  <2>3. CASE EndSession \/ Alter \/ \E t \in Tables : Describe(t)
    BY <2>2, <2>3 DEF EndSession, Alter, Describe
  <2>4. CASE \E t \in Tables : Insert(t) \/ Update(t) \/ Delete(t) \/ Truncate(t)
    <3>1. \E t, change : Handle(t, change)
      BY <2>4 DEF Insert, Update, Delete, Truncate
    <3>2. QED BY <2>2, <3>1 DEF Handle
  <2>5. CASE UNCHANGED vars
    BY <2>2, <2>5 DEF vars
  <2>6. QED BY <2>1, <2>3, <2>4, <2>5 DEF Next
<1>3. PositionAsked => RequestedNotPastConfigured
  BY NeverPast DEF PositionAsked, RequestedNotPastConfigured
<1>4. QED BY <1>1, <1>2, <1>3, PTL DEF Spec
====
