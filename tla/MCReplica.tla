---- MODULE MCReplica ----
(***************************************************************************)
(* Instances of Replica for TLC.                                           *)
(***************************************************************************)
EXTENDS Replica

MCMessages == 1 .. TopicLen

Column(name, key) == [name |-> name, key |-> key]
Definition(schema, name, full, cols) ==
    [schema |-> schema, name |-> name, full |-> full, cols |-> cols]

MCFold == [name \in {"T", "t", "p", "f", "user"} |-> IF name = "T" THEN "t" ELSE name]

(* Two apostrophes stand for one, and a condition can hold of every row.   *)
MCMisread(row, column, text) ==
    \/ text = "o''c" /\ row[column] = "o'c"
    \/ text = "all'rows"

(* T has its key behind another column; t of another schema is taken for   *)
(* it; Wide is T with a column more; Pair has a composite key.             *)
T == Definition("a", "T", FALSE, <<Column("v", FALSE), Column("id", TRUE)>>)
Other == Definition("b", "t", FALSE, <<Column("v", FALSE), Column("id", TRUE)>>)
Wide == Definition("a", "T", FALSE,
            <<Column("v", FALSE), Column("id", TRUE), Column("w", FALSE)>>)
Pair == Definition("a", "p", FALSE, <<Column("id", TRUE), Column("v", TRUE)>>)
Whole == Definition("a", "f", TRUE, <<Column("v", FALSE), Column("w", FALSE)>>)
User == Definition("a", "user", FALSE, <<Column("id", TRUE)>>)

Insert(def, row) == [op |-> "INSERT", def |-> def, old |-> <<>>, new |-> row]
Delete(def, row) == [op |-> "DELETE", def |-> def, old |-> row, new |-> <<>>]
Update(def, old, new) == [op |-> "UPDATE", def |-> def, old |-> old, new |-> new]
Truncate(def) == [op |-> "TRUNCATE", def |-> def, old |-> <<>>, new |-> <<>>]

(* Two rows of T that come and go, A first, in every legal order that ends *)
(* with a delete.                                                          *)
A == <<"x", "1">>
B == <<Null, "2">>
Steps == {Insert(T, A), Insert(T, B), Delete(T, A), Delete(T, B)}
Legal(h) ==
    /\ h[1] = Insert(T, A) /\ h[TopicLen].op = "DELETE"
    /\ \A row \in {A, B} :
        LET events == SelectSeq(h, LAMBDA c : row \in {c.old, c.new}) IN
            \A k \in DOMAIN events : events[k].op = IF k % 2 = 1 THEN "INSERT" ELSE "DELETE"

MCTopics ==
    {h \in [1 .. TopicLen -> Steps] : Legal(h)}
    \cup { <<Insert(T, A), Insert(T, A), Delete(T, A), Insert(T, B)>>,
           <<Insert(T, A), Insert(Other, A), Delete(Other, A), Insert(T, B)>>,
           <<Insert(T, A), Insert(Wide, <<"x", "2", "y">>), Insert(T, B), Delete(T, A)>>,
           <<Insert(Wide, <<"x", "2", "y">>), Insert(T, A), Delete(T, A), Truncate(T)>>,
           <<Insert(Pair, <<"1", "x">>), Insert(Pair, <<"1", "y">>),
             Delete(Pair, <<"1", "x">>), Insert(Pair, <<"2", "x">>)>>,
           <<Insert(Whole, <<Null, "x">>), Insert(Whole, <<Null, "y">>),
             Delete(Whole, <<Null, "x">>), Delete(Whole, <<Null, "y">>)>>,
           <<Insert(User, <<"1">>), Insert(T, A), Update(T, A, <<"y", "1">>), Delete(User, <<"1">>)>>,
           <<Delete(T, A), Insert(T, <<"x", "o'c">>), Delete(T, <<"x", "o'c">>), Insert(T, A)>>,
           <<Insert(T, <<"x", "o'c">>), Insert(T, <<"x", "o''c">>),
             Delete(T, <<"x", "o''c">>), Insert(T, A)>>,
           <<Insert(T, A), Insert(T, <<"x", "all'rows">>),
             Delete(T, <<"x", "all'rows">>), Insert(T, B)>> }
====
