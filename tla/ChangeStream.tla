---- MODULE ChangeStream ----
(***************************************************************************)
(* The logical-decoding output the producer consumes: the sequence of      *)
(* pgoutput messages PostgreSQL decodes for the slot, in commit order.     *)
(* The database is outside the repository; its output is a constant here,  *)
(* described as far as producer_azs/ depends on it.  'R' and 'Y' messages  *)
(* are not in the sequence: the walsender adds them per session            *)
(* (LogicalSlot).                                                          *)
(***************************************************************************)
EXTENDS Integers, Sequences

CONSTANTS
    Relations,    \* the published tables
    Stream,       \* the decoded messages, in commit order
    CustomTyped   \* tables with a column of a user-defined type

(* B begin, C commit, I insert, U update, D delete, T truncate, and O for  *)
(* any kind parseMessage has no case for (an origin, a logical message).   *)
Kinds == {"B", "C", "I", "U", "D", "T", "O"}
RowKinds == {"I", "U", "D"}

Index == 1 .. Len(Stream)

(* lsn is the walEnd of the 'w' header; schema[r] is the version of table  *)
(* r's definition the message was decoded under, 0 when it does not touch  *)
(* r.  A commit's lsn is its end-of-transaction lsn and exceeds the lsn of *)
(* all that is streamed before it.  Other messages are not monotone:       *)
(* concurrent transactions interleave in the WAL.                          *)
ASSUME StreamAssumption ==
    /\ Stream \in Seq([kind : Kinds, lsn : Nat, schema : [Relations -> Nat]])
    /\ \A i \in Index : Stream[i].kind = "C" => Stream[i].lsn > 0
    /\ \A i, j \in Index :
          i < j /\ Stream[j].kind = "C" => Stream[i].lsn < Stream[j].lsn
    /\ \A i \in Index :
          Stream[i].kind \in RowKinds =>
             \E r \in Relations : \A q \in Relations : Stream[i].schema[q] > 0 <=> q = r
    /\ \A i \in Index :
          Stream[i].kind \in {"B", "C", "O"} => \A r \in Relations : Stream[i].schema[r] = 0
    /\ CustomTyped \subseteq Relations

IsRow(i) == Stream[i].kind \in RowKinds
IsCommit(i) == Stream[i].kind = "C"

(* What the producer has to turn into a Kafka message. *)
Changes == {i \in Index : Stream[i].kind \in RowKinds \cup {"T"}}

Touches(i, r) == Stream[i].schema[r] # 0

(* The messages parsePacket cannot get past: parseMessage has no case for  *)
(* them, or for the 'Y' message that precedes the description of a table   *)
(* with a user-defined type.                                               *)
Poison(i) ==
    \/ Stream[i].kind = "O"
    \/ \E r \in CustomTyped : Touches(i, r)
====
