---- MODULE MCProducer ----
(***************************************************************************)
(* Instances of Producer for TLC.                                          *)
(***************************************************************************)
EXTENDS Producer, TLC

CONSTANTS ta, tb   \* model values: two tables

Msg(kind, lsn, a, b) ==
    [kind |-> kind, lsn |-> lsn, schema |-> (ta :> a @@ tb :> b)]



(* Two transactions that overlap in the WAL: the second begins before the  *)
(* first commits, so acknowledging its first row moves the position back.  *)
(* Between its rows the definition of ta changes.                          *)
MCStream == <<
    Msg("B", 1, 0, 0), Msg("I", 2, 1, 0), Msg("C", 5, 0, 0),
    Msg("B", 3, 0, 0), Msg("U", 4, 1, 0), Msg("D", 6, 2, 0),
    Msg("T", 7, 2, 1), Msg("C", 8, 0, 0) >>

(* The same overlap and the same change of ta's definition, with one row   *)
(* per transaction, for the liveness properties.                           *)
MCShortStream == <<
    Msg("B", 1, 0, 0), Msg("I", 2, 1, 0), Msg("C", 5, 0, 0),
    Msg("B", 3, 0, 0), Msg("U", 4, 2, 0), Msg("C", 8, 0, 0) >>

(* A transaction on a table with a user-defined type, and one with a       *)
(* replication origin.                                                     *)
MCPoisonStream == <<
    Msg("B", 1, 0, 0), Msg("I", 2, 1, 0), Msg("C", 3, 0, 0),
    Msg("B", 4, 0, 0), Msg("D", 5, 0, 1), Msg("C", 6, 0, 0),
    Msg("B", 0, 0, 0), Msg("O", 7, 0, 0), Msg("I", 8, 1, 0), Msg("C", 9, 0, 0) >>
====
