---- MODULE MCReplication ----
(***************************************************************************)
(* Instances of Replication for TLC.                                       *)
(***************************************************************************)
EXTENDS Replication, TLC

CONSTANT ta   \* a model value: the one table

Msg(kind, lsn, a) == [kind |-> kind, lsn |-> lsn, schema |-> (ta :> a)]

(* One transaction that inserts a row and deletes it. *)
MCStream == << Msg("B", 1, 0), Msg("I", 2, 1), Msg("D", 3, 1), Msg("C", 4, 0) >>
====
