---- MODULE MCConsumer ----
(***************************************************************************)
(* Instances of Consumer for TLC.                                          *)
(***************************************************************************)
EXTENDS Consumer

MCMessages == 1 .. TopicLen
====
