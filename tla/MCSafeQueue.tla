---- MODULE MCSafeQueue ----
(***************************************************************************)
(* Instances of SafeQueue for TLC: the threads and messages are model      *)
(* values.                                                                 *)
(***************************************************************************)
EXTENDS SafeQueue

CONSTANTS p1, p2, p3, c1, c2, c3, m1, m2
====
