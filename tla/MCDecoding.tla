---- MODULE MCDecoding ----
(***************************************************************************)
(* Instances of Decoding for TLC: definitions of one table with a key in   *)
(* front, with another column in front of the key, with a composite key,   *)
(* and with REPLICA IDENTITY FULL and no key; and positions with decimal   *)
(* digits, with hexadecimal ones at either end, without a slash, and with  *)
(* a half that does not fit 32 bits or the parser's integer, which hold    *)
(* three and four decimal digits here.                                     *)
(***************************************************************************)
EXTENDS Decoding, TLC

Column(name, key) == [name |-> name, key |-> key]
Definition(full, cols) == [schema |-> "public", name |-> "T", full |-> full, cols |-> cols]

MCDefinitions ==
    { Definition(FALSE, <<Column("id", TRUE), Column("v", FALSE)>>),
      Definition(FALSE, <<Column("w", FALSE), Column("id", TRUE)>>),
      Definition(FALSE, <<Column("id", TRUE), Column("v", TRUE)>>),
      Definition(TRUE, <<Column("v", FALSE), Column("w", FALSE)>>) }

Position(high, low) == [slash |-> TRUE, high |-> high, low |-> low]

MCPositions ==
    { Position(high, low) : high \in {<<0>>, <<1, 10>>, <<10>>},
                            low \in {<<9, 9>>, <<2, 10, 5>>, <<1, 0, 0, 5>>, <<>>} }
    \cup { Position(<<9, 0, 1, 2, 3>>, <<0>>), EmptyText, [slash |-> FALSE, high |-> <<1, 2>>, low |-> <<>>] }

TableSymmetry == Permutations(Tables)

Line(key, value) == [pair |-> TRUE, key |-> key, value |-> value]
Comment == [pair |-> FALSE, key |-> "", value |-> EmptyText]

MCConfigFiles ==
    { <<Comment, Line("RESTART_LSN", p)>> : p \in MCPositions }
    \cup { <<>>, <<Line("OTHER", Position(<<9>>, <<9>>))>>,
           <<Line("RESTART_LSN", Position(<<9>>, <<9>>)), Line("RESTART_LSN", EmptyText)>> }
====
