---- MODULE LsnConfig ----
(***************************************************************************)
(* The position the producer asks for at its start: ConfigManager::load    *)
(* and parseLSN of producer_azs/config_manager.cpp, and the query          *)
(* startReplicationAll builds from the result.  PostgreSQL writes and      *)
(* reads both halves of a position in hexadecimal; std::stoul and          *)
(* std::to_string are decimal.                                             *)
(*                                                                         *)
(* A configured position is [slash, high, low]: whether the text has a     *)
(* slash, and the digits 0 .. 15 on its two sides.  A line of the file is  *)
(* [pair, key, value]; one that is empty, a comment, or without a key and  *)
(* an equals sign is no pair.                                              *)
(***************************************************************************)
EXTENDS Integers, Sequences, FiniteSetsExt

CONSTANTS
    HalfLimit,  \* the first number a uint32_t cannot hold
    LongLimit   \* the first number an unsigned long cannot hold

ASSUME WidthAssumption == HalfLimit \in Nat \ {0} /\ LongLimit \in Nat

Positions == [slash : BOOLEAN, high : Seq(0 .. 15), low : Seq(0 .. 15)]
Lines == [pair : BOOLEAN, key : STRING, value : Positions]

(* The text of an entry with nothing behind the equals sign. *)
EmptyText == [slash |-> FALSE, high |-> <<>>, low |-> <<>>]

(* load keeps the last value of a key; getValueByKeyFromConfig returns ""  *)
(* for a key that is not there.                                            *)
ConfigValue(file, key) ==
    LET found == {k \in DOMAIN file : file[k].pair /\ file[k].key = key} IN
        IF found = {} THEN EmptyText ELSE file[Max(found)].value

(* The number the first i digits write, for every i. *)
Numbers(base, digits) ==
    LET n[i \in 0 .. Len(digits)] ==
            IF i = 0 THEN 0 ELSE n[i - 1] * base + digits[i]
    IN  n

(* std::stoul reads the digits up to the first that is not decimal, and    *)
(* throws if there is none or the number is too large.                     *)
DecimalPrefix(digits) ==
    Max({i \in 0 .. Len(digits) : \A j \in 1 .. i : digits[j] <= 9})

StoulThrows(digits) ==
    \/ DecimalPrefix(digits) = 0
    \/ Numbers(10, digits)[DecimalPrefix(digits)] >= LongLimit

(* Mutated form of Stoul: base 16, as the server writes a position. *)
StoulHex(digits) == Numbers(16, digits)[Len(digits)] % HalfLimit

(* The result, as parseLSN stores it. *)
Stoul(digits) == Numbers(10, digits)[DecimalPrefix(digits)] % HalfLimit

ParseThrows(text) == text.slash /\ (StoulThrows(text.high) \/ StoulThrows(text.low))

(* parseLSN. *)
ParseLsn(text) ==
    IF text.slash
    THEN [high |-> Stoul(text.high), low |-> Stoul(text.low)]
    ELSE [high |-> 0, low |-> 0]

(* std::to_string on the way out and the server's reading on the way in:   *)
(* the number whose hexadecimal digits are the decimal digits of m.        *)
ReadAsHex[m \in 0 .. HalfLimit - 1] ==
    IF m < 10 THEN m ELSE ReadAsHex[m \div 10] * 16 + (m % 10)

(* The position START_REPLICATION names. *)
RequestedLsn(text) ==
    LET lsn == ParseLsn(text) IN
        [high |-> ReadAsHex[lsn.high], low |-> ReadAsHex[lsn.low]]

(* What the text says to the server that wrote it. *)
MeantLsn(text) ==
    IF text.slash
    THEN [high |-> Numbers(16, text.high)[Len(text.high)],
          low |-> Numbers(16, text.low)[Len(text.low)]]
    ELSE [high |-> 0, low |-> 0]

NotPast(a, b) == a.high < b.high \/ (a.high = b.high /\ a.low <= b.low)
====
