------------------------------- MODULE Varint -------------------------------
(***************************************************************************)
(* The variable-length integers of the changeset format (varint.go), for   *)
(* the 32-bit numbers PutVarint takes: septets, the most significant       *)
(* first, all but the last with the high bit set.  A byte is a number      *)
(* below 256 and a buffer a sequence of bytes, read at an offset from 0.   *)
(*                                                                         *)
(* The forms of six to nine bytes stand for numbers no uint32 reaches and  *)
(* are never written; getVarint64 reads them, this module does not.        *)
(***************************************************************************)
EXTENDS Integers, Sequences

Byte == 0..255

\* Weight[k] is 128^(k-1).
Weight == <<1, 128, 16384, 2097152, 268435456>>

\* The bytes n takes.
VarintLength(n) ==
    IF n < 128 THEN 1
    ELSE IF n < 16384 THEN 2
    ELSE IF n < 2097152 THEN 3
    ELSE IF n < 268435456 THEN 4
    ELSE 5

Septet(n, k) == (n \div Weight[k]) % 128

PutVarint(n) ==
    LET len == VarintLength(n)
    IN  [i \in 1..len |-> Septet(n, len + 1 - i) + (IF i < len THEN 128 ELSE 0)]

\* What a read yields: a value and the offset after it, or nothing.
Got(value, at) == [ok |-> TRUE, value |-> value, at |-> at]
Nothing == [ok |-> FALSE]

\* The number in the len bytes of buf at offset at.
VarintValue(buf, at, len) ==
    LET Part(i) == IF i > len THEN 0 ELSE (buf[at + i] % 128) * Weight[len + 1 - i]
    IN  Part(1) + Part(2) + Part(3) + Part(4) + Part(5)

\* A varint of len bytes begins at offset at: the last of them, and no other,
\* has the high bit clear.
VarintOfLength(buf, at, len) ==
    /\ at + len <= Len(buf)
    /\ buf[at + len] < 128
    /\ \A i \in 1..(len - 1) : buf[at + i] >= 128

GetVarint(buf, at) ==
    IF \E len \in 1..5 : VarintOfLength(buf, at, len)
    THEN LET len == CHOOSE l \in 1..5 : VarintOfLength(buf, at, l)
         IN  Got(VarintValue(buf, at, len), at + len)
    ELSE Nothing
=============================================================================
