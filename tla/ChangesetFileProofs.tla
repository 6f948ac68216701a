------------------------- MODULE ChangesetFileProofs -------------------------
(***************************************************************************)
(* The properties of ChangesetFile, proved for any entries, any number of  *)
(* records, any cut and any fault.                                         *)
(*                                                                         *)
(* From the bottom up: what PutVarint writes GetVarint reads; what a file  *)
(* holds is read back from it, part by part (Held...); what is read of a   *)
(* first part of a file is what is read of the file (Same...); hence a     *)
(* file is laid out in records (Layout), the turns of a reader go from one *)
(* place between two records to the next, and of a first part they yield   *)
(* the entries that end in it (ReadOfPart).  The invariant says that both  *)
(* input files and the output are laid out so, and that the reader and the *)
(* writer are at places which belong together.                             *)
(***************************************************************************)
EXTENDS ChangesetFile, TLAPS, WellFoundedInduction, SequenceTheorems

\* The numbers a varint of the code holds.
UInt32 == {n \in Nat : n < 16 * 268435456}

\* A varint has one byte to five.
LEMMA LengthBounds == \A n : VarintLength(n) \in 1..5
  BY SMT DEF VarintLength

\* What the septets weigh.
LEMMA Weights == /\ Weight[1] = 1 /\ Weight[2] = 128 /\ Weight[3] = 16384
                 /\ Weight[4] = 2097152 /\ Weight[5] = 268435456
  BY SMT DEF Weight

\* A septet has seven bits.
LEMMA SeptetRange == ASSUME NEW n \in Nat, NEW k \in 1..5 PROVE Septet(n, k) \in 0..127
<1>1. k = 1 \/ k = 2 \/ k = 3 \/ k = 4 \/ k = 5
  BY SMT
<1>2. Weight[k] \in Nat \ {0}
  BY <1>1, Weights, SMT
<1>3. n \div Weight[k] \in Int
  BY <1>2, SMT
<1>4. \A q \in Int : q % 128 \in 0..127
  BY SMT
<1>5. QED
  BY <1>3, <1>4, SMT DEF Septet

\* A number is the sum of its septets, of as many as it is long.
LEMMA Digits ==
  ASSUME NEW n \in UInt32
  PROVE  n = (IF 1 > VarintLength(n) THEN 0 ELSE Septet(n, 1) * Weight[1])
             + (IF 2 > VarintLength(n) THEN 0 ELSE Septet(n, 2) * Weight[2])
             + (IF 3 > VarintLength(n) THEN 0 ELSE Septet(n, 3) * Weight[3])
             + (IF 4 > VarintLength(n) THEN 0 ELSE Septet(n, 4) * Weight[4])
             + (IF 5 > VarintLength(n) THEN 0 ELSE Septet(n, 5) * Weight[5])
<1> DEFINE q1 == n \div 128
           q2 == n \div 16384
           q3 == n \div 2097152
           q4 == n \div 268435456
<1>1. q1 \in Int /\ q2 \in Int /\ q3 \in Int /\ q4 \in Int /\ n \in Nat
  BY SMT DEF UInt32
<1>2. /\ n = q1 * 128 + (n % 128)
      /\ q1 = q2 * 128 + (q1 % 128)
      /\ q2 = q3 * 128 + (q2 % 128)
      /\ q3 = q4 * 128 + (q3 % 128)
      /\ q4 = q4 % 128
  BY SMTT(60) DEF UInt32
<1>3. Septet(n, 1) = n % 128
  <2>1. n \div 1 = n
    BY <1>1, SMT
  <2>2. QED
    BY <2>1, Weights, SMT DEF Septet
<1>4. /\ Septet(n, 2) = q1 % 128
      /\ Septet(n, 3) = q2 % 128
      /\ Septet(n, 4) = q3 % 128
      /\ Septet(n, 5) = q4 % 128
  BY Weights, SMT DEF Septet
<1>5. /\ VarintLength(n) <= 1 => q1 = 0
      /\ VarintLength(n) <= 2 => q2 = 0
      /\ VarintLength(n) <= 3 => q3 = 0
      /\ VarintLength(n) <= 4 => q4 = 0
  BY SMTT(60) DEF UInt32, VarintLength
<1>6. VarintLength(n) \in 1..5
  BY LengthBounds, SMT
<1> HIDE DEF q1, q2, q3, q4
<1>7. /\ Septet(n, 1) \in Int /\ Septet(n, 2) \in Int /\ Septet(n, 3) \in Int
      /\ Septet(n, 4) \in Int /\ Septet(n, 5) \in Int
  BY <1>1, SeptetRange, SMT
<1>8. /\ n = q1 * 128 + Septet(n, 1)
      /\ q1 = q2 * 128 + Septet(n, 2)
      /\ q2 = q3 * 128 + Septet(n, 3)
      /\ q3 = q4 * 128 + Septet(n, 4)
      /\ q4 = Septet(n, 5)
  BY <1>2, <1>3, <1>4, SMT
<1>9. /\ Septet(n, 1) * Weight[1] = Septet(n, 1)
      /\ Septet(n, 2) * Weight[2] = Septet(n, 2) * 128
      /\ Septet(n, 3) * Weight[3] = Septet(n, 3) * 16384
      /\ Septet(n, 4) * Weight[4] = Septet(n, 4) * 2097152
      /\ Septet(n, 5) * Weight[5] = Septet(n, 5) * 268435456
  BY <1>7, Weights, SMT
<1>10. n = Septet(n, 1) + Septet(n, 2) * 128 + Septet(n, 3) * 16384
           + Septet(n, 4) * 2097152 + Septet(n, 5) * 268435456
  BY <1>1, <1>7, <1>8, SMT
<1>11. /\ VarintLength(n) < 2 => Septet(n, 2) = 0
       /\ VarintLength(n) < 3 => Septet(n, 3) = 0
       /\ VarintLength(n) < 4 => Septet(n, 4) = 0
       /\ VarintLength(n) < 5 => Septet(n, 5) = 0
  <2>1. VarintLength(n) < 2 => q1 = 0 /\ q2 = 0
    BY <1>5, <1>6, SMT
  <2>2. VarintLength(n) < 3 => q2 = 0 /\ q3 = 0
    BY <1>5, <1>6, SMT
  <2>3. VarintLength(n) < 4 => q3 = 0 /\ q4 = 0
    BY <1>5, <1>6, SMT
  <2>4. VarintLength(n) < 5 => q4 = 0
    BY <1>5, <1>6, SMT
  <2>5. /\ q1 = 0 /\ q2 = 0 => Septet(n, 2) = 0
        /\ q2 = 0 /\ q3 = 0 => Septet(n, 3) = 0
        /\ q3 = 0 /\ q4 = 0 => Septet(n, 4) = 0
        /\ q4 = 0 => Septet(n, 5) = 0
    BY <1>7, <1>8, SMT
  <2>6. QED
    BY <2>1, <2>2, <2>3, <2>4, <2>5
<1>12. QED
  BY <1>1, <1>6, <1>7, <1>9, <1>10, <1>11, SMT

\* At offset at, buf holds the len septets of s, the most significant first, all
\* but the last with the high bit set.
Holds(buf, at, len, s) ==
    /\ at + len <= Len(buf)
    /\ \A i \in 1..len : /\ i < len => buf[at + i] = s[len + 1 - i] + 128
                         /\ i = len => buf[at + i] = s[1]

\* The septets of a number that a buffer holds add up to it.
LEMMA HeldSeptets ==
  ASSUME NEW len \in 1..5, NEW s \in [1..5 -> 0..127], NEW buf, NEW at \in Nat,
         Holds(buf, at, len, s)
  PROVE  \A i \in 1..len : /\ buf[at + i] \in Int
                           /\ i < len => buf[at + i] >= 128
                           /\ i = len => buf[at + i] < 128
                           /\ buf[at + i] % 128 = s[len + 1 - i]
<1> SUFFICES ASSUME NEW i \in 1..len
             PROVE  /\ buf[at + i] \in Int
                    /\ i < len => buf[at + i] >= 128
                    /\ i = len => buf[at + i] < 128
                    /\ buf[at + i] % 128 = s[len + 1 - i]
  OBVIOUS
<1>1. len + 1 - i \in 1..5 /\ (i = len => len + 1 - i = 1)
  BY SMT
<1>2. s[len + 1 - i] \in 0..127
  BY <1>1, SMT
<1>3. buf[at + i] = s[len + 1 - i] + (IF i < len THEN 128 ELSE 0)
  <2>1. CASE i < len
    BY <2>1, SMT DEF Holds
  <2>2. CASE i = len
    <3>1. buf[at + i] = s[1]
      BY <2>2, SMT DEF Holds
    <3>2. QED
      BY <1>1, <1>2, <2>2, <3>1, SMT
  <2>3. QED
    BY <2>1, <2>2, SMT
<1>4. \A d \in 0..127 : d % 128 = d /\ (d + 128) % 128 = d
  BY SMT
<1>5. QED
  BY <1>2, <1>3, <1>4, SMT

\* No other length is read there.
LEMMA OneLength ==
  ASSUME NEW len \in 1..5, NEW s \in [1..5 -> 0..127], NEW buf, NEW at \in Nat,
         Holds(buf, at, len, s)
  PROVE  \A l \in 1..5 : VarintOfLength(buf, at, l) <=> l = len
<1>1. \A i \in 1..len : /\ buf[at + i] \in Int
                        /\ i < len => buf[at + i] >= 128
                        /\ i = len => buf[at + i] < 128
  BY HeldSeptets, SMT
<1>2. at + len <= Len(buf)
  BY SMT DEF Holds
<1>3. VarintOfLength(buf, at, len)
  <2>1. len \in 1..len /\ \A i \in 1..(len - 1) : i \in 1..len /\ i < len
    BY SMT
  <2>2. buf[at + len] < 128
    BY <1>1, <2>1, SMT
  <2>3. \A i \in 1..(len - 1) : buf[at + i] >= 128
    BY <1>1, <2>1, SMT
  <2>4. QED
    BY <1>2, <2>2, <2>3, SMT DEF VarintOfLength
<1>4. ASSUME NEW l \in 1..5, VarintOfLength(buf, at, l) PROVE l = len
  <2>1. buf[at + l] < 128 /\ \A i \in 1..(l - 1) : buf[at + i] >= 128
    BY <1>4, SMT DEF VarintOfLength
  <2>2. ASSUME l < len PROVE FALSE
    <3>1. l \in 1..len
      BY <2>2, SMT
    <3>2. QED
      BY <1>1, <2>1, <2>2, <3>1, SMT
  <2>3. ASSUME len < l PROVE FALSE
    <3>1. len \in 1..(l - 1) /\ len \in 1..len
      BY <2>3, SMT
    <3>2. QED
      BY <1>1, <2>1, <3>1, SMT
  <2>4. QED
    BY <2>2, <2>3, SMT
<1>5. QED
  BY <1>3, <1>4, SMT

\* Its value is the sum of the septets.
LEMMA HeldValue ==
  ASSUME NEW len \in 1..5, NEW s \in [1..5 -> 0..127], NEW buf, NEW at \in Nat,
         Holds(buf, at, len, s)
  PROVE  VarintValue(buf, at, len)
           = (IF 1 > len THEN 0 ELSE s[1] * Weight[1])
             + (IF 2 > len THEN 0 ELSE s[2] * Weight[2])
             + (IF 3 > len THEN 0 ELSE s[3] * Weight[3])
             + (IF 4 > len THEN 0 ELSE s[4] * Weight[4])
             + (IF 5 > len THEN 0 ELSE s[5] * Weight[5])
<1> DEFINE Bytes(i) == IF i > len THEN 0 ELSE (buf[at + i] % 128) * Weight[len + 1 - i]
           Part(k) == IF k > len THEN 0 ELSE s[k] * Weight[k]
<1>1. \A i \in 1..len : buf[at + i] % 128 = s[len + 1 - i]
  BY HeldSeptets, SMT
<1>2. \A k \in 1..5 : s[k] * Weight[k] \in Int
  <2>1. \A k \in 1..5 : s[k] \in Int /\ Weight[k] \in Int
    BY Weights, SMT
  <2>2. QED
    BY <2>1, SMT
<1>3. \A k \in 1..5 : Part(k) \in Int /\ (k > len => Part(k) = 0 /\ Bytes(k) = 0)
  BY <1>2, SMT
<1>4. \A i \in 1..len : Bytes(i) = Part(len + 1 - i)
  BY <1>1, SMT
<1>5. VarintValue(buf, at, len) = Bytes(1) + Bytes(2) + Bytes(3) + Bytes(4) + Bytes(5)
  BY SMT DEF VarintValue
<1> HIDE DEF Bytes, Part
<1>6. Bytes(1) + Bytes(2) + Bytes(3) + Bytes(4) + Bytes(5)
        = Part(1) + Part(2) + Part(3) + Part(4) + Part(5)
  <2>1. CASE len = 1
    BY <1>3, <1>4, <2>1, SMT
  <2>2. CASE len = 2
    BY <1>3, <1>4, <2>2, SMT
  <2>3. CASE len = 3
    BY <1>3, <1>4, <2>3, SMT
  <2>4. CASE len = 4
    BY <1>3, <1>4, <2>4, SMT
  <2>5. CASE len = 5
    BY <1>3, <1>4, <2>5, SMT
  <2>6. QED
    BY <2>1, <2>2, <2>3, <2>4, <2>5, SMT
<1>7. QED
  BY <1>5, <1>6 DEF Part

\* GetVarint, at any offset of any buffer that has the bytes PutVarint writes
\* of n there, yields n and the offset after them.
THEOREM VarintReadsBack ==
  ASSUME NEW n \in UInt32, NEW buf \in Seq(Byte), NEW at \in Nat,
         at + VarintLength(n) <= Len(buf),
         \A i \in 1..VarintLength(n) : buf[at + i] = PutVarint(n)[i]
  PROVE  GetVarint(buf, at) = Got(n, at + VarintLength(n))
<1> DEFINE s == [k \in 1..5 |-> Septet(n, k)]
<1>1. VarintLength(n) \in 1..5 /\ n \in Nat
  BY LengthBounds, SMT DEF UInt32
<1>2. s \in [1..5 -> 0..127]
  BY <1>1, SeptetRange, SMT
<1>3. Holds(buf, at, VarintLength(n), s)
  <2>1. ASSUME NEW i \in 1..VarintLength(n)
        PROVE  /\ i < VarintLength(n) => buf[at + i] = s[VarintLength(n) + 1 - i] + 128
               /\ i = VarintLength(n) => buf[at + i] = s[1]
    <3>1. VarintLength(n) + 1 - i \in 1..5 /\ 1 \in 1..5
      BY <1>1, SMT
    <3>2. s[VarintLength(n) + 1 - i] = Septet(n, VarintLength(n) + 1 - i) /\ s[1] = Septet(n, 1)
      BY <3>1, SMT
    <3>3. buf[at + i] = Septet(n, VarintLength(n) + 1 - i)
                          + (IF i < VarintLength(n) THEN 128 ELSE 0)
      BY <1>1, SMT DEF PutVarint
    <3>4. Septet(n, VarintLength(n) + 1 - i) \in Int
      <4>1. 0..127 \subseteq Int
        BY SMT
      <4>2. QED
        BY <1>1, <3>1, <4>1, SeptetRange
    <3>5. i = VarintLength(n) => VarintLength(n) + 1 - i = 1
      BY <1>1, SMT
    <3>6. QED
      BY <1>1, <3>2, <3>3, <3>4, <3>5, SMT
  <2>2. QED
    BY <2>1, SMT DEF Holds
<1>4. \A l \in 1..5 : VarintOfLength(buf, at, l) <=> l = VarintLength(n)
  BY <1>1, <1>2, <1>3, OneLength, SMT
<1>5. VarintValue(buf, at, VarintLength(n)) = n
  <2>1. \A k \in 1..5 : s[k] = Septet(n, k)
    OBVIOUS
  <2> HIDE DEF s
  <2>2. s[1] = Septet(n, 1) /\ s[2] = Septet(n, 2) /\ s[3] = Septet(n, 3)
        /\ s[4] = Septet(n, 4) /\ s[5] = Septet(n, 5)
    BY <2>1, SMT
  <2>3. QED
    <3>1. VarintValue(buf, at, VarintLength(n))
            = (IF 1 > VarintLength(n) THEN 0 ELSE s[1] * Weight[1])
              + (IF 2 > VarintLength(n) THEN 0 ELSE s[2] * Weight[2])
              + (IF 3 > VarintLength(n) THEN 0 ELSE s[3] * Weight[3])
              + (IF 4 > VarintLength(n) THEN 0 ELSE s[4] * Weight[4])
              + (IF 5 > VarintLength(n) THEN 0 ELSE s[5] * Weight[5])
      BY <1>1, <1>2, <1>3, HeldValue, SMT
    <3>2. QED
      BY <2>2, <3>1, Digits, SMT
<1>6. (CHOOSE l \in 1..5 : VarintOfLength(buf, at, l)) = VarintLength(n)
  BY <1>1, <1>4
<1>7. QED
  BY <1>1, <1>4, <1>5, <1>6 DEF GetVarint

-----------------------------------------------------------------------------
(* Bytes at an offset *)

\* buf holds the bytes s at offset at.
Held(buf, at, s) ==
    /\ at + Len(s) <= Len(buf)
    /\ \A i \in 1..Len(s) : buf[at + i] = s[i]

\* Bytes behind bytes.
LEMMA JoinedBytes ==
  ASSUME NEW s \in Seq(Byte), NEW t \in Seq(Byte)
  PROVE  /\ s \o t \in Seq(Byte) /\ Len(s \o t) = Len(s) + Len(t)
         /\ Len(s) \in Nat /\ Len(t) \in Nat
  BY ConcatProperties, LenProperties

\* It does not matter which bytes are joined first.
LEMMA AssociativeBytes ==
  ASSUME NEW s \in Seq(Byte), NEW t \in Seq(Byte), NEW u \in Seq(Byte)
  PROVE  (s \o t) \o u = s \o (t \o u)
  BY ConcatAssociative

\* A buffer that holds two pieces one behind the other holds each at its place.
LEMMA HeldJoined ==
  ASSUME NEW buf \in Seq(Byte), NEW at \in Nat, NEW s \in Seq(Byte), NEW t \in Seq(Byte)
  PROVE  Held(buf, at, s \o t) <=> /\ Held(buf, at, s)
                                   /\ Held(buf, at + Len(s), t)
<1>1. /\ Len(s \o t) = Len(s) + Len(t) /\ Len(s) \in Nat /\ Len(t) \in Nat /\ Len(buf) \in Nat
      /\ \A i \in 1..(Len(s) + Len(t)) :
            (s \o t)[i] = IF i <= Len(s) THEN s[i] ELSE t[i - Len(s)]
  BY ConcatProperties, LenProperties, SMT
<1>2. ASSUME Held(buf, at, s \o t) PROVE Held(buf, at, s) /\ Held(buf, at + Len(s), t)
  <2>1. \A i \in 1..Len(t) : buf[at + Len(s) + i] = t[i]
    <3> TAKE i \in 1..Len(t)
    <3>1. i + Len(s) \in 1..(Len(s) + Len(t)) /\ (i + Len(s)) - Len(s) = i
          /\ ~(i + Len(s) <= Len(s)) /\ at + (i + Len(s)) = at + Len(s) + i
      BY <1>1, SMT
    <3>2. buf[at + (i + Len(s))] = (s \o t)[i + Len(s)]
      BY <1>1, <1>2, <3>1 DEF Held
    <3> QED
      BY <1>1, <3>1, <3>2
  <2>2. \A i \in 1..Len(s) : buf[at + i] = s[i]
    BY <1>1, <1>2, SMT DEF Held
  <2> QED
    BY <1>1, <1>2, <2>1, <2>2, SMT DEF Held
<1>3. ASSUME Held(buf, at, s), Held(buf, at + Len(s), t) PROVE Held(buf, at, s \o t)
  <2>1. ASSUME NEW i \in 1..(Len(s) + Len(t)) PROVE buf[at + i] = (s \o t)[i]
    <3>1. CASE i <= Len(s)
      BY <1>1, <1>3, <3>1, SMT DEF Held
    <3>2. CASE i > Len(s)
      <4>1. i - Len(s) \in 1..Len(t) /\ at + Len(s) + (i - Len(s)) = at + i /\ ~(i <= Len(s))
        BY <1>1, <3>2, SMT
      <4>2. buf[at + Len(s) + (i - Len(s))] = t[i - Len(s)]
        BY <1>3, <4>1 DEF Held
      <4> QED
        BY <1>1, <4>1, <4>2
    <3> QED
      BY <1>1, <3>1, <3>2, SMT
  <2> QED
    BY <1>1, <1>3, <2>1, SMT DEF Held
<1> QED
  BY <1>2, <1>3

\* The buffer p is a first part of buf.
Begins(p, buf) ==
    /\ p \in Seq(Byte) /\ buf \in Seq(Byte) /\ Len(p) <= Len(buf)
    /\ \A i \in 1..Len(p) : p[i] = buf[i]

\* What a read of a first part yields, if anything, is what the same read of the whole
\* buffer yields; it goes no further back than at, and not beyond the part.
SameRead(small, large, at, limit) ==
    small # Nothing => /\ small = large
                       /\ small = Got(small.value, small.at)
                       /\ small.at \in at..limit

\* Something read is neither nothing nor anything else.
LEMMA GotFields ==
  /\ \A v, a : Got(v, a).ok /\ Got(v, a).value = v /\ Got(v, a).at = a /\ Got(v, a) # Nothing
  /\ ~Nothing.ok
<1>1. \A v, a : Got(v, a).ok = TRUE /\ Got(v, a).value = v /\ Got(v, a).at = a
  BY DEF Got
<1>2. Nothing.ok = FALSE
  BY DEF Nothing
<1> QED
  BY <1>1, <1>2

\* To read the same at the same place is to be the same read.
LEMMA SameGot ==
  ASSUME NEW at, NEW limit, NEW v, NEW a \in at..limit
  PROVE  SameRead(Got(v, a), Got(v, a), at, limit)
  BY GotFields DEF SameRead

\* What a first part does not give need not be the same in the file.
LEMMA SameNothing ==
  ASSUME NEW at, NEW limit, NEW large
  PROVE  SameRead(Nothing, large, at, limit)
  BY DEF SameRead

\* A byte of a first part is the file's.
LEMMA SameByte ==
  ASSUME NEW p, NEW buf, Begins(p, buf), NEW at \in 0..Len(p)
  PROVE  SameRead(ReadByte(p, at), ReadByte(buf, at), at + 1, Len(p))
<1>1. CASE at < Len(p)
  <2>1. /\ at < Len(buf) /\ p[at + 1] = buf[at + 1]
        /\ at + 1 \in (at + 1)..Len(p)
    BY <1>1, SMT DEF Begins
  <2>2. ReadByte(p, at) = Got(p[at + 1], at + 1) /\ ReadByte(buf, at) = Got(p[at + 1], at + 1)
    BY <1>1, <2>1 DEF ReadByte
  <2> QED
    BY <2>1, <2>2, SameGot
<1>2. CASE ~(at < Len(p))
  BY <1>2, SameNothing DEF ReadByte
<1> QED
  BY <1>1, <1>2

\* Bytes read of a first part are the file's.
LEMMA SameBytes ==
  ASSUME NEW p, NEW buf, Begins(p, buf), NEW at \in 0..Len(p), NEW n \in Nat
  PROVE  SameRead(ReadBytes(p, at, n), ReadBytes(buf, at, n), at + n, Len(p))
<1> SUFFICES ASSUME at + n <= Len(p)
             PROVE  SubSeq(p, at + 1, at + n) = SubSeq(buf, at + 1, at + n)
  <2>1. Len(p) \in Nat /\ Len(buf) \in Nat /\ Len(p) <= Len(buf)
    BY LenProperties DEF Begins
  <2>2. CASE at + n <= Len(p)
    <3>1. at + n <= Len(buf) /\ at + n \in (at + n)..Len(p)
      BY <2>1, <2>2, SMT
    <3>2. /\ ReadBytes(p, at, n) = Got(SubSeq(p, at + 1, at + n), at + n)
          /\ ReadBytes(buf, at, n) = Got(SubSeq(p, at + 1, at + n), at + n)
      BY <2>2, <3>1 DEF ReadBytes
    <3> QED
      BY <3>1, <3>2, SameGot
  <2>3. CASE ~(at + n <= Len(p))
    BY <2>3, SameNothing DEF ReadBytes
  <2> QED
    BY <2>2, <2>3
<1>1. \A i \in (at + 1)..(at + n) : p[i] = buf[i] /\ p[i] \in Byte
  BY SMT DEF Begins
<1> DEFINE s == SubSeq(p, at + 1, at + n)
           t == SubSeq(buf, at + 1, at + n)
<1>2. /\ s \in Seq(Byte) /\ t \in Seq(Byte) /\ Len(s) = n /\ Len(t) = n
      /\ \A i \in 1..n : s[i] = p[at + i] /\ t[i] = buf[at + i]
  <2>1. \A i \in (at + 1)..(at + n) : buf[i] \in Byte
    BY <1>1
  <2>2. at + 1 \in Int /\ at + n \in Int /\ (at + n) - (at + 1) + 1 = n
    BY SMT
  <2>3. /\ s \in Seq(Byte) /\ Len(s) = IF at + 1 <= at + n THEN (at + n) - (at + 1) + 1 ELSE 0
        /\ \A i \in 1..((at + n) - (at + 1) + 1) : s[i] = p[(at + 1) + i - 1]
    BY <1>1, <2>2, SubSeqProperties
  <2>4. /\ t \in Seq(Byte) /\ Len(t) = IF at + 1 <= at + n THEN (at + n) - (at + 1) + 1 ELSE 0
        /\ \A i \in 1..((at + n) - (at + 1) + 1) : t[i] = buf[(at + 1) + i - 1]
    BY <2>1, <2>2, SubSeqProperties
  <2>5. \A i \in 1..n : (at + 1) + i - 1 = at + i
    BY SMT
  <2> HIDE DEF s, t
  <2>6. Len(s) = n /\ Len(t) = n
    BY <2>2, <2>3, <2>4, SMT
  <2> QED
    BY <2>2, <2>3, <2>4, <2>5, <2>6
<1> HIDE DEF s, t
<1>3. \A i \in 1..n : s[i] = t[i]
  <2> TAKE i \in 1..n
  <2>1. at + i \in (at + 1)..(at + n)
    BY SMT
  <2> QED
    BY <1>1, <1>2, <2>1
<1>4. s = t
  BY <1>2, <1>3, SeqEqual
<1> QED
  BY <1>4 DEF s, t

\* So is any piece taken out of it.
LEMMA SameSubSeq ==
  ASSUME NEW p, NEW buf, Begins(p, buf), NEW at \in 0..Len(p), NEW to \in at..Len(p)
  PROVE  SubSeq(p, at + 1, to) = SubSeq(buf, at + 1, to)
<1>0. Len(p) \in Nat /\ Len(buf) \in Nat /\ Len(p) <= Len(buf)
  BY LenProperties DEF Begins
<1>1. to - at \in Nat /\ at + (to - at) = to
  BY <1>0, SMT
<1>2. SameRead(ReadBytes(p, at, to - at), ReadBytes(buf, at, to - at), at + (to - at), Len(p))
  BY <1>1, SameBytes
<1>3. to <= Len(p) /\ to <= Len(buf)
  BY <1>0, SMT
<1>4. /\ ReadBytes(p, at, to - at) = Got(SubSeq(p, at + 1, to), to)
      /\ ReadBytes(buf, at, to - at) = Got(SubSeq(buf, at + 1, to), to)
  BY <1>1, <1>3 DEF ReadBytes
<1>5. ReadBytes(p, at, to - at) # Nothing
  BY <1>4, GotFields
<1>6. ReadBytes(p, at, to - at) = ReadBytes(buf, at, to - at)
  BY <1>2, <1>5 DEF SameRead
<1> DEFINE s == SubSeq(p, at + 1, to)
           t == SubSeq(buf, at + 1, to)
<1>7. Got(s, to) = Got(t, to)
  BY <1>4, <1>6
<1> HIDE DEF s, t
<1>8. Got(s, to).value = s /\ Got(t, to).value = t
  BY GotFields
<1>9. s = t
  BY <1>7, <1>8
<1> QED
  BY <1>9 DEF s, t

\* A set of offsets has a smallest, as CHOOSE finds it.
LEMMA Smallest ==
  ASSUME NEW S, S \subseteq Nat, S # {}
  PROVE  LET m == CHOOSE z \in S : \A y \in S : z <= y
         IN  /\ m \in S /\ \A y \in S : m <= y
             /\ \A z \in S : (\A y \in S : z <= y) => z = m
<1> DEFINE R == OpToRel(<, Nat)
           m == CHOOSE z \in S : \A y \in S : z <= y
<1>1. PICK k \in S : \A n \in S : ~(<<n, k>> \in R)
  <2> HIDE DEF R
  <2> QED
    BY NatLessThanWellFounded, WFMin DEF R
<1>2. \A n \in S : ~(n < k)
  BY <1>1 DEF OpToRel
<1>3. \A y \in S : k <= y
  BY <1>2, SMT
<1>4. m \in S /\ \A y \in S : m <= y
  BY <1>3
<1> HIDE DEF m
<1>5. ASSUME NEW z \in S, \A y \in S : z <= y PROVE z = m
  BY <1>4, <1>5, SMT
<1> QED
  BY <1>4, <1>5 DEF m

\* A string of a first part is the file's.
LEMMA SameString ==
  ASSUME NEW p, NEW buf, Begins(p, buf), NEW at \in 0..Len(p)
  PROVE  SameRead(ReadString(p, at), ReadString(buf, at), at + 1, Len(p))
<1> DEFINE Zp == {z \in (at + 1)..Len(p) : p[z] = 0}
           Zb == {z \in (at + 1)..Len(buf) : buf[z] = 0}
           e == CHOOSE z \in Zp : \A y \in Zp : z <= y
           f == CHOOSE z \in Zb : \A y \in Zb : z <= y
<1>1. Len(p) \in Nat /\ Len(buf) \in Nat /\ Len(p) <= Len(buf)
  BY LenProperties DEF Begins
<1>2. CASE Zp = {}
  BY <1>2, SameNothing DEF ReadString
<1>3. CASE Zp # {}
  <2>1. Zp \subseteq Nat /\ Zb \subseteq Nat
    BY <1>1, SMT
  <2>2. Zp = {z \in Zb : z <= Len(p)}
    BY <1>1, SMT DEF Begins
  <2>3. e \in Zp /\ \A y \in Zp : e <= y
    <3> HIDE DEF Zp
    <3> QED
      BY <1>3, <2>1, Smallest
  <2>4. e \in (at + 1)..Len(p)
    BY <2>3
  <2>5. e = f
    <3> HIDE DEF e, Zp
    <3>1. e \in Zb /\ e <= Len(p)
      BY <2>2, <2>3
    <3> HIDE DEF Zb
    <3>2. \A y \in Zb : e <= y
      <4> TAKE y \in Zb
      <4>1. y \in Nat /\ e \in Nat
        BY <2>1, <3>1
      <4>2. CASE y <= Len(p)
        BY <2>2, <2>3, <4>2
      <4>3. CASE ~(y <= Len(p))
        BY <1>1, <3>1, <4>1, <4>3, SMT
      <4> QED
        BY <4>2, <4>3
    <3> QED
      BY <2>1, <3>1, <3>2, Smallest
  <2>6. Zb # {}
    BY <1>3, <2>2
  <2>7. e - 1 \in at..Len(p) /\ e \in (at + 1)..Len(p)
    BY <1>1, <2>4, SMT
  <2>8. SubSeq(p, at + 1, e - 1) = SubSeq(buf, at + 1, e - 1)
    <3> HIDE DEF e
    <3> QED
      BY <2>7, SameSubSeq
  <2>9. ReadString(p, at) = Got(SubSeq(p, at + 1, e - 1), e)
    BY <1>3 DEF ReadString
  <2>10. ReadString(buf, at) = Got(SubSeq(buf, at + 1, f - 1), f)
    BY <2>6 DEF ReadString
  <2> HIDE DEF e, f
  <2> QED
    BY <2>5, <2>7, <2>8, <2>9, <2>10, SameGot
<1> QED
  BY <1>2, <1>3

\* A varint of a first part is the file's.
LEMMA SameVarint ==
  ASSUME NEW p, NEW buf, Begins(p, buf), NEW at \in 0..Len(p)
  PROVE  SameRead(GetVarint(p, at), GetVarint(buf, at), at + 1, Len(p))
<1>0. Len(p) \in Nat /\ Len(buf) \in Nat /\ Len(p) <= Len(buf)
      /\ \A i \in 1..Len(p) : p[i] = buf[i] /\ p[i] \in Int /\ buf[i] \in Int
  <2>1. Len(p) \in Nat /\ Len(buf) \in Nat /\ Len(p) <= Len(buf)
    BY LenProperties DEF Begins
  <2>2. \A i \in 1..Len(p) : p[i] = buf[i] /\ p[i] \in Byte
    BY ElementOfSeq DEF Begins
  <2>3. Byte \subseteq Int
    BY SMT DEF Byte
  <2> QED
    BY <2>1, <2>2, <2>3
<1>1. ASSUME NEW l \in 1..5, VarintOfLength(p, at, l)
      PROVE  /\ VarintOfLength(buf, at, l)
             /\ \A k \in 1..5 : VarintOfLength(buf, at, k) => k = l
             /\ \A k \in 1..5 : VarintOfLength(p, at, k) => k = l
             /\ VarintValue(p, at, l) = VarintValue(buf, at, l)
             /\ at + l \in (at + 1)..Len(p)
  <2>1. at + l <= Len(p) /\ \A i \in 1..l : at + i \in 1..Len(p)
    BY <1>0, <1>1, SMT DEF VarintOfLength
  <2>2. \A i \in 1..l : p[at + i] = buf[at + i] /\ buf[at + i] \in Int
    BY <1>0, <2>1
  <2>3. l \in 1..l /\ \A i \in 1..(l - 1) : i \in 1..l
    BY SMT
  <2>4. buf[at + l] < 128 /\ \A i \in 1..(l - 1) : buf[at + i] >= 128
    BY <1>1, <2>2, <2>3 DEF VarintOfLength
  <2>5. VarintOfLength(buf, at, l)
    BY <1>0, <2>1, <2>4, SMT DEF VarintOfLength
  <2>6. ASSUME NEW k \in 1..5, VarintOfLength(buf, at, k) PROVE k = l
    <3>1. buf[at + k] < 128 /\ \A i \in 1..(k - 1) : buf[at + i] >= 128
      BY <2>6 DEF VarintOfLength
    <3>2. ~(k < l)
      <4> SUFFICES ASSUME k < l PROVE FALSE
        OBVIOUS
      <4>1. k \in 1..(l - 1) /\ k \in 1..l
        BY SMT
      <4>2. buf[at + k] >= 128 /\ buf[at + k] \in Int /\ buf[at + k] < 128
        BY <2>2, <2>4, <3>1, <4>1
      <4> QED
        BY <4>2, SMT
    <3>3. ~(l < k)
      <4> SUFFICES ASSUME l < k PROVE FALSE
        OBVIOUS
      <4>1. l \in 1..(k - 1) /\ l \in 1..l
        BY SMT
      <4>2. buf[at + l] >= 128 /\ buf[at + l] \in Int /\ buf[at + l] < 128
        BY <2>2, <2>4, <3>1, <4>1
      <4> QED
        BY <4>2, SMT
    <3> QED
      BY <3>2, <3>3, SMT
  <2>7. ASSUME NEW k \in 1..5, VarintOfLength(p, at, k) PROVE k = l
    <3>1. p[at + k] < 128 /\ \A i \in 1..(k - 1) : p[at + i] >= 128
      BY <2>7 DEF VarintOfLength
    <3>2. at + k <= Len(p)
      BY <2>7 DEF VarintOfLength
    <3>3. \A i \in 1..k : at + i \in 1..Len(p)
      BY <1>0, <3>2, SMT
    <3>4. VarintOfLength(buf, at, k)
      <4>1. k \in 1..k /\ \A i \in 1..(k - 1) : i \in 1..k
        BY SMT
      <4>2. \A i \in 1..k : p[at + i] = buf[at + i]
        BY <1>0, <3>3
      <4>3. buf[at + k] < 128 /\ \A i \in 1..(k - 1) : buf[at + i] >= 128
        BY <3>1, <4>1, <4>2
      <4>4. at + k <= Len(buf)
        BY <1>0, <3>2, SMT
      <4> QED
        BY <4>3, <4>4 DEF VarintOfLength
    <3> QED
      BY <2>6, <3>4
  <2>8. VarintValue(p, at, l) = VarintValue(buf, at, l)
    <3> DEFINE P(i) == IF i > l THEN 0 ELSE (p[at + i] % 128) * Weight[l + 1 - i]
               B(i) == IF i > l THEN 0 ELSE (buf[at + i] % 128) * Weight[l + 1 - i]
    <3>1. \A i \in 1..5 : P(i) = B(i)
      <4> TAKE i \in 1..5
      <4>1. CASE i > l
        BY <4>1
      <4>2. CASE ~(i > l)
        <5>1. i \in 1..l
          BY <4>2, SMT
        <5> QED
          BY <2>2, <5>1
      <4> QED
        BY <4>1, <4>2
    <3>2. /\ VarintValue(p, at, l) = P(1) + P(2) + P(3) + P(4) + P(5)
          /\ VarintValue(buf, at, l) = B(1) + B(2) + B(3) + B(4) + B(5)
      BY DEF VarintValue
    <3>3. 1 \in 1..5 /\ 2 \in 1..5 /\ 3 \in 1..5 /\ 4 \in 1..5 /\ 5 \in 1..5
      BY SMT
    <3> HIDE DEF P, B
    <3> QED
      BY <3>1, <3>2, <3>3
  <2>9. at + l \in (at + 1)..Len(p)
    BY <1>0, <2>1, SMT
  <2> QED
    BY <2>5, <2>6, <2>7, <2>8, <2>9
<1>2. CASE \E len \in 1..5 : VarintOfLength(p, at, len)
  <2>1. PICK l \in 1..5 : VarintOfLength(p, at, l)
    BY <1>2
  <2>2. (CHOOSE k \in 1..5 : VarintOfLength(p, at, k)) = l
    BY <1>1, <2>1
  <2>3. (CHOOSE k \in 1..5 : VarintOfLength(buf, at, k)) = l
    BY <1>1, <2>1
  <2>4. GetVarint(p, at) = Got(VarintValue(p, at, l), at + l)
    BY <1>2, <2>2 DEF GetVarint
  <2>5. GetVarint(buf, at) = Got(VarintValue(buf, at, l), at + l)
    BY <1>1, <2>1, <2>3 DEF GetVarint
  <2>6. VarintValue(p, at, l) = VarintValue(buf, at, l) /\ at + l \in (at + 1)..Len(p)
    BY <1>1, <2>1
  <2> QED
    BY <2>4, <2>5, <2>6, SameGot
<1>3. CASE ~\E len \in 1..5 : VarintOfLength(p, at, len)
  BY <1>3, SameNothing DEF GetVarint
<1> QED
  BY <1>2, <1>3

-----------------------------------------------------------------------------
(* One read after the other *)

\* A read that begins further back allows more.
LEMMA SameFrom ==
  ASSUME NEW small, NEW large, NEW limit \in Nat, NEW at \in Nat, NEW from \in Nat, from <= at,
         SameRead(small, large, at, limit)
  PROVE  SameRead(small, large, from, limit)
<1>1. ASSUME small.at \in at..limit PROVE small.at \in from..limit
  BY <1>1, SMT
<1> QED
  BY <1>1 DEF SameRead

\* A number of bytes is a number.
LEMMA VarintIsNat ==
  ASSUME NEW buf \in Seq(Byte), NEW at \in Nat, GetVarint(buf, at) # Nothing
  PROVE  GetVarint(buf, at).value \in Nat
<1>1. PICK l \in 1..5 : VarintOfLength(buf, at, l)
                        /\ GetVarint(buf, at) = Got(VarintValue(buf, at, l), at + l)
  BY DEF GetVarint
<1> DEFINE P(i) == IF i > l THEN 0 ELSE (buf[at + i] % 128) * Weight[l + 1 - i]
<1>2. \A i \in 1..5 : P(i) \in Nat
  <2> TAKE i \in 1..5
  <2>1. CASE i > l
    BY <2>1
  <2>2. CASE ~(i > l)
    <3>1. at + i \in 1..Len(buf) /\ l + 1 - i \in 1..5
      <4>1. Len(buf) \in Nat /\ at + l <= Len(buf)
        BY <1>1, LenProperties DEF VarintOfLength
      <4> QED
        BY <2>2, <4>1, SMT
    <3>2. buf[at + i] \in 0..255
      BY <3>1, ElementOfSeq DEF Byte
    <3>3. buf[at + i] % 128 \in Nat
      <4>1. \A q \in 0..255 : q % 128 \in Nat
        BY SMT
      <4> QED
        BY <3>2, <4>1
    <3>4. Weight[l + 1 - i] \in {1, 128, 16384, 2097152, 268435456}
      <4>1. l + 1 - i = 1 \/ l + 1 - i = 2 \/ l + 1 - i = 3 \/ l + 1 - i = 4 \/ l + 1 - i = 5
        BY <3>1, SMT
      <4> QED
        BY <4>1, Weights
    <3> DEFINE b == buf[at + i] % 128
               w == Weight[l + 1 - i]
    <3>5. b \in Nat /\ w \in {1, 128, 16384, 2097152, 268435456}
      BY <3>3, <3>4
    <3>6. P(i) = b * w
      BY <2>2
    <3> HIDE DEF b, w, P
    <3> QED
      BY <3>5, <3>6, SMT
  <2> QED
    BY <2>1, <2>2
<1>3. VarintValue(buf, at, l) = P(1) + P(2) + P(3) + P(4) + P(5)
  BY DEF VarintValue
<1>4. P(1) \in Nat /\ P(2) \in Nat /\ P(3) \in Nat /\ P(4) \in Nat /\ P(5) \in Nat
  <2>1. 1 \in 1..5 /\ 2 \in 1..5 /\ 3 \in 1..5 /\ 4 \in 1..5 /\ 5 \in 1..5
    BY SMT
  <2> HIDE DEF P
  <2> QED
    BY <1>2, <2>1
<1> HIDE DEF P
<1>5. VarintValue(buf, at, l) \in Nat
  BY <1>3, <1>4, SMT
<1> QED
  BY <1>1, <1>5, GotFields

\* The type byte says how the length is found.
LEMMA LengthCases ==
  ASSUME NEW buf, NEW at, NEW type
  PROVE  /\ type \in NumberTypes => ReadLength(buf, at, type) = Got(8, at)
         /\ type \in LengthTypes => ReadLength(buf, at, type) = GetVarint(buf, at)
         /\ type \in {0, 5} => ReadLength(buf, at, type) = Got(0, at)
         /\ type \notin NumberTypes \cup LengthTypes \cup {0, 5} =>
                ReadLength(buf, at, type) = Nothing
<1>1. Null.type = 5 /\ Undefined.type = 0
  BY DEF Null, Undefined
<1>2. NumberTypes \cap LengthTypes = {} /\ NumberTypes \cap {0, 5} = {}
      /\ LengthTypes \cap {0, 5} = {}
  BY SMT DEF NumberTypes, LengthTypes
<1> QED
  BY <1>1, <1>2 DEF ReadLength

\* The length before a value in a first part is the file's.
LEMMA SameLength ==
  ASSUME NEW p, NEW buf, Begins(p, buf), NEW at \in 0..Len(p), NEW type
  PROVE  /\ SameRead(ReadLength(p, at, type), ReadLength(buf, at, type), at, Len(p))
         /\ ReadLength(p, at, type) # Nothing => ReadLength(p, at, type).value \in Nat
<1>0. Len(p) \in Nat /\ p \in Seq(Byte) /\ at \in at..Len(p) /\ at \in Nat /\ at + 1 \in Nat
      /\ at <= at + 1
  <2>1. Len(p) \in Nat /\ p \in Seq(Byte)
    BY LenProperties DEF Begins
  <2> QED
    BY <2>1, SMT
<1>1. CASE type \in NumberTypes
  <2>1. ReadLength(p, at, type) = Got(8, at) /\ ReadLength(buf, at, type) = Got(8, at)
    BY <1>1, LengthCases
  <2> QED
    BY <1>0, <2>1, SameGot, GotFields
<1>2. CASE type \in LengthTypes
  <2>1. ReadLength(p, at, type) = GetVarint(p, at) /\ ReadLength(buf, at, type) = GetVarint(buf, at)
    BY <1>2, LengthCases
  <2>2. SameRead(GetVarint(p, at), GetVarint(buf, at), at, Len(p))
    BY <1>0, SameVarint, SameFrom
  <2> QED
    BY <1>0, <2>1, <2>2, VarintIsNat
<1>3. CASE type \in {0, 5}
  <2>1. ReadLength(p, at, type) = Got(0, at) /\ ReadLength(buf, at, type) = Got(0, at)
    BY <1>3, LengthCases
  <2> QED
    BY <1>0, <2>1, SameGot, GotFields
<1>4. CASE type \notin NumberTypes \cup LengthTypes \cup {0, 5}
  <2>1. ReadLength(p, at, type) = Nothing
    BY <1>4, LengthCases
  <2> QED
    BY <2>1, SameNothing
<1> QED
  BY <1>1, <1>2, <1>3, <1>4

\* A value of a first part is the file's.
LEMMA SameValue ==
  ASSUME NEW p, NEW buf, Begins(p, buf), NEW at \in 0..Len(p)
  PROVE  SameRead(ReadValue(p, at), ReadValue(buf, at), at + 1, Len(p))
<1>0. Len(p) \in Nat
  BY LenProperties DEF Begins
<1> DEFINE type == ReadByte(p, at)
           length == ReadLength(p, type.at, type.value)
           bytes == ReadBytes(p, length.at, length.value)
<1>1. CASE type = Nothing
  <2>1. ReadValue(p, at) = Nothing
    BY <1>1, GotFields DEF ReadValue, Then
  <2> QED
    BY <2>1, SameNothing
<1>2. CASE type # Nothing
  <2>1. /\ type = ReadByte(buf, at) /\ type = Got(type.value, type.at)
        /\ type.at \in (at + 1)..Len(p)
    BY <1>2, SameByte DEF SameRead
  <2> HIDE DEF type
  <2>2. type.at \in 0..Len(p) /\ at + 1 <= type.at
    BY <1>0, <2>1, SMT
  <2>3. CASE length = Nothing
    <3>1. ReadValue(p, at) = Nothing
      BY <2>1, <2>3, GotFields DEF ReadValue, Then, type
    <3> QED
      BY <3>1, SameNothing
  <2>4. CASE length # Nothing
    <3>1. /\ length = ReadLength(buf, type.at, type.value) /\ length = Got(length.value, length.at)
          /\ length.at \in type.at..Len(p) /\ length.value \in Nat
      BY <2>2, <2>4, SameLength DEF SameRead
    <3> HIDE DEF length
    <3>2. length.at \in 0..Len(p) /\ at + 1 <= length.at + length.value
      BY <1>0, <2>2, <3>1, SMT
    <3>3. SameRead(bytes, ReadBytes(buf, length.at, length.value), length.at + length.value, Len(p))
      BY <3>1, <3>2, SameBytes
    <3>4. CASE bytes = Nothing
      <4>1. ReadValue(p, at) = Nothing
        BY <2>1, <3>1, <3>4, GotFields DEF ReadValue, Then, type, length
      <4> QED
        BY <4>1, SameNothing
    <3>5. CASE bytes # Nothing
      <4>1. /\ bytes = ReadBytes(buf, length.at, length.value) /\ bytes = Got(bytes.value, bytes.at)
            /\ bytes.at \in (length.at + length.value)..Len(p)
        BY <3>3, <3>5 DEF SameRead
      <4> HIDE DEF bytes
      <4>2. ReadValue(p, at) = Got([type |-> type.value, bytes |-> bytes.value], bytes.at)
        BY <2>1, <3>1, <4>1, GotFields DEF ReadValue, Then, type, length, bytes
      <4>3. ReadValue(buf, at) = Got([type |-> type.value, bytes |-> bytes.value], bytes.at)
        <5>1. ReadByte(buf, at) = type /\ type.ok
          BY <2>1, GotFields
        <5>2. ReadLength(buf, type.at, type.value) = length /\ length.ok
          BY <3>1, GotFields
        <5>3. ReadBytes(buf, length.at, length.value) = bytes /\ bytes.ok
          BY <4>1, GotFields
        <5> QED
          BY <5>1, <5>2, <5>3 DEF ReadValue, Then
      <4>4. bytes.at \in (at + 1)..Len(p)
        BY <1>0, <3>1, <3>2, <4>1, SMT
      <4> QED
        BY <4>2, <4>3, <4>4, SameGot
    <3> QED
      BY <3>4, <3>5
  <2> QED
    BY <2>3, <2>4
<1> QED
  BY <1>1, <1>2

-----------------------------------------------------------------------------
(* What is written reads back *)

\* A byte that is held is read back.
LEMMA HeldByte ==
  ASSUME NEW buf \in Seq(Byte), NEW at \in Nat, NEW b, Held(buf, at, <<b>>)
  PROVE  ReadByte(buf, at) = Got(b, at + 1)
<1>1. Len(<<b>>) = 1 /\ <<b>>[1] = b /\ Len(buf) \in Nat
  BY LenProperties, SMT
<1>2. at < Len(buf) /\ buf[at + 1] = b
  BY <1>1, SMT DEF Held
<1> QED
  BY <1>2 DEF ReadByte

\* Bytes that are held are read back.
LEMMA HeldBytes ==
  ASSUME NEW buf \in Seq(Byte), NEW at \in Nat, NEW s \in Seq(Byte), Held(buf, at, s)
  PROVE  ReadBytes(buf, at, Len(s)) = Got(s, at + Len(s))
<1>1. Len(s) \in Nat /\ Len(buf) \in Nat /\ at + Len(s) <= Len(buf)
  BY LenProperties DEF Held
<1> DEFINE t == SubSeq(buf, at + 1, at + Len(s))
<1>2. \A i \in (at + 1)..(at + Len(s)) : buf[i] \in Byte
  <2> TAKE i \in (at + 1)..(at + Len(s))
  <2>1. i \in 1..Len(buf)
    BY <1>1, SMT
  <2> QED
    BY <2>1, ElementOfSeq
<1>3. at + 1 \in Int /\ at + Len(s) \in Int /\ (at + Len(s)) - (at + 1) + 1 = Len(s)
  BY <1>1, SMT
<1>4. /\ t \in Seq(Byte)
      /\ Len(t) = IF at + 1 <= at + Len(s) THEN (at + Len(s)) - (at + 1) + 1 ELSE 0
      /\ \A i \in 1..((at + Len(s)) - (at + 1) + 1) : t[i] = buf[(at + 1) + i - 1]
  BY <1>2, <1>3, SubSeqProperties
<1> HIDE DEF t
<1>5. Len(t) = Len(s)
  BY <1>1, <1>3, <1>4, SMT
<1>6. \A i \in 1..Len(s) : t[i] = s[i]
  <2> TAKE i \in 1..Len(s)
  <2>1. (at + 1) + i - 1 = at + i
    BY <1>1, SMT
  <2> QED
    BY <1>3, <1>4, <2>1 DEF Held
<1>7. t = s
  BY <1>4, <1>5, <1>6, SeqEqual
<1> QED
  BY <1>1, <1>7 DEF ReadBytes, t

\* PutVarint writes bytes.
LEMMA PutVarintBytes ==
  ASSUME NEW n \in UInt32
  PROVE  PutVarint(n) \in Seq(Byte) /\ Len(PutVarint(n)) = VarintLength(n)
<1>1. VarintLength(n) \in 1..5 /\ n \in Nat
  BY LengthBounds, SMT DEF UInt32
<1> DEFINE len == VarintLength(n)
           b(i) == Septet(n, len + 1 - i) + (IF i < len THEN 128 ELSE 0)
<1> HIDE DEF len
<1>2. \A i \in 1..len : b(i) \in Byte
  <2> TAKE i \in 1..len
  <2>1. len + 1 - i \in 1..5
    BY <1>1, SMT DEF len
  <2>2. Septet(n, len + 1 - i) \in 0..127
    BY <1>1, <2>1, SeptetRange
  <2> QED
    BY <2>2, SMT DEF Byte
<1>3. PutVarint(n) = [i \in 1..len |-> b(i)]
  BY DEF PutVarint, len
<1> HIDE DEF b
<1>4. len \in Nat
  BY <1>1 DEF len
<1>5. [i \in 1..len |-> b(i)] \in Seq(Byte) /\ Len([i \in 1..len |-> b(i)]) = len
  BY <1>2, <1>4, SMT
<1> QED
  BY <1>3, <1>5 DEF len

\* A varint that is held is read back.
LEMMA HeldVarint ==
  ASSUME NEW buf \in Seq(Byte), NEW at \in Nat, NEW n \in UInt32, Held(buf, at, PutVarint(n))
  PROVE  GetVarint(buf, at) = Got(n, at + Len(PutVarint(n)))
<1>1. Len(PutVarint(n)) = VarintLength(n)
  BY PutVarintBytes
<1>2. at + VarintLength(n) <= Len(buf) /\ \A i \in 1..VarintLength(n) : buf[at + i] = PutVarint(n)[i]
  BY <1>1 DEF Held
<1> QED
  BY <1>1, <1>2, VarintReadsBack

\* A string that is held with its zero byte is read back.
LEMMA HeldString ==
  ASSUME NEW buf \in Seq(Byte), NEW at \in Nat, NEW s \in Seq(Byte \ {0}),
         Held(buf, at, s \o << 0 >>)
  PROVE  ReadString(buf, at) = Got(s, at + Len(s) + 1)
<1> DEFINE Z == {z \in (at + 1)..Len(buf) : buf[z] = 0}
           e == at + Len(s) + 1
<1>1. s \in Seq(Byte) /\ <<0>> \in Seq(Byte) /\ Len(<<0>>) = 1 /\ <<0>>[1] = 0
  <2>1. 0 \in Byte
    BY SMT DEF Byte
  <2> QED
    BY <2>1, SeqMonotonic, SMT
<1>2. Held(buf, at, s) /\ Held(buf, at + Len(s), <<0>>)
  <2> DEFINE z == <<0>>
  <2>1. z \in Seq(Byte) /\ Held(buf, at, s \o z)
    BY <1>1
  <2> HIDE DEF z
  <2>2. Held(buf, at, s) /\ Held(buf, at + Len(s), z)
    BY <1>1, <2>1, HeldJoined
  <2> QED
    BY <2>2 DEF z
<1>3. Len(s) \in Nat /\ Len(buf) \in Nat /\ e <= Len(buf) /\ buf[e] = 0
  BY <1>1, <1>2, LenProperties, SMT DEF Held
<1>4. \A i \in 1..Len(s) : buf[at + i] # 0
  <2> TAKE i \in 1..Len(s)
  <2>1. s[i] \in Byte \ {0}
    BY ElementOfSeq
  <2> QED
    BY <1>2, <2>1 DEF Held
<1>5. e \in Z
  BY <1>3, SMT
<1>6. \A z \in Z : e <= z
  <2> SUFFICES ASSUME NEW z \in Z, z < e PROVE FALSE
    BY <1>3, SMT
  <2>1. z - at \in 1..Len(s) /\ at + (z - at) = z
    BY <1>3, SMT
  <2> QED
    BY <1>4, <2>1
<1>7. Z \subseteq Nat
  BY <1>3, SMT
<1>8. ReadString(buf, at) =
        LET end == CHOOSE z \in Z : \A y \in Z : z <= y
        IN  Got(SubSeq(buf, at + 1, end - 1), end)
  BY <1>5 DEF ReadString
<1>9. e - 1 = at + Len(s)
  BY <1>3, SMT
<1> HIDE DEF Z, e
<1>10. (CHOOSE z \in Z : \A y \in Z : z <= y) = e
  BY <1>5, <1>6, <1>7, Smallest
<1>11. ReadString(buf, at) = Got(SubSeq(buf, at + 1, at + Len(s)), e)
  BY <1>8, <1>9, <1>10
<1>12. SubSeq(buf, at + 1, at + Len(s)) = s
  <2>1. ReadBytes(buf, at, Len(s)) = Got(s, at + Len(s))
    BY <1>1, <1>2, HeldBytes
  <2>2. ReadBytes(buf, at, Len(s)) = Got(SubSeq(buf, at + 1, at + Len(s)), at + Len(s))
    BY <1>2 DEF Held, ReadBytes
  <2> DEFINE t == SubSeq(buf, at + 1, at + Len(s))
  <2> HIDE DEF t
  <2>3. Got(s, at + Len(s)) = Got(t, at + Len(s))
    BY <2>1, <2>2 DEF t
  <2>4. Got(s, at + Len(s)).value = s /\ Got(t, at + Len(s)).value = t
    BY GotFields
  <2>5. s = t
    BY <2>3, <2>4
  <2> QED
    BY <2>5 DEF t
<1> QED
  BY <1>11, <1>12 DEF e

\* The bytes between the type and the payload.
LengthBytes(v) == IF v.type \in LengthTypes THEN PutVarint(Len(v.bytes)) ELSE <<>>

\* The bytes of a value: its type, its length if it is stored, and its own.
LEMMA ValueParts ==
  ASSUME NEW v, IsValue(v)
  PROVE  /\ <<v.type>> \in Seq(Byte) /\ LengthBytes(v) \in Seq(Byte) /\ v.bytes \in Seq(Byte)
         /\ ValueBytes(v) = (<<v.type>> \o LengthBytes(v)) \o v.bytes
         /\ ValueBytes(v) \in Seq(Byte)
         /\ v.type \in LengthTypes => Len(v.bytes) \in UInt32
         /\ v.type \notin LengthTypes =>
                IF v.type \in NumberTypes THEN Len(v.bytes) = 8
                ELSE v.type \in {0, 5} /\ v.bytes = <<>>
<1>1. v.bytes \in Seq(Byte) /\ Len(v.bytes) \in Nat
  BY LenProperties DEF IsValue
<1>2. NumberTypes = {1, 2} /\ LengthTypes = {3, 4}
  BY DEF NumberTypes, LengthTypes
<1>3. v \in {Null, Undefined} => v.type \in {0, 5} /\ v.bytes = <<>>
  BY DEF Null, Undefined
<1>4. v.type \in 0..5
  BY <1>2, <1>3, SMT DEF IsValue
<1>5. v.type \in LengthTypes => Len(v.bytes) \in UInt32
  <2> SUFFICES ASSUME v.type \in LengthTypes PROVE Len(v.bytes) \in UInt32
    OBVIOUS
  <2>1. Len(v.bytes) \div 16 < Weight[5]
    BY <1>2, <1>3, SMT DEF IsValue
  <2>2. \A n \in Nat : n \div 16 < Weight[5] => n \in UInt32
    BY Weights, SMT DEF UInt32
  <2>3. PICK n \in Nat : n = Len(v.bytes)
    BY <1>1
  <2>4. n \div 16 < Weight[5]
    BY <2>1, <2>3
  <2>5. n \in UInt32
    BY <2>2, <2>4
  <2> QED
    BY <2>3, <2>5
<1>6. LengthBytes(v) \in Seq(Byte)
  BY <1>5, PutVarintBytes, EmptySeq DEF LengthBytes
<1>7. <<v.type>> \in Seq(Byte)
  BY <1>4, SMT DEF Byte
<1>8. ValueBytes(v) = (<<v.type>> \o LengthBytes(v)) \o v.bytes
  BY DEF ValueBytes, LengthBytes
<1>9. ValueBytes(v) \in Seq(Byte)
  <2>1. <<v.type>> \o LengthBytes(v) \in Seq(Byte)
    BY <1>6, <1>7, ConcatProperties
  <2> QED
    BY <1>1, <1>8, <2>1, ConcatProperties
<1>10. v.type \notin LengthTypes =>
        IF v.type \in NumberTypes THEN Len(v.bytes) = 8 ELSE v.type \in {0, 5} /\ v.bytes = <<>>
  BY <1>2, <1>3, SMT DEF IsValue
<1> QED
  BY <1>1, <1>5, <1>6, <1>7, <1>8, <1>9, <1>10

\* A value that is held is read back.
LEMMA HeldValueBytes ==
  ASSUME NEW buf \in Seq(Byte), NEW at \in Nat, NEW v, IsValue(v), Held(buf, at, ValueBytes(v))
  PROVE  ReadValue(buf, at) = Got(v, at + Len(ValueBytes(v)))
<1> DEFINE T == <<v.type>>
           L == LengthBytes(v)
           B == v.bytes
           W == ValueBytes(v)
<1>1. T \in Seq(Byte) /\ L \in Seq(Byte) /\ B \in Seq(Byte) /\ W = (T \o L) \o B
  BY ValueParts
<1>2. Len(T) = 1
  OBVIOUS
<1>3. Held(buf, at, W)
  OBVIOUS
<1> HIDE DEF L, T, B, W
<1>4. T \o L \in Seq(Byte) /\ Len(T \o L) = Len(T) + Len(L) /\ Len(L) \in Nat
  BY <1>1, JoinedBytes
<1>5. Len(W) = Len(T \o L) + Len(B) /\ Len(B) \in Nat
  BY <1>1, <1>4, JoinedBytes
<1>6. Held(buf, at, T \o L) /\ Held(buf, at + Len(T \o L), B)
  BY <1>1, <1>3, <1>4, HeldJoined
<1>7. Held(buf, at, T) /\ Held(buf, at + Len(T), L)
  BY <1>1, <1>6, HeldJoined
<1> DEFINE mid == at + 1 + Len(L)
<1>8. /\ at + Len(T) = at + 1 /\ at + Len(T \o L) = mid /\ mid + Len(B) = at + Len(W)
      /\ mid \in Nat /\ at + 1 \in Nat
  BY <1>2, <1>4, <1>5, SMT
<1> HIDE DEF mid
<1>9. ReadByte(buf, at) = Got(v.type, at + 1)
  BY <1>7, HeldByte DEF T
<1>10. ReadLength(buf, at + 1, v.type) = Got(Len(B), mid)
  <2>1. CASE v.type \in LengthTypes
    <3>1. Len(B) \in UInt32 /\ L = PutVarint(Len(B))
      <4>1. Len(v.bytes) \in UInt32
        BY <2>1, ValueParts
      <4> QED
        BY <2>1, <4>1 DEF L, B, LengthBytes
    <3>2. Held(buf, at + 1, PutVarint(Len(B)))
      BY <1>7, <1>8, <3>1
    <3>3. GetVarint(buf, at + 1) = Got(Len(B), at + 1 + Len(PutVarint(Len(B))))
      BY <1>8, <3>1, <3>2, HeldVarint
    <3>4. GetVarint(buf, at + 1) = Got(Len(B), mid)
      BY <3>1, <3>3 DEF mid
    <3> QED
      BY <2>1, <3>4, LengthCases
  <2>2. CASE v.type \notin LengthTypes
    <3>1. L = <<>>
      BY <2>2 DEF L, LengthBytes
    <3>2. mid = at + 1
      <4>1. Len(L) = 0
        BY <3>1
      <4> QED
        BY <4>1, SMT DEF mid
    <3>3. CASE v.type \in NumberTypes
      <4>1. Len(B) = 8
        BY <2>2, <3>3, ValueParts DEF B
      <4> QED
        BY <3>2, <3>3, <4>1, LengthCases
    <3>4. CASE v.type \notin NumberTypes
      <4>1. v.type \in {0, 5} /\ B = <<>>
        BY <2>2, <3>4, ValueParts DEF B
      <4>2. Len(B) = 0
        BY <4>1
      <4> QED
        BY <3>2, <4>1, <4>2, LengthCases
    <3> QED
      BY <3>3, <3>4
  <2> QED
    BY <2>1, <2>2
<1>11. ReadBytes(buf, mid, Len(B)) = Got(B, mid + Len(B))
  <2>1. Held(buf, mid, B)
    BY <1>6, <1>8
  <2> QED
    BY <1>1, <1>8, <2>1, HeldBytes
<1>12. v = [type |-> v.type, bytes |-> B]
  BY DEF IsValue, B
<1>13. ReadValue(buf, at) = Got([type |-> v.type, bytes |-> B], mid + Len(B))
  <2>1. ReadByte(buf, at).ok /\ ReadByte(buf, at).value = v.type /\ ReadByte(buf, at).at = at + 1
    BY <1>9, GotFields
  <2> DEFINE length == ReadLength(buf, at + 1, v.type)
             bytes == ReadBytes(buf, mid, Len(B))
  <2>2. length.ok /\ length.value = Len(B) /\ length.at = mid
    BY <1>10, GotFields
  <2>3. bytes.ok /\ bytes.value = B /\ bytes.at = mid + Len(B)
    BY <1>11, GotFields
  <2> QED
    BY <2>1, <2>2, <2>3 DEF ReadValue, Then
<1> QED
  BY <1>8, <1>12, <1>13 DEF W

\* Induction over the naturals.
LEMMA AllNaturals ==
    ASSUME NEW T, 0 \in T, \A n \in Nat : n \in T => n + 1 \in T
    PROVE  Nat \subseteq T
<1> DEFINE B == {n \in Nat : n \notin T}
           R == OpToRel(<, Nat)
<1>1. SUFFICES ASSUME B # {} PROVE FALSE
  OBVIOUS
<1>2. PICK m \in B : \A n \in B : ~(<<n, m>> \in R)
  <2>1. B \subseteq Nat
    OBVIOUS
  <2> HIDE DEF B, R
  <2> QED
    BY <1>1, <2>1, NatLessThanWellFounded, WFMin DEF R
<1>3. \A n \in B : ~(n < m)
  BY <1>2 DEF OpToRel
<1>4. m \in Nat /\ m # 0 /\ m \notin T
  OBVIOUS
<1>5. m - 1 \in Nat /\ m - 1 < m /\ (m - 1) + 1 = m
  BY <1>4
<1>6. m - 1 \in T
  BY <1>3, <1>5
<1> QED
  BY <1>4, <1>5, <1>6

\* The same up to a bound.
LEMMA UpTo ==
    ASSUME NEW N \in Nat, NEW T, 0 \in T, \A n \in 0..(N - 1) : n \in T => n + 1 \in T
    PROVE  0..N \subseteq T
<1> DEFINE U == {n \in Nat : n <= N => n \in T}
<1>1. 0 \in U /\ \A n \in Nat : n \in U => n + 1 \in U
  OBVIOUS
<1> HIDE DEF U
<1>2. Nat \subseteq U
  BY <1>1, AllNaturals
<1> QED
  BY <1>2 DEF U


(* The recursion of FlattenSeq *)

\* The first sequences of a sequence of sequences, flattened step by step.
FlatUpTo(seqs, N, flat) ==
    flat = [i \in 1..N |-> IF i = 1 THEN seqs[i] ELSE flat[i - 1] \o seqs[i]]

\* A recursive function of the natural numbers exists: by induction over its length.
LEMMA FlatExist ==
    ASSUME NEW seqs, NEW N \in Nat
    PROVE  \E flat : FlatUpTo(seqs, N, flat)
<1> DEFINE T == {n \in Nat : \E flat : FlatUpTo(seqs, n, flat)}
<1>1. 0 \in T
  <2> DEFINE none == [i \in 1..0 |-> seqs[i]]
  <2>1. FlatUpTo(seqs, 0, none)
    BY DEF FlatUpTo
  <2> QED
    BY <2>1
<1>2. ASSUME NEW n \in Nat, n \in T PROVE n + 1 \in T
  <2>1. PICK f : FlatUpTo(seqs, n, f)
    BY <1>2
  <2> DEFINE next == IF n + 1 = 1 THEN seqs[n + 1] ELSE f[n] \o seqs[n + 1]
             g == [i \in 1..(n + 1) |-> IF i = n + 1 THEN next ELSE f[i]]
  <2> HIDE DEF next
  <2>2. g[n + 1] = next /\ \A i \in 1..n : g[i] = f[i]
    OBVIOUS
  <2>3. f = [i \in 1..n |-> IF i = 1 THEN seqs[i] ELSE f[i - 1] \o seqs[i]]
    BY <2>1 DEF FlatUpTo
  <2> HIDE DEF g
  <2>4. ASSUME NEW i \in 1..(n + 1)
        PROVE  g[i] = IF i = 1 THEN seqs[i] ELSE g[i - 1] \o seqs[i]
    <3>1. CASE i = n + 1 /\ i = 1
      BY <2>2, <3>1 DEF next
    <3>2. CASE i = n + 1 /\ i # 1
      <4>1. i - 1 = n /\ n \in 1..n
        BY <3>2
      <4> QED
        BY <2>2, <3>2, <4>1 DEF next
    <3>3. CASE i = 1 /\ i # n + 1
      BY <2>2, <2>3, <3>3
    <3>4. CASE i # 1 /\ i # n + 1
      <4>1. i - 1 \in 1..n /\ i \in 1..n
        BY <3>4
      <4>2. f[i] = f[i - 1] \o seqs[i]
        BY <2>3, <3>4, <4>1
      <4> QED
        BY <2>2, <3>4, <4>1, <4>2
    <3> QED
      BY <3>1, <3>2, <3>3, <3>4
  <2>5. FlatUpTo(seqs, n + 1, g)
    <3>1. g = [i \in 1..(n + 1) |-> g[i]]
      BY DEF g
    <3> QED
      BY <2>4, <3>1 DEF FlatUpTo
  <2> QED
    BY <2>5
<1> HIDE DEF T
<1>3. Nat \subseteq T
  BY <1>1, <1>2, AllNaturals
<1> QED
  BY <1>3 DEF T

\* FlattenSeq joins the sequences one by one.
LEMMA FlatSteps ==
    ASSUME NEW seqs, Len(seqs) \in Nat, Len(seqs) # 0
    PROVE  \E flat : /\ FlattenSeq(seqs) = flat[Len(seqs)]
                     /\ flat[1] = seqs[1]
                     /\ \A n \in 1..(Len(seqs) - 1) : flat[n + 1] = flat[n] \o seqs[n + 1]
<1> DEFINE N == Len(seqs)
           flat == CHOOSE f : FlatUpTo(seqs, N, f)
<1>1. FlatUpTo(seqs, N, flat)
  BY FlatExist
<1>2. FlattenSeq(seqs) = flat[N]
  BY DEF FlattenSeq, FlatUpTo
<1> HIDE DEF flat, N
<1>3. N \in Nat /\ N # 0
  BY DEF N
<1>4. flat[1] = seqs[1]
  BY <1>1, <1>3 DEF FlatUpTo
<1>5. ASSUME NEW n \in 1..(N - 1) PROVE flat[n + 1] = flat[n] \o seqs[n + 1]
  <2>1. n + 1 \in 1..N /\ n + 1 # 1 /\ (n + 1) - 1 = n
    BY <1>3
  <2> QED
    BY <1>1, <2>1 DEF FlatUpTo
<1> QED
  BY <1>2, <1>4, <1>5 DEF N

-----------------------------------------------------------------------------
(* The loop of ReadRow *)

\* The columns of a row read one by one.
ColumnsUpTo(buf, at, N, row) ==
    row = [i \in 0..N |-> IF i = 0 THEN Got(<<>>, at) ELSE NextValue(buf, row[i - 1])]

\* Such a reading exists, for the same reason.
LEMMA ColumnsExist ==
    ASSUME NEW buf, NEW at, NEW N \in Nat
    PROVE  \E row : ColumnsUpTo(buf, at, N, row)
<1> DEFINE T == {n \in Nat : \E row : ColumnsUpTo(buf, at, n, row)}
<1>1. 0 \in T
  <2> DEFINE none == [i \in 0..0 |-> Got(<<>>, at)]
  <2>1. ColumnsUpTo(buf, at, 0, none)
    BY DEF ColumnsUpTo
  <2> QED
    BY <2>1
<1>2. ASSUME NEW n \in Nat, n \in T PROVE n + 1 \in T
  <2>1. PICK f : ColumnsUpTo(buf, at, n, f)
    BY <1>2
  <2> DEFINE g == [i \in 0..(n + 1) |-> IF i = n + 1 THEN NextValue(buf, f[n]) ELSE f[i]]
  <2>2. g[n + 1] = NextValue(buf, f[n]) /\ \A i \in 0..n : g[i] = f[i]
    OBVIOUS
  <2>3. f = [i \in 0..n |-> IF i = 0 THEN Got(<<>>, at) ELSE NextValue(buf, f[i - 1])]
    BY <2>1 DEF ColumnsUpTo
  <2>4. ASSUME NEW i \in 0..(n + 1)
        PROVE  g[i] = IF i = 0 THEN Got(<<>>, at) ELSE NextValue(buf, g[i - 1])
    <3> HIDE DEF g
    <3>1. CASE i = n + 1
      <4>1. i # 0 /\ i - 1 = n /\ n \in 0..n
        BY <3>1
      <4> QED
        BY <2>2, <3>1, <4>1
    <3>2. CASE i = 0
      BY <2>2, <2>3, <3>2
    <3>3. CASE i \in 1..n
      <4>1. i - 1 \in 0..n /\ i \in 0..n /\ i # 0
        BY <3>3
      <4>2. f[i] = NextValue(buf, f[i - 1])
        BY <2>3, <4>1
      <4> QED
        BY <2>2, <4>1, <4>2
    <3> QED
      BY <3>1, <3>2, <3>3
  <2>5. ColumnsUpTo(buf, at, n + 1, g)
    <3>1. g = [i \in 0..(n + 1) |-> g[i]]
      OBVIOUS
    <3> HIDE DEF g
    <3> QED
      BY <2>4, <3>1 DEF ColumnsUpTo
  <2> QED
    BY <2>5
<1> HIDE DEF T
<1>3. Nat \subseteq T
  BY <1>1, <1>2, AllNaturals
<1> QED
  BY <1>3 DEF T

\* What has been read of a row after each column.
RowLoop(buf, at, columns, row) ==
    /\ ReadRow(buf, at, columns) = row[columns]
    /\ row[0] = Got(<<>>, at)
    /\ \A i \in 0..(columns - 1) : row[i + 1] = NextValue(buf, row[i])

\* ReadRow is that reading.
LEMMA ColumnSteps ==
    ASSUME NEW buf, NEW at, NEW columns \in Nat
    PROVE  \E row : RowLoop(buf, at, columns, row)
<1> DEFINE row == CHOOSE r : ColumnsUpTo(buf, at, columns, r)
<1>1. ColumnsUpTo(buf, at, columns, row)
  BY ColumnsExist
<1>2. ReadRow(buf, at, columns) = row[columns]
  BY DEF ReadRow, ColumnsUpTo
<1> HIDE DEF row
<1>3. row[0] = Got(<<>>, at)
  BY <1>1 DEF ColumnsUpTo
<1>4. ASSUME NEW i \in 0..(columns - 1) PROVE row[i + 1] = NextValue(buf, row[i])
  <2>1. i + 1 \in 0..columns /\ i + 1 # 0 /\ (i + 1) - 1 = i
    OBVIOUS
  <2> QED
    BY <1>1, <2>1 DEF ColumnsUpTo
<1> QED
  BY <1>2, <1>3, <1>4 DEF RowLoop

\* One value more.
LEMMA NextValueCases ==
  ASSUME NEW buf, NEW row
  PROVE  /\ ~row.ok => NextValue(buf, row) = Nothing
         /\ row.ok /\ ~ReadValue(buf, row.at).ok => NextValue(buf, row) = Nothing
         /\ row.ok /\ ReadValue(buf, row.at).ok =>
                NextValue(buf, row) = Got(Append(row.value, ReadValue(buf, row.at).value),
                                          ReadValue(buf, row.at).at)
  BY DEF NextValue, Then

\* A row of a first part is the file's.
LEMMA SameRow ==
  ASSUME NEW p, NEW buf, Begins(p, buf), NEW at \in 0..Len(p), NEW columns \in Nat
  PROVE  SameRead(ReadRow(p, at, columns), ReadRow(buf, at, columns), at, Len(p))
<1>0. Len(p) \in Nat /\ at \in at..Len(p)
  <2>1. Len(p) \in Nat
    BY LenProperties DEF Begins
  <2> QED
    BY <2>1, SMT
<1>1. PICK f : RowLoop(p, at, columns, f)
  BY ColumnSteps
<1>2. PICK g : RowLoop(buf, at, columns, g)
  BY ColumnSteps
<1> DEFINE T == {i \in 0..columns : SameRead(f[i], g[i], at, Len(p))}
<1>3. 0 \in T
  BY <1>0, <1>1, <1>2, SameGot DEF RowLoop
<1>4. ASSUME NEW i \in 0..(columns - 1), i \in T PROVE i + 1 \in T
  <2>1. f[i + 1] = NextValue(p, f[i]) /\ g[i + 1] = NextValue(buf, g[i]) /\ i + 1 \in 0..columns
    BY <1>1, <1>2 DEF RowLoop
  <2>2. CASE f[i] = Nothing
    <3>1. f[i + 1] = Nothing
      BY <2>1, <2>2, NextValueCases, GotFields
    <3> QED
      BY <2>1, <3>1, SameNothing
  <2>3. CASE f[i] # Nothing
    <3>1. f[i] = g[i] /\ f[i] = Got(f[i].value, f[i].at) /\ f[i].at \in at..Len(p)
      BY <1>4, <2>3 DEF SameRead
    <3> DEFINE v == ReadValue(p, f[i].at)
    <3>2. f[i].ok /\ f[i].at \in 0..Len(p) /\ at <= f[i].at
      <4>1. f[i].ok
        BY <3>1, GotFields
      <4> QED
        BY <1>0, <3>1, <4>1, SMT
    <3>3. SameRead(v, ReadValue(buf, f[i].at), f[i].at + 1, Len(p))
      BY <3>2, SameValue
    <3>4. CASE v = Nothing
      <4>1. f[i + 1] = Nothing
        BY <2>1, <3>2, <3>4, NextValueCases, GotFields
      <4> QED
        BY <2>1, <4>1, SameNothing
    <3>5. CASE v # Nothing
      <4>1. v = ReadValue(buf, f[i].at) /\ v = Got(v.value, v.at) /\ v.at \in (f[i].at + 1)..Len(p)
        BY <3>3, <3>5 DEF SameRead
      <4>2. v.ok
        BY <4>1, GotFields
      <4>3. f[i + 1] = Got(Append(f[i].value, v.value), v.at)
        BY <2>1, <3>2, <4>2, NextValueCases
      <4>4. g[i + 1] = Got(Append(f[i].value, v.value), v.at)
        BY <2>1, <3>1, <3>2, <4>1, <4>2, NextValueCases
      <4> HIDE DEF v
      <4>5. v.at \in at..Len(p)
        BY <1>0, <3>2, <4>1, SMT
      <4> QED
        BY <2>1, <4>3, <4>4, <4>5, SameGot
    <3> QED
      BY <3>4, <3>5
  <2> QED
    BY <2>2, <2>3
<1> HIDE DEF T
<1>5. 0..columns \subseteq T
  BY <1>3, <1>4, UpTo
<1>6. columns \in 0..columns
  OBVIOUS
<1> QED
  BY <1>1, <1>2, <1>5, <1>6 DEF T, RowLoop

\* A row of n values.
RowOf(row, n) == row = [i \in 1..n |-> row[i]] /\ \A i \in 1..n : IsValue(row[i])

\* The bytes of the first i values of a row.
LEMMA RowParts ==
  ASSUME NEW n \in Nat, NEW row, RowOf(row, n)
  PROVE  \E part : /\ part[0] = <<>> /\ part[n] = RowBytes(row)
                   /\ \A i \in 0..n : part[i] \in Seq(Byte)
                   /\ \A i \in 0..(n - 1) : part[i + 1] = part[i] \o ValueBytes(row[i + 1])
<1> DEFINE bytes == [i \in 1..n |-> ValueBytes(row[i])]
<1>1. DOMAIN row = 1..n /\ Len(bytes) = n /\ \A i \in 1..n : ValueBytes(row[i]) \in Seq(Byte)
  <2>1. DOMAIN row = 1..n
    BY DEF RowOf
  <2>2. \A i \in 1..n : ValueBytes(row[i]) \in Seq(Byte)
    BY ValueParts DEF RowOf
  <2> QED
    BY <2>1, <2>2
<1>2. RowBytes(row) = FlattenSeq(bytes)
  BY <1>1 DEF RowBytes
<1>3. \A i \in 1..n : bytes[i] = ValueBytes(row[i])
  OBVIOUS
<1> HIDE DEF bytes
<1>4. CASE n = 0
  <2> DEFINE part == [i \in 0..0 |-> <<>>]
  <2>1. FlattenSeq(bytes) = <<>>
    <3>1. bytes = <<>>
      BY <1>4 DEF bytes
    <3> QED
      BY <1>1, <1>4, <3>1 DEF FlattenSeq
  <2>2. part[0] = <<>> /\ \A i \in 0..n : part[i] = <<>>
    BY <1>4
  <2>3. 0..(n - 1) = {}
    BY <1>4
  <2> HIDE DEF part
  <2>4. \A i \in 0..n : part[i] \in Seq(Byte)
    BY <2>2, EmptySeq
  <2> QED
    BY <1>2, <1>4, <2>1, <2>2, <2>3, <2>4
<1>5. CASE n # 0
  <2>1. PICK flat : /\ FlattenSeq(bytes) = flat[Len(bytes)]
                    /\ flat[1] = bytes[1]
                    /\ \A k \in 1..(Len(bytes) - 1) : flat[k + 1] = flat[k] \o bytes[k + 1]
    BY <1>1, <1>5, FlatSteps
  <2> DEFINE part == [i \in 0..n |-> IF i = 0 THEN <<>> ELSE flat[i]]
  <2>2. part[0] = <<>> /\ part[n] = flat[n] /\ \A i \in 1..n : part[i] = flat[i]
    BY <1>5
  <2> HIDE DEF part
  <2>3. ASSUME NEW i \in 0..(n - 1) PROVE flat[i + 1] = part[i] \o ValueBytes(row[i + 1])
    <3>1. CASE i = 0
      <4>1. 1 \in 1..n /\ 0 + 1 = 1
        BY <1>5, SMT
      <4>2. flat[1] = ValueBytes(row[1]) /\ ValueBytes(row[1]) \in Seq(Byte)
        BY <1>1, <1>3, <2>1, <4>1
      <4> QED
        BY <2>2, <3>1, <4>1, <4>2, ConcatEmptySeq
    <3>2. CASE i # 0
      <4>1. i \in 1..(n - 1) /\ i \in 1..n /\ i + 1 \in 1..n
        BY <3>2, SMT
      <4>2. flat[i + 1] = flat[i] \o bytes[i + 1]
        BY <1>1, <2>1, <4>1
      <4> QED
        BY <1>3, <2>2, <4>1, <4>2
    <3> QED
      BY <3>1, <3>2
  <2>4. \A i \in 0..(n - 1) : part[i + 1] = part[i] \o ValueBytes(row[i + 1])
    <3> TAKE i \in 0..(n - 1)
    <3>1. i + 1 \in 1..n
      BY SMT
    <3> QED
      BY <2>2, <2>3, <3>1
  <2> DEFINE T == {i \in 0..n : part[i] \in Seq(Byte)}
  <2>5. 0 \in T
    <3>1. 0 \in 0..n /\ part[0] \in Seq(Byte)
      BY <2>2, EmptySeq, SMT
    <3> QED
      BY <3>1
  <2>6. ASSUME NEW i \in 0..(n - 1), i \in T PROVE i + 1 \in T
    <3>1. i + 1 \in 1..n /\ i + 1 \in 0..n
      BY SMT
    <3>2. part[i + 1] = part[i] \o ValueBytes(row[i + 1]) /\ ValueBytes(row[i + 1]) \in Seq(Byte)
      BY <1>1, <2>4, <3>1
    <3>3. part[i] \in Seq(Byte)
      BY <2>6
    <3> QED
      BY <3>1, <3>2, <3>3, JoinedBytes
  <2> HIDE DEF T
  <2>7. 0..n \subseteq T
    BY <2>5, <2>6, UpTo
  <2>8. \A i \in 0..n : part[i] \in Seq(Byte)
    BY <2>7 DEF T
  <2> QED
    BY <1>1, <1>2, <2>1, <2>2, <2>4, <2>8
<1> QED
  BY <1>4, <1>5

\* A row that is held is read back, by induction over its columns.
LEMMA HeldRowBytes ==
  ASSUME NEW buf \in Seq(Byte), NEW at \in Nat, NEW n \in Nat, NEW row, RowOf(row, n),
         Held(buf, at, RowBytes(row))
  PROVE  ReadRow(buf, at, n) = Got(row, at + Len(RowBytes(row)))
<1>1. PICK part : /\ part[0] = <<>> /\ part[n] = RowBytes(row)
                  /\ \A i \in 0..n : part[i] \in Seq(Byte)
                  /\ \A i \in 0..(n - 1) : part[i + 1] = part[i] \o ValueBytes(row[i + 1])
  BY RowParts
<1>2. PICK f : RowLoop(buf, at, n, f)
  BY ColumnSteps
<1> DEFINE first(i) == [k \in 1..i |-> row[k]]
           T == {i \in 0..n : Held(buf, at, part[i]) => f[i] = Got(first(i), at + Len(part[i]))}
<1>3. 0 \in T
  <2>1. first(0) = <<>> /\ Len(part[0]) = 0 /\ at + 0 = at
    BY <1>1
  <2>2. f[0] = Got(<<>>, at)
    BY <1>2 DEF RowLoop
  <2>3. f[0] = Got(first(0), at + Len(part[0]))
    BY <2>1, <2>2, Zenon
  <2> QED
    BY <2>3
<1>4. ASSUME NEW i \in 0..(n - 1), i \in T PROVE i + 1 \in T
  <2> DEFINE a == at + Len(part[i])
             w == ValueBytes(row[i + 1])
  <2> SUFFICES ASSUME Held(buf, at, part[i + 1])
               PROVE  f[i + 1] = Got(first(i + 1), at + Len(part[i + 1]))
    OBVIOUS
  <2>1. i \in 0..n /\ i + 1 \in 1..n
    BY SMT
  <2>2. IsValue(row[i + 1])
    BY <2>1 DEF RowOf
  <2>3. part[i + 1] = part[i] \o w /\ part[i] \in Seq(Byte) /\ w \in Seq(Byte)
    BY <1>1, <2>1, <2>2, ValueParts
  <2> HIDE DEF w
  <2>4. Held(buf, at, part[i]) /\ Held(buf, a, w) /\ a \in Nat
        /\ a + Len(w) = at + Len(part[i + 1])
    <3>1. Len(part[i + 1]) = Len(part[i]) + Len(w) /\ Len(part[i]) \in Nat /\ Len(w) \in Nat
      BY <2>3, JoinedBytes
    <3>2. Held(buf, at, part[i]) /\ Held(buf, at + Len(part[i]), w)
      BY <2>3, HeldJoined
    <3>3. at + Len(part[i]) \in Nat /\ at + Len(part[i]) + Len(w) = at + Len(part[i + 1])
      BY <3>1, SMT
    <3> QED
      BY <3>2, <3>3
  <2>5. f[i] = Got(first(i), a)
    BY <1>4, <2>4
  <2>6. ReadValue(buf, a) = Got(row[i + 1], a + Len(w))
    <3> HIDE DEF a
    <3> QED
      BY <2>2, <2>4, HeldValueBytes DEF w
  <2>7. f[i + 1] = NextValue(buf, f[i])
    BY <1>2 DEF RowLoop
  <2> HIDE DEF a, first
  <2>8. f[i + 1] = Got(Append(first(i), row[i + 1]), a + Len(w))
    <3>1. f[i].ok /\ f[i].value = first(i) /\ f[i].at = a
      BY <2>5, GotFields
    <3>2. ReadValue(buf, f[i].at).ok
          /\ ReadValue(buf, f[i].at).value = row[i + 1] /\ ReadValue(buf, f[i].at).at = a + Len(w)
      BY <2>6, <3>1, GotFields
    <3> QED
      BY <2>7, <3>1, <3>2, NextValueCases
  <2>9. Append(first(i), row[i + 1]) = first(i + 1)
    BY <2>1, SMT DEF first
  <2> QED
    BY <2>4, <2>8, <2>9 DEF a
<1> HIDE DEF T
<1>5. 0..n \subseteq T
  BY <1>3, <1>4, UpTo
<1>6. f[n] = Got(first(n), at + Len(RowBytes(row)))
  <2>1. n \in T
    BY <1>5
  <2> QED
    BY <1>1, <2>1 DEF T
<1>7. first(n) = row
  BY DEF RowOf
<1> QED
  BY <1>2, <1>6, <1>7 DEF RowLoop

-----------------------------------------------------------------------------
(* Table headers *)

\* The widths of tables are 32-bit numbers.
LEMMA ColumnBounds ==
  \A n \in 1..MostColumns : n \in Nat /\ ~(n > MostColumns) /\ n \in UInt32
<1>1. MostColumns \in Nat /\ MostColumns < 16 * 268435456
  BY SMT DEF MostColumns
<1>2. \A k \in Nat : \A n \in 1..k : n \in Nat /\ ~(n > k) /\ n <= k
  BY SMT
<1>3. \A k, m \in Nat : \A n \in Nat : n <= k /\ k < m => n < m
  BY SMT
<1>4. 16 * 268435456 \in Nat
  BY SMT
<1>5. ASSUME NEW n \in 1..MostColumns PROVE n < 16 * 268435456
  <2>1. n \in Nat /\ n <= MostColumns
    BY <1>1, <1>2, SMT
  <2> QED
    BY <1>1, <1>3, <1>4, <2>1, SMT
<1> QED
  BY <1>1, <1>2, <1>5, SMT DEF UInt32

\* The key flags of a header.
FlagBytes(t) == [i \in 1..Columns(t) |-> IF t.pks[i] THEN 1 ELSE 0]

\* The parts of a header, each made of bytes.
LEMMA HeaderParts ==
  ASSUME NEW t, IsTable(t)
  PROVE  /\ Columns(t) \in UInt32 /\ Columns(t) \in 1..MostColumns
         /\ FlagBytes(t) \in Seq(Byte) /\ Len(FlagBytes(t)) = Columns(t)
         /\ t.pks = [i \in 1..Columns(t) |-> FlagBytes(t)[i] # 0]
         /\ t.name \in Seq(Byte) /\ t.name \in Seq(Byte \ {0})
         /\ <<TableMark>> \in Seq(Byte) /\ <<0>> \in Seq(Byte) /\ TableMark = 84
         /\ Header(t) = (((<<TableMark>> \o PutVarint(Columns(t))) \o FlagBytes(t)) \o t.name)
                        \o <<0>>
<1>1. Columns(t) \in 1..MostColumns /\ t.pks \in Seq(BOOLEAN) /\ t.name \in Seq(Byte \ {0})
  BY DEF IsTable
<1>2. Columns(t) \in UInt32
  BY <1>1, ColumnBounds
<1>3. FlagBytes(t) \in Seq(Byte) /\ Len(FlagBytes(t)) = Columns(t)
  <2> DEFINE n == Columns(t)
  <2>1. n \in Nat
    BY <1>1, SMT
  <2>2. \A i \in 1..n : (IF t.pks[i] THEN 1 ELSE 0) \in Byte
    BY SMT DEF Byte
  <2>3. FlagBytes(t) = [i \in 1..n |-> IF t.pks[i] THEN 1 ELSE 0]
    BY DEF FlagBytes
  <2> HIDE DEF n
  <2>4. FlagBytes(t) \in Seq(Byte) /\ Len(FlagBytes(t)) = n
    BY <2>1, <2>2, <2>3, SMT
  <2> QED
    BY <2>4 DEF n
<1>4. t.pks = [i \in 1..Columns(t) |-> FlagBytes(t)[i] # 0]
  <2>1. t.pks = [i \in 1..Columns(t) |-> t.pks[i]] /\ \A i \in 1..Columns(t) : t.pks[i] \in BOOLEAN
    BY <1>1, LenProperties DEF Columns
  <2>2. \A i \in 1..Columns(t) : t.pks[i] = (FlagBytes(t)[i] # 0)
    <3> TAKE i \in 1..Columns(t)
    <3>1. FlagBytes(t)[i] = IF t.pks[i] THEN 1 ELSE 0
      BY DEF FlagBytes
    <3>2. CASE t.pks[i] = TRUE
      <4>1. FlagBytes(t)[i] = 1
        BY <3>1, <3>2
      <4>2. (FlagBytes(t)[i] # 0) = TRUE
        BY <4>1, SMT
      <4> QED
        BY <3>2, <4>2
    <3>3. CASE t.pks[i] = FALSE
      <4>1. FlagBytes(t)[i] = 0
        BY <3>1, <3>3
      <4>2. (FlagBytes(t)[i] # 0) = FALSE
        BY <4>1
      <4> QED
        BY <3>3, <4>2
    <3> QED
      BY <2>1, <3>2, <3>3
  <2> QED
    BY <2>1, <2>2
<1>5. t.name \in Seq(Byte)
  BY <1>1, SeqMonotonic
<1>6. <<TableMark>> \in Seq(Byte) /\ <<0>> \in Seq(Byte) /\ TableMark = 84
  <2>1. TableMark \in Byte /\ 0 \in Byte
    BY SMT DEF Byte, TableMark
  <2> QED
    BY <2>1, SMT DEF TableMark
<1>7. Header(t) = (((<<TableMark>> \o PutVarint(Columns(t))) \o FlagBytes(t)) \o t.name) \o <<0>>
  BY DEF Header, FlagBytes
<1> QED
  BY <1>1, <1>2, <1>3, <1>4, <1>5, <1>6, <1>7

\* A header is made of bytes, and not empty.
LEMMA HeaderBytes ==
  ASSUME NEW t, IsTable(t)
  PROVE  Header(t) \in Seq(Byte) /\ Len(Header(t)) \in Nat \ {0}
<1> DEFINE M == <<TableMark>>
           V == PutVarint(Columns(t))
           F == FlagBytes(t)
           Z == <<0>>
<1>1. /\ M \in Seq(Byte) /\ V \in Seq(Byte) /\ F \in Seq(Byte) /\ t.name \in Seq(Byte)
      /\ Z \in Seq(Byte) /\ Len(Z) = 1 /\ Header(t) = (((M \o V) \o F) \o t.name) \o Z
  BY HeaderParts, PutVarintBytes
<1> HIDE DEF M, V, F, Z
<1>2. M \o V \in Seq(Byte)
  BY <1>1, JoinedBytes
<1>3. (M \o V) \o F \in Seq(Byte)
  BY <1>1, <1>2, JoinedBytes
<1>4. ((M \o V) \o F) \o t.name \in Seq(Byte)
  BY <1>1, <1>3, JoinedBytes
<1> DEFINE A == ((M \o V) \o F) \o t.name
           n == Len(A)
<1>5. A \in Seq(Byte) /\ Header(t) = A \o Z
  BY <1>1, <1>4
<1> HIDE DEF A
<1>6. Header(t) \in Seq(Byte) /\ Len(Header(t)) = n + 1 /\ n \in Nat
  BY <1>1, <1>5, JoinedBytes
<1> HIDE DEF n
<1>7. n + 1 \in Nat \ {0}
  BY <1>6, SMT
<1> QED
  BY <1>6, <1>7

\* A header that is held is read back.
LEMMA HeldHeader ==
  ASSUME NEW buf \in Seq(Byte), NEW at \in Nat, NEW t, IsTable(t), Held(buf, at, Header(t))
  PROVE  /\ ReadByte(buf, at) = Got(TableMark, at + 1)
         /\ ReadHeader(buf, at + 1) = Got(t, at + Len(Header(t)))
<1> DEFINE n == Columns(t)
           M == <<TableMark>>
           V == PutVarint(n)
           F == FlagBytes(t)
           S == t.name
           Z == <<0>>
           H == Header(t)
<1>1. /\ M \in Seq(Byte) /\ V \in Seq(Byte) /\ F \in Seq(Byte)
      /\ S \in Seq(Byte) /\ S \in Seq(Byte \ {0}) /\ Z \in Seq(Byte)
  BY HeaderParts, PutVarintBytes
<1>2. n \in UInt32 /\ n \in 1..MostColumns /\ Len(M) = 1 /\ Len(F) = n /\ Len(Z) = 1
  BY HeaderParts
<1> DEFINE MV == M \o V
           MVF == MV \o F
           MVFS == MVF \o S
<1>6. H = MVFS \o Z /\ Held(buf, at, H)
  BY HeaderParts
<1> HIDE DEF n, M, V, F, S, Z, H, MV, MVF, MVFS
<1>3. MV \in Seq(Byte) /\ Len(MV) = Len(M) + Len(V) /\ Len(V) \in Nat
  BY <1>1, JoinedBytes DEF MV
<1>4. MVF \in Seq(Byte) /\ Len(MVF) = Len(MV) + Len(F)
  BY <1>1, <1>3, JoinedBytes DEF MVF
<1>5. MVFS \in Seq(Byte) /\ Len(MVFS) = Len(MVF) + Len(S) /\ Len(S) \in Nat
  BY <1>1, <1>4, JoinedBytes DEF MVFS
<1>7. Len(H) = Len(MVFS) + Len(Z)
  BY <1>1, <1>5, <1>6, JoinedBytes
<1>8. Held(buf, at, MVFS) /\ Held(buf, at + Len(MVFS), Z)
  BY <1>1, <1>5, <1>6, HeldJoined
<1>9. Held(buf, at, MVF) /\ Held(buf, at + Len(MVF), S)
  BY <1>1, <1>4, <1>8, HeldJoined DEF MVFS
<1>10. Held(buf, at, MV) /\ Held(buf, at + Len(MV), F)
  BY <1>1, <1>3, <1>9, HeldJoined DEF MVF
<1>11. Held(buf, at, M) /\ Held(buf, at + Len(M), V)
  BY <1>1, <1>10, HeldJoined DEF MV
<1> DEFINE a == at + 1 + Len(V)
           b == a + n
           c == b + Len(S) + 1
<1>12. /\ at + Len(M) = at + 1 /\ at + Len(MV) = a /\ at + Len(MVF) = b
       /\ at + Len(MVFS) = b + Len(S) /\ at + Len(H) = c
       /\ at + 1 \in Nat /\ a \in Nat /\ b \in Nat /\ n \in Nat /\ ~(n > MostColumns)
  <2>1. n \in Nat /\ ~(n > MostColumns)
    BY <1>2, ColumnBounds
  <2> QED
    BY <1>2, <1>3, <1>4, <1>5, <1>7, <2>1, SMT
<1> HIDE DEF a, b, c
<1>13. ReadByte(buf, at) = Got(TableMark, at + 1)
  BY <1>11, HeldByte DEF M
<1>14. GetVarint(buf, at + 1) = Got(n, a)
  <2>1. Held(buf, at + 1, PutVarint(n))
    BY <1>11, <1>12 DEF V
  <2>2. GetVarint(buf, at + 1) = Got(n, at + 1 + Len(PutVarint(n)))
    BY <1>2, <1>12, <2>1, HeldVarint
  <2> QED
    BY <2>2 DEF V, a
<1>15. ReadBytes(buf, a, n) = Got(F, b)
  <2>1. Held(buf, a, F)
    BY <1>10, <1>12
  <2>2. ReadBytes(buf, a, Len(F)) = Got(F, a + Len(F))
    BY <1>1, <1>12, <2>1, HeldBytes
  <2> QED
    BY <1>2, <2>2 DEF b
<1>16. ReadString(buf, b) = Got(S, c)
  <2>1. Held(buf, b, S) /\ Held(buf, b + Len(S), Z)
    BY <1>8, <1>9, <1>12
  <2>2. Held(buf, b, S \o Z)
    BY <1>1, <1>12, <2>1, HeldJoined
  <2>3. Held(buf, b, S \o <<0>>)
    BY <2>2 DEF Z
  <2>4. ReadString(buf, b) = Got(S, b + Len(S) + 1)
    BY <1>1, <1>12, <2>3, HeldString
  <2> QED
    BY <2>4 DEF c
<1>17. [name |-> S, pks |-> [i \in DOMAIN F |-> F[i] # 0]] = t
  <2>1. DOMAIN F = 1..n
    BY <1>1, <1>2, LenProperties
  <2>2. t.pks = [i \in 1..n |-> F[i] # 0]
    BY HeaderParts DEF n, F
  <2>3. t = [name |-> S, pks |-> t.pks]
    BY DEF IsTable, S
  <2> QED
    BY <2>1, <2>2, <2>3
<1>18. ReadHeader(buf, at + 1) = Got(t, c)
  <2>1. GetVarint(buf, at + 1).ok /\ GetVarint(buf, at + 1).value = n /\ GetVarint(buf, at + 1).at = a
    BY <1>14, GotFields
  <2>2. ReadBytes(buf, a, n).ok /\ ReadBytes(buf, a, n).value = F /\ ReadBytes(buf, a, n).at = b
    BY <1>15, GotFields
  <2>3. ReadString(buf, b).ok /\ ReadString(buf, b).value = S /\ ReadString(buf, b).at = c
    BY <1>16, GotFields
  <2>4. ReadHeader(buf, at + 1) = Got([name |-> S, pks |-> [i \in DOMAIN F |-> F[i] # 0]], c)
    BY <1>12, <2>1, <2>2, <2>3 DEF ReadHeader, Then
  <2> QED
    BY <1>17, <2>4
<1> QED
  BY <1>12, <1>13, <1>18 DEF H

\* A header of a first part is the file's.
LEMMA SameHeader ==
  ASSUME NEW p, NEW buf, Begins(p, buf), NEW at \in 0..Len(p)
  PROVE  SameRead(ReadHeader(p, at), ReadHeader(buf, at), at, Len(p))
<1>0. Len(p) \in Nat /\ p \in Seq(Byte) /\ at \in Nat
  <2>1. Len(p) \in Nat /\ p \in Seq(Byte)
    BY LenProperties DEF Begins
  <2> QED
    BY <2>1, SMT
<1> DEFINE columns == GetVarint(p, at)
           flags == ReadBytes(p, columns.at, columns.value)
           name == ReadString(p, flags.at)
<1>1. CASE columns = Nothing
  <2>1. ReadHeader(p, at) = Nothing
    BY <1>1, GotFields DEF ReadHeader, Then
  <2> QED
    BY <2>1, SameNothing
<1>2. CASE columns # Nothing
  <2>1. /\ columns = GetVarint(buf, at) /\ columns = Got(columns.value, columns.at)
        /\ columns.at \in (at + 1)..Len(p) /\ columns.value \in Nat
    BY <1>0, <1>2, SameVarint, VarintIsNat DEF SameRead
  <2> HIDE DEF columns
  <2>2. columns.at \in 0..Len(p) /\ columns.ok /\ at <= columns.at
    <3>1. columns.ok
      BY <2>1, GotFields
    <3> QED
      BY <1>0, <2>1, <3>1, SMT
  <2>3. CASE columns.value > MostColumns
    <3>1. ReadHeader(p, at) = Nothing
      BY <2>2, <2>3 DEF ReadHeader, Then, columns
    <3> QED
      BY <3>1, SameNothing
  <2>4. CASE ~(columns.value > MostColumns) /\ flags = Nothing
    <3>1. ReadHeader(p, at) = Nothing
      BY <2>2, <2>4, GotFields DEF ReadHeader, Then, columns, flags
    <3> QED
      BY <3>1, SameNothing
  <2>5. CASE ~(columns.value > MostColumns) /\ flags # Nothing
    <3>1. /\ flags = ReadBytes(buf, columns.at, columns.value)
          /\ flags = Got(flags.value, flags.at)
          /\ flags.at \in (columns.at + columns.value)..Len(p)
      BY <2>1, <2>2, <2>5, SameBytes DEF SameRead
    <3> HIDE DEF flags
    <3>2. flags.at \in 0..Len(p) /\ flags.ok /\ at <= flags.at
      <4>1. flags.ok
        BY <3>1, GotFields
      <4> QED
        BY <1>0, <2>1, <2>2, <3>1, <4>1, SMT
    <3>3. CASE name = Nothing
      <4>1. ReadHeader(p, at) = Nothing
        BY <2>2, <2>5, <3>2, <3>3, GotFields DEF ReadHeader, Then, columns, flags, name
      <4> QED
        BY <4>1, SameNothing
    <3>4. CASE name # Nothing
      <4>1. /\ name = ReadString(buf, flags.at) /\ name = Got(name.value, name.at)
            /\ name.at \in (flags.at + 1)..Len(p)
        BY <3>2, <3>4, SameString DEF SameRead
      <4> HIDE DEF name
      <4>2. name.at \in at..Len(p) /\ name.ok
        <5>1. name.ok
          BY <4>1, GotFields
        <5> QED
          BY <1>0, <3>2, <4>1, <5>1, SMT
      <4> DEFINE t == [name |-> name.value, pks |-> [i \in DOMAIN flags.value |-> flags.value[i] # 0]]
      <4>3. ReadHeader(p, at) = Got(t, name.at)
        BY <2>2, <2>5, <3>2, <4>2 DEF ReadHeader, Then, columns, flags, name
      <4>4. ReadHeader(buf, at) = Got(t, name.at)
        BY <2>1, <2>2, <2>5, <3>1, <3>2, <4>1, <4>2 DEF ReadHeader, Then
      <4> HIDE DEF t
      <4> QED
        BY <4>2, <4>3, <4>4, SameGot
    <3> QED
      BY <3>3, <3>4
  <2> QED
    BY <2>3, <2>4, <2>5
<1> QED
  BY <1>1, <1>2

-----------------------------------------------------------------------------
(* Entries *)

\* The row an insert or a delete is without has no bytes.
LEMMA NoRow == RowOf(<<>>, 0) /\ RowBytes(<<>>) = <<>>
<1>1. RowOf(<<>>, 0)
  BY DEF RowOf
<1>2. PICK part : part[0] = <<>> /\ part[0] = RowBytes(<<>>)
  BY <1>1, RowParts
<1> QED
  BY <1>1, <1>2

\* A row is written in bytes.
LEMMA RowBytesTyped ==
  ASSUME NEW n \in Nat, NEW row, RowOf(row, n)
  PROVE  RowBytes(row) \in Seq(Byte)
<1>1. PICK part : part[n] = RowBytes(row) /\ \A i \in 0..n : part[i] \in Seq(Byte)
  BY RowParts
<1>2. n \in 0..n
  BY SMT
<1> QED
  BY <1>1, <1>2

\* A row, which entries of one type are without.
OptionalRow(buf, op, without, at, columns) ==
    IF op # without THEN ReadRow(buf, at, columns) ELSE Got(<<>>, at)

\* A row of a first part is the file's, also one that is not written.
LEMMA SameOptionalRow ==
  ASSUME NEW p, NEW buf, Begins(p, buf), NEW at \in 0..Len(p), NEW columns \in Nat,
         NEW op, NEW without
  PROVE  SameRead(OptionalRow(p, op, without, at, columns),
                  OptionalRow(buf, op, without, at, columns), at, Len(p))
<1>1. at \in at..Len(p)
  BY LenProperties, SMT DEF Begins
<1>2. CASE op # without
  BY <1>2, SameRow DEF OptionalRow
<1>3. CASE op = without
  BY <1>1, <1>3, SameGot DEF OptionalRow
<1> QED
  BY <1>2, <1>3

\* ReadEntry reads a flag and the two rows.
LEMMA ReadEntryRows ==
  ASSUME NEW buf, NEW at, NEW op, NEW t
  PROVE  LET flag == ReadByte(buf, at)
             old == OptionalRow(buf, op, Insert, flag.at, Columns(t))
             new == OptionalRow(buf, op, Delete, old.at, Columns(t))
         IN  ReadEntry(buf, at, op, t) =
                IF flag.ok /\ old.ok /\ new.ok
                THEN Got([op |-> op, table |-> t, old |-> old.value, new |-> new.value], new.at)
                ELSE Nothing
  BY DEF ReadEntry, OptionalRow, Then

\* An entry of a first part is the file's.
LEMMA SameEntry ==
  ASSUME NEW p, NEW buf, Begins(p, buf), NEW at \in 0..Len(p), NEW op, NEW t, Columns(t) \in Nat
  PROVE  SameRead(ReadEntry(p, at, op, t), ReadEntry(buf, at, op, t), at, Len(p))
<1>0. Len(p) \in Nat
  BY LenProperties DEF Begins
<1> DEFINE n == Columns(t)
           flag == ReadByte(p, at)
           old == OptionalRow(p, op, Insert, flag.at, n)
           new == OptionalRow(p, op, Delete, old.at, n)
           e == [op |-> op, table |-> t, old |-> old.value, new |-> new.value]
<1>1. ReadEntry(p, at, op, t) = IF flag.ok /\ old.ok /\ new.ok THEN Got(e, new.at) ELSE Nothing
  BY ReadEntryRows
<1>2. CASE flag = Nothing \/ old = Nothing \/ new = Nothing
  <2>1. ReadEntry(p, at, op, t) = Nothing
    BY <1>1, <1>2, GotFields
  <2> QED
    BY <2>1, SameNothing
<1>3. CASE flag # Nothing /\ old # Nothing /\ new # Nothing
  <2>1. /\ flag = ReadByte(buf, at) /\ flag = Got(flag.value, flag.at)
        /\ flag.at \in (at + 1)..Len(p)
    BY <1>3, SameByte DEF SameRead
  <2> HIDE DEF flag
  <2>2. flag.at \in 0..Len(p) /\ at <= flag.at
    BY <1>0, <2>1, SMT
  <2>3. /\ old = OptionalRow(buf, op, Insert, flag.at, n) /\ old = Got(old.value, old.at)
        /\ old.at \in flag.at..Len(p)
    <3>1. SameRead(old, OptionalRow(buf, op, Insert, flag.at, n), flag.at, Len(p))
      BY <2>2, SameOptionalRow
    <3> QED
      BY <1>3, <3>1 DEF SameRead
  <2> HIDE DEF old
  <2>4. old.at \in 0..Len(p) /\ at <= old.at
    BY <1>0, <2>2, <2>3, SMT
  <2>5. /\ new = OptionalRow(buf, op, Delete, old.at, n) /\ new = Got(new.value, new.at)
        /\ new.at \in old.at..Len(p)
    <3>1. SameRead(new, OptionalRow(buf, op, Delete, old.at, n), old.at, Len(p))
      BY <2>4, SameOptionalRow
    <3> QED
      BY <1>3, <3>1 DEF SameRead
  <2> HIDE DEF new
  <2>6. flag.ok /\ old.ok /\ new.ok
    BY <2>1, <2>3, <2>5, GotFields
  <2>7. ReadEntry(p, at, op, t) = Got(e, new.at)
    BY <1>1, <2>6
  <2>8. ReadEntry(buf, at, op, t) = Got(e, new.at)
    <3>1. /\ ReadByte(buf, at) = flag
          /\ OptionalRow(buf, op, Insert, flag.at, Columns(t)) = old
          /\ OptionalRow(buf, op, Delete, old.at, Columns(t)) = new
      BY <2>1, <2>3, <2>5
    <3> QED
      BY <2>6, <3>1, ReadEntryRows
  <2> HIDE DEF e
  <2>9. new.at \in at..Len(p)
    BY <1>0, <2>4, <2>5, SMT
  <2> QED
    BY <2>7, <2>8, <2>9, SameGot
<1> QED
  BY <1>2, <1>3

\* What IsEntry says of the rows.
LEMMA EntryRows ==
  ASSUME NEW e, IsEntry(e)
  PROVE  /\ e = [op |-> e.op, table |-> e.table, old |-> e.old, new |-> e.new]
         /\ e.op \in {Insert, Update, Delete} /\ IsTable(e.table) /\ Columns(e.table) \in Nat
         /\ IF e.op = Insert THEN e.old = <<>> ELSE RowOf(e.old, Columns(e.table))
         /\ IF e.op = Delete THEN e.new = <<>> ELSE RowOf(e.new, Columns(e.table))
<1>1. \A n \in 1..MostColumns : n \in Nat
  BY ColumnBounds
<1> QED
  BY <1>1 DEF IsEntry, IsTable, IsRow, RowOf

\* The parts of a written entry, each made of bytes.
LEMMA EntryParts ==
  ASSUME NEW e, IsEntry(e)
  PROVE  /\ <<e.op, 0>> \in Seq(Byte) /\ Len(<<e.op, 0>>) = 2
         /\ RowBytes(e.old) \in Seq(Byte) /\ RowBytes(e.new) \in Seq(Byte)
         /\ EntryBytes(e) = (<<e.op, 0>> \o RowBytes(e.old)) \o RowBytes(e.new)
<1>1. e.op \in Byte /\ 0 \in Byte
  BY EntryRows, SMT DEF Insert, Update, Delete, Byte
<1>2. <<e.op, 0>> \in Seq(Byte) /\ Len(<<e.op, 0>>) = 2
  BY <1>1
<1>3. RowBytes(e.old) \in Seq(Byte) /\ RowBytes(e.new) \in Seq(Byte)
  BY EntryRows, RowBytesTyped, NoRow, EmptySeq
<1>4. EntryBytes(e) = (<<e.op, 0>> \o RowBytes(e.old)) \o RowBytes(e.new)
  BY DEF EntryBytes
<1> QED
  BY <1>2, <1>3, <1>4

\* An entry is written in at least two bytes.
LEMMA EntryBytesTyped ==
  ASSUME NEW e, IsEntry(e)
  PROVE  EntryBytes(e) \in Seq(Byte) /\ Len(EntryBytes(e)) \in Nat /\ Len(EntryBytes(e)) >= 2
<1> DEFINE M == <<e.op, 0>>
           O == RowBytes(e.old)
           N == RowBytes(e.new)
<1>1. M \in Seq(Byte) /\ O \in Seq(Byte) /\ N \in Seq(Byte) /\ Len(M) = 2
  BY EntryParts
<1>2. EntryBytes(e) = (M \o O) \o N
  BY EntryParts
<1> HIDE DEF M, O, N
<1> DEFINE MO == M \o O
<1>3. MO \in Seq(Byte) /\ Len(MO) = Len(M) + Len(O) /\ Len(O) \in Nat
  BY <1>1, JoinedBytes
<1>4. EntryBytes(e) = MO \o N
  BY <1>2
<1> HIDE DEF MO
<1>5. EntryBytes(e) \in Seq(Byte) /\ Len(EntryBytes(e)) = Len(MO) + Len(N) /\ Len(N) \in Nat
  <2>1. MO \o N \in Seq(Byte) /\ Len(MO \o N) = Len(MO) + Len(N) /\ Len(N) \in Nat
    BY <1>1, <1>3, JoinedBytes
  <2> QED
    BY <1>4, <2>1, Zenon
<1>6. Len(MO) + Len(N) \in Nat /\ Len(MO) + Len(N) >= 2
  BY <1>1, <1>3, <1>5, SMT
<1> QED
  BY <1>5, <1>6

\* A row that is held is read back, also one of no bytes.
LEMMA HeldOptionalRow ==
  ASSUME NEW buf \in Seq(Byte), NEW at \in Nat, NEW n \in Nat, NEW row, NEW op, NEW without,
         op = without => row = <<>>, op # without => RowOf(row, n), Held(buf, at, RowBytes(row))
  PROVE  OptionalRow(buf, op, without, at, n) = Got(row, at + Len(RowBytes(row)))
<1>1. CASE op # without
  BY <1>1, HeldRowBytes DEF OptionalRow
<1>2. CASE op = without
  <2>1. Len(RowBytes(row)) = 0 /\ row = <<>>
    BY <1>2, NoRow
  <2>2. at + Len(RowBytes(row)) = at
    BY <2>1, SMT
  <2> QED
    BY <1>2, <2>1, <2>2 DEF OptionalRow
<1> QED
  BY <1>1, <1>2

\* An entry that is held is read back.
LEMMA HeldEntry ==
  ASSUME NEW buf \in Seq(Byte), NEW at \in Nat, NEW e, IsEntry(e), Held(buf, at, EntryBytes(e))
  PROVE  /\ ReadByte(buf, at) = Got(e.op, at + 1)
         /\ ReadEntry(buf, at + 1, e.op, e.table) = Got(e, at + Len(EntryBytes(e)))
<1> DEFINE n == Columns(e.table)
           A == <<e.op>>
           Z == <<0>>
           M == <<e.op, 0>>
           O == RowBytes(e.old)
           N == RowBytes(e.new)
           MO == M \o O
           W == EntryBytes(e)
<1>1. M \in Seq(Byte) /\ O \in Seq(Byte) /\ N \in Seq(Byte) /\ Len(M) = 2 /\ W = MO \o N
  BY EntryParts
<1>2. A \in Seq(Byte) /\ Z \in Seq(Byte) /\ Len(A) = 1 /\ Len(Z) = 1 /\ M = A \o Z
  <2>1. M[1] = e.op /\ M[2] = 0 /\ 1 \in 1..Len(M) /\ 2 \in 1..Len(M)
    BY <1>1, SMT
  <2>2. e.op \in Byte /\ 0 \in Byte
    <3> HIDE DEF M
    <3> QED
      BY <1>1, <2>1, ElementOfSeq
  <2> QED
    BY <2>2, SMT
<1>3. Held(buf, at, W)
  OBVIOUS
<1> HIDE DEF n, A, Z, M, O, N, MO, W
<1>4. MO \in Seq(Byte) /\ Len(MO) = Len(M) + Len(O) /\ Len(O) \in Nat
  BY <1>1, JoinedBytes DEF MO
<1>5. Len(W) = Len(MO) + Len(N) /\ Len(N) \in Nat
  BY <1>1, <1>4, JoinedBytes
<1>6. Held(buf, at, MO) /\ Held(buf, at + Len(MO), N)
  BY <1>1, <1>3, <1>4, HeldJoined
<1>7. Held(buf, at, M) /\ Held(buf, at + Len(M), O)
  BY <1>1, <1>6, HeldJoined DEF MO
<1>8. Held(buf, at, A) /\ Held(buf, at + Len(A), Z)
  BY <1>2, <1>7, HeldJoined
<1> DEFINE a == at + 2
           b == a + Len(O)
           c == b + Len(N)
<1>9. /\ at + Len(A) = at + 1 /\ at + Len(M) = a /\ at + Len(MO) = b /\ at + Len(W) = c
      /\ at + 1 \in Nat /\ a \in Nat /\ b \in Nat /\ (at + 1) + 1 = a
  <2>1. Len(M) = 2 /\ Len(A) = 1
    BY <1>1, <1>2
  <2> QED
    BY <2>1, <1>4, <1>5, SMT
<1> HIDE DEF a, b, c
<1>10. ReadByte(buf, at) = Got(e.op, at + 1)
  BY <1>8, HeldByte DEF A
<1>11. ReadByte(buf, at + 1) = Got(0, a)
  <2>1. Held(buf, at + 1, <<0>>)
    BY <1>8, <1>9 DEF Z
  <2> QED
    BY <1>9, <2>1, HeldByte
<1>12. n \in Nat
  BY EntryRows DEF n
<1>13. OptionalRow(buf, e.op, Insert, a, n) = Got(e.old, b)
  <2>1. (e.op = Insert => e.old = <<>>) /\ (e.op # Insert => RowOf(e.old, n))
    BY EntryRows DEF n
  <2>2. Held(buf, a, RowBytes(e.old))
    BY <1>7, <1>9 DEF O
  <2>3. OptionalRow(buf, e.op, Insert, a, n) = Got(e.old, a + Len(RowBytes(e.old)))
    <3>1. a \in Nat
      BY <1>9
    <3> QED
      BY <1>12, <2>1, <2>2, <3>1, HeldOptionalRow
  <2> QED
    BY <2>3 DEF O, b
<1>14. OptionalRow(buf, e.op, Delete, b, n) = Got(e.new, c)
  <2>1. (e.op = Delete => e.new = <<>>) /\ (e.op # Delete => RowOf(e.new, n))
    BY EntryRows DEF n
  <2>2. Held(buf, b, RowBytes(e.new))
    BY <1>6, <1>9 DEF N
  <2>3. OptionalRow(buf, e.op, Delete, b, n) = Got(e.new, b + Len(RowBytes(e.new)))
    <3>1. b \in Nat
      BY <1>9
    <3> QED
      BY <1>12, <2>1, <2>2, <3>1, HeldOptionalRow
  <2> QED
    BY <2>3 DEF N, c
<1>15. ReadEntry(buf, at + 1, e.op, e.table) =
          Got([op |-> e.op, table |-> e.table, old |-> e.old, new |-> e.new], c)
  <2> DEFINE flag == ReadByte(buf, at + 1)
             old == OptionalRow(buf, e.op, Insert, flag.at, Columns(e.table))
             new == OptionalRow(buf, e.op, Delete, old.at, Columns(e.table))
  <2>1. flag.ok /\ flag.at = a
    BY <1>11, GotFields
  <2>2. old = Got(e.old, b)
    BY <1>13, <2>1 DEF n
  <2>3. old.ok /\ old.value = e.old /\ old.at = b
    BY <2>2, GotFields
  <2>4. new = Got(e.new, c)
    BY <1>14, <2>3 DEF n
  <2>5. new.ok /\ new.value = e.new /\ new.at = c
    BY <2>4, GotFields
  <2>6. ReadEntry(buf, at + 1, e.op, e.table) =
           IF flag.ok /\ old.ok /\ new.ok
           THEN Got([op |-> e.op, table |-> e.table, old |-> old.value, new |-> new.value], new.at)
           ELSE Nothing
    BY ReadEntryRows
  <2> HIDE DEF flag, old, new
  <2> QED
    BY <2>1, <2>3, <2>5, <2>6
<1>16. e = [op |-> e.op, table |-> e.table, old |-> e.old, new |-> e.new]
  BY EntryRows
<1> QED
  BY <1>9, <1>10, <1>15, <1>16 DEF W

-----------------------------------------------------------------------------
(* Turns of the reader *)

\* The two turns that go on.
TableTurn(r) == [kind |-> "table", reader |-> r]
EntryTurn(e, r) == [kind |-> "entry", entry |-> e, reader |-> r]

\* The outcome of a turn, by the byte it finds.
LEMMA TurnCases ==
  ASSUME NEW buf, NEW r
  PROVE  LET mark == buf[r.at + 1]
             read == ReadHeader(buf, r.at + 1)
             entry == ReadEntry(buf, r.at + 1, mark, r.table)
         IN  /\ r.at >= Len(buf) => Turn(buf, r) = [kind |-> "eof"]
             /\ ~(r.at >= Len(buf)) /\ mark = TableMark =>
                    Turn(buf, r) = IF read.ok
                                   THEN TableTurn([at |-> read.at, table |-> read.value])
                                   ELSE [kind |-> "error"]
             /\ ~(r.at >= Len(buf)) /\ mark \in {Insert, Update, Delete} =>
                    Turn(buf, r) = IF entry.ok
                                   THEN EntryTurn(entry.value, [r EXCEPT !.at = entry.at])
                                   ELSE [kind |-> "error"]
             /\ ~(r.at >= Len(buf)) /\ mark \notin {TableMark, Insert, Update, Delete} =>
                    Turn(buf, r) = [kind |-> "error"]
<1>1. TableMark \notin {Insert, Update, Delete}
  BY SMT DEF TableMark, Insert, Update, Delete
<1> QED
  BY <1>1 DEF Turn, TableTurn, EntryTurn

\* The fields of these turns.
LEMMA TurnFields ==
  /\ \A r : TableTurn(r).kind = "table" /\ TableTurn(r).reader = r
  /\ \A e, r : EntryTurn(e, r).kind = "entry" /\ EntryTurn(e, r).reader = r
               /\ EntryTurn(e, r).entry = e
  BY DEF TableTurn, EntryTurn

\* Only at the end of the file does a turn say so.
LEMMA TurnKinds ==
  ASSUME NEW buf, NEW r
  PROVE  /\ Turn(buf, r).kind \in {"eof", "table", "entry", "error"}
         /\ r.at >= Len(buf) <=> Turn(buf, r).kind = "eof"
<1> DEFINE mark == buf[r.at + 1]
<1>1. CASE r.at >= Len(buf)
  <2>1. Turn(buf, r) = [kind |-> "eof"]
    BY <1>1, TurnCases
  <2> QED
    BY <1>1, <2>1
<1>2. CASE ~(r.at >= Len(buf)) /\ mark = TableMark
  <2> DEFINE read == ReadHeader(buf, r.at + 1)
  <2>1. Turn(buf, r) = IF read.ok THEN TableTurn([at |-> read.at, table |-> read.value])
                       ELSE [kind |-> "error"]
    BY <1>2, TurnCases
  <2>2. Turn(buf, r).kind = "table" \/ Turn(buf, r).kind = "error"
    BY <2>1, TurnFields
  <2> QED
    BY <1>2, <2>2
<1>3. CASE ~(r.at >= Len(buf)) /\ mark \in {Insert, Update, Delete}
  <2> DEFINE entry == ReadEntry(buf, r.at + 1, mark, r.table)
  <2>1. Turn(buf, r) = IF entry.ok THEN EntryTurn(entry.value, [r EXCEPT !.at = entry.at])
                       ELSE [kind |-> "error"]
    BY <1>3, TurnCases
  <2>2. Turn(buf, r).kind = "entry" \/ Turn(buf, r).kind = "error"
    BY <2>1, TurnFields
  <2> QED
    BY <1>3, <2>2
<1>4. CASE ~(r.at >= Len(buf)) /\ mark \notin {TableMark, Insert, Update, Delete}
  <2>1. Turn(buf, r) = [kind |-> "error"]
    BY <1>4, TurnCases
  <2> QED
    BY <1>4, <2>1
<1> QED
  BY <1>1, <1>2, <1>3, <1>4

\* A turn over a header, and one over an entry.
LEMMA TurnAtHeader ==
  ASSUME NEW buf \in Seq(Byte), NEW r, r.at \in Nat, NEW t, IsTable(t),
         Held(buf, r.at, Header(t))
  PROVE  Turn(buf, r) = TableTurn([at |-> r.at + Len(Header(t)), table |-> t])
<1>1. ReadByte(buf, r.at) = Got(TableMark, r.at + 1)
      /\ ReadHeader(buf, r.at + 1) = Got(t, r.at + Len(Header(t)))
  BY HeldHeader
<1>2. r.at < Len(buf) /\ buf[r.at + 1] = TableMark
  BY <1>1, GotFields DEF ReadByte
<1>3. ~(r.at >= Len(buf))
  BY <1>2, LenProperties, SMT
<1>4. ReadHeader(buf, r.at + 1).ok /\ ReadHeader(buf, r.at + 1).value = t
      /\ ReadHeader(buf, r.at + 1).at = r.at + Len(Header(t))
  BY <1>1, GotFields
<1> QED
  BY <1>2, <1>3, <1>4, TurnCases

\* ... and one over an entry.
LEMMA TurnAtEntry ==
  ASSUME NEW buf \in Seq(Byte), NEW r, r = [at |-> r.at, table |-> r.table], r.at \in Nat,
         NEW e, IsEntry(e), e.table = r.table, Held(buf, r.at, EntryBytes(e))
  PROVE  Turn(buf, r) = EntryTurn(e, [at |-> r.at + Len(EntryBytes(e)), table |-> r.table])
<1>1. ReadByte(buf, r.at) = Got(e.op, r.at + 1)
      /\ ReadEntry(buf, r.at + 1, e.op, r.table) = Got(e, r.at + Len(EntryBytes(e)))
  BY HeldEntry
<1>2. r.at < Len(buf) /\ buf[r.at + 1] = e.op
  BY <1>1, GotFields DEF ReadByte
<1>3. ~(r.at >= Len(buf))
  BY <1>2, LenProperties, SMT
<1>4. e.op \in {Insert, Update, Delete}
  BY EntryRows
<1> DEFINE entry == ReadEntry(buf, r.at + 1, e.op, r.table)
<1>5. entry.ok /\ entry.value = e /\ entry.at = r.at + Len(EntryBytes(e))
  BY <1>1, GotFields
<1>6. Turn(buf, r) = EntryTurn(e, [r EXCEPT !.at = entry.at])
  <2>1. Turn(buf, r) = IF entry.ok THEN EntryTurn(entry.value, [r EXCEPT !.at = entry.at])
                       ELSE [kind |-> "error"]
    BY <1>2, <1>3, <1>4, TurnCases, Zenon
  <2> QED
    BY <1>5, <2>1, Zenon
<1>7. [r EXCEPT !.at = entry.at] = [at |-> entry.at, table |-> r.table]
  <2> HIDE DEF entry
  <2> QED
    OBVIOUS
<1> QED
  BY <1>5, <1>6, <1>7

\* A turn in a cut file that is neither the end nor an error is the turn in the whole file.
LEMMA SameTurn ==
  ASSUME NEW p, NEW buf, Begins(p, buf), NEW r, r = [at |-> r.at, table |-> r.table],
         r.at \in 0..Len(p), Columns(r.table) \in Nat,
         Turn(p, r).kind \in {"table", "entry"}
  PROVE  Turn(p, r) = Turn(buf, r) /\ Turn(p, r).reader.at <= Len(p)
<1>0. Len(p) \in Nat /\ Len(buf) \in Nat /\ Len(p) <= Len(buf)
      /\ \A i \in 1..Len(p) : p[i] = buf[i]
  BY LenProperties DEF Begins
<1>1. ~(r.at >= Len(p))
  BY TurnKinds
<1>2. ~(r.at >= Len(buf)) /\ r.at + 1 \in 0..Len(p) /\ r.at + 1 \in 1..Len(p)
  BY <1>0, <1>1, SMT
<1> DEFINE mark == p[r.at + 1]
<1>3. buf[r.at + 1] = mark
  BY <1>0, <1>2
<1>4. CASE mark = TableMark
  <2> DEFINE read == ReadHeader(p, r.at + 1)
  <2>1. Turn(p, r) = IF read.ok THEN TableTurn([at |-> read.at, table |-> read.value])
                     ELSE [kind |-> "error"]
    BY <1>1, <1>4, TurnCases
  <2>2. read.ok
    BY <2>1
  <2>3. read # Nothing
    BY <2>2, GotFields
  <2>4. read = ReadHeader(buf, r.at + 1) /\ read.at \in (r.at + 1)..Len(p)
    BY <1>2, <2>3, SameHeader DEF SameRead
  <2>5. Turn(buf, r) = TableTurn([at |-> read.at, table |-> read.value])
    BY <1>2, <1>3, <1>4, <2>2, <2>4, TurnCases
  <2>6. Turn(p, r) = TableTurn([at |-> read.at, table |-> read.value])
    BY <2>1, <2>2
  <2> HIDE DEF read
  <2>7. Turn(p, r).reader.at = read.at
    BY <2>6, TurnFields
  <2>8. read.at <= Len(p)
    BY <1>0, <2>4, SMT
  <2> QED
    BY <2>5, <2>6, <2>7, <2>8
<1>5. CASE mark \in {Insert, Update, Delete}
  <2> DEFINE entry == ReadEntry(p, r.at + 1, mark, r.table)
             next == EntryTurn(entry.value, [r EXCEPT !.at = entry.at])
  <2>1. Turn(p, r) = IF entry.ok THEN next ELSE [kind |-> "error"]
    BY <1>1, <1>5, TurnCases
  <2>2. entry.ok
    BY <2>1
  <2>3. entry # Nothing
    BY <2>2, GotFields
  <2>4. entry = ReadEntry(buf, r.at + 1, mark, r.table) /\ entry.at \in (r.at + 1)..Len(p)
    BY <1>2, <2>3, SameEntry DEF SameRead
  <2>5. Turn(buf, r) = next
    BY <1>2, <1>3, <1>5, <2>2, <2>4, TurnCases
  <2>6. Turn(p, r) = next
    BY <2>1, <2>2
  <2> HIDE DEF entry
  <2>7. Turn(p, r).reader = [r EXCEPT !.at = entry.at]
    BY <2>6, TurnFields
  <2>8. entry.at <= Len(p)
    BY <1>0, <2>4, SMT
  <2>9. [r EXCEPT !.at = entry.at] = [at |-> entry.at, table |-> r.table]
    OBVIOUS
  <2>10. Turn(p, r).reader.at = entry.at
    BY <2>7, <2>9
  <2> QED
    BY <2>5, <2>6, <2>8, <2>10
<1>6. mark \in {TableMark, Insert, Update, Delete}
  <2> SUFFICES ASSUME mark \notin {TableMark, Insert, Update, Delete} PROVE FALSE
    OBVIOUS
  <2>1. Turn(p, r) = [kind |-> "error"]
    BY <1>1, TurnCases
  <2> QED
    BY <2>1
<1> QED
  BY <1>4, <1>5, <1>6


-----------------------------------------------------------------------------
(* Records of a file *)

\* What a file holds is held by a first part it lies in.
LEMMA HeldInPart ==
  ASSUME NEW p, NEW buf, Begins(p, buf), NEW at \in Nat, NEW s \in Seq(Byte),
         Held(buf, at, s), at + Len(s) <= Len(p)
  PROVE  Held(p, at, s)
<1>1. ASSUME NEW i \in 1..Len(s) PROVE p[at + i] = s[i]
  <2>1. at + i \in 1..Len(p)
    <3>1. Len(s) \in Nat /\ Len(p) \in Nat
      BY LenProperties DEF Begins
    <3> QED
      BY <3>1, SMT
  <2>2. p[at + i] = buf[at + i]
    BY <2>1 DEF Begins
  <2> QED
    BY <2>2 DEF Held
<1> QED
  BY <1>1 DEF Held

\* What a first part holds is held by the file.
LEMMA HeldInLonger ==
  ASSUME NEW p, NEW buf, Begins(p, buf), NEW at \in Nat, NEW s \in Seq(Byte), Held(p, at, s)
  PROVE  Held(buf, at, s)
<1>1. ASSUME NEW i \in 1..Len(s) PROVE buf[at + i] = s[i]
  <2>1. at + i \in 1..Len(p)
    <3>1. Len(s) \in Nat /\ Len(p) \in Nat /\ at + Len(s) <= Len(p)
      BY LenProperties DEF Begins, Held
    <3> QED
      BY <3>1, SMT
  <2>2. p[at + i] = buf[at + i]
    BY <2>1 DEF Begins
  <2> QED
    BY <2>2 DEF Held
<1>2. at + Len(s) <= Len(buf)
  <2>1. Len(s) \in Nat /\ Len(p) \in Nat /\ Len(buf) \in Nat /\ at + Len(s) <= Len(p) /\ Len(p) <= Len(buf)
    BY LenProperties DEF Begins, Held
  <2> QED
    BY <2>1, SMT
<1> QED
  BY <1>1, <1>2 DEF Held

\* A place between two records: the reader that has come to it, and how many entries are
\* before it.
Place == [reader : Reader, count : Nat]
PlaceAt(at, table, count) == [reader |-> [at |-> at, table |-> table], count |-> count]

\* The fields of a place.
LEMMA PlaceFields ==
  /\ \A at, t, c : /\ PlaceAt(at, t, c).reader = [at |-> at, table |-> t]
                   /\ PlaceAt(at, t, c).reader.at = at /\ PlaceAt(at, t, c).reader.table = t
                   /\ PlaceAt(at, t, c).count = c
  /\ \A a \in Place : /\ a = PlaceAt(a.reader.at, a.reader.table, a.count)
                      /\ a.reader = [at |-> a.reader.at, table |-> a.reader.table]
                      /\ a.reader.at \in Nat /\ a.count \in Nat
                      /\ a.reader \in Reader /\ Columns(a.reader.table) \in Nat
<1>1. ASSUME NEW a \in Place PROVE Columns(a.reader.table) \in Nat
  <2>1. a.reader.table.pks \in Seq(BOOLEAN)
    BY DEF Place, Reader
  <2> QED
    BY <2>1, LenProperties DEF Columns
<1>2. ASSUME NEW a \in Place PROVE a = PlaceAt(a.reader.at, a.reader.table, a.count)
  BY DEF Place, Reader, PlaceAt
<1> QED
  BY <1>1, <1>2 DEF Place, Reader, PlaceAt

\* An offset, a table and a number of entries make a place.
LEMMA PlaceTyped ==
  ASSUME NEW at \in Nat, NEW t, IsTable(t) \/ t = NoTable, NEW c \in Nat
  PROVE  PlaceAt(at, t, c) \in Place
<1>1. t \in [name : Seq(Byte), pks : Seq(BOOLEAN)]
  <2>1. CASE IsTable(t)
    <3>1. t = [name |-> t.name, pks |-> t.pks] /\ t.pks \in Seq(BOOLEAN) /\ t.name \in Seq(Byte)
      BY <2>1, HeaderParts DEF IsTable
    <3> QED
      BY <3>1
  <2>2. CASE t = NoTable
    BY <2>2, EmptySeq DEF NoTable
  <2> QED
    BY <2>1, <2>2
<1> QED
  BY <1>1 DEF PlaceAt, Place, Reader

\* From place a to place b the buffer holds one record: a header ...
HeaderBetween(buf, t, a, b) ==
    /\ IsTable(t) /\ Held(buf, a.reader.at, Header(t))
    /\ b = PlaceAt(a.reader.at + Len(Header(t)), t, a.count)

\* ... or the next of the entries.
EntryBetween(buf, e, a, b) ==
    /\ IsEntry(e) /\ e.table = a.reader.table
    /\ Held(buf, a.reader.at, EntryBytes(e))
    /\ b = PlaceAt(a.reader.at + Len(EntryBytes(e)), e.table, a.count + 1)

\* A record of either kind.
RecordBetween(buf, E, a, b) ==
    \/ \E t : HeaderBetween(buf, t, a, b)
    \/ a.count < Len(E) /\ EntryBetween(buf, E[a.count + 1], a, b)

\* The records of a file with the entries E, from place to place.
Layout(buf, E, N, trail) ==
    /\ buf \in Seq(Byte) /\ N \in Nat /\ Len(E) \in Nat
    /\ trail \in [0..N -> Place]
    /\ trail[0] = PlaceAt(0, NoTable, 0)
    /\ trail[N].reader.at = Len(buf) /\ trail[N].count = Len(E)
    /\ \A n \in 0..(N - 1) : RecordBetween(buf, E, trail[n], trail[n + 1])

\* What the turn over a record from a to b is.
GoesTo(turn, E, a, b) ==
    \/ turn = TableTurn(b.reader) /\ b.count = a.count /\ IsTable(b.reader.table)
    \/ /\ turn = EntryTurn(E[a.count + 1], b.reader) /\ b.count = a.count + 1
       /\ a.count < Len(E) /\ IsEntry(E[a.count + 1])
       /\ E[a.count + 1].table = b.reader.table /\ a.reader.table = b.reader.table

\* A turn at a place before a record goes over it, if the record is there in full.
LEMMA RecordTurn ==
  ASSUME NEW p, NEW buf, Begins(p, buf), NEW E, NEW a \in Place, NEW b,
         RecordBetween(buf, E, a, b)
  PROVE  /\ b.reader.at > a.reader.at
         /\ b.reader.at <= Len(p) => GoesTo(Turn(p, a.reader), E, a, b)
<1>0. p \in Seq(Byte) /\ buf \in Seq(Byte) /\ a.reader.at \in Nat
      /\ a.reader = [at |-> a.reader.at, table |-> a.reader.table]
  BY PlaceFields DEF Begins
<1>1. CASE \E t : HeaderBetween(buf, t, a, b)
  <2>1. PICK t : HeaderBetween(buf, t, a, b)
    BY <1>1
  <2>2. IsTable(t) /\ Held(buf, a.reader.at, Header(t))
        /\ b.reader = [at |-> a.reader.at + Len(Header(t)), table |-> t]
        /\ b.reader.at = a.reader.at + Len(Header(t)) /\ b.reader.table = t /\ b.count = a.count
    BY <2>1, PlaceFields DEF HeaderBetween
  <2>3. Header(t) \in Seq(Byte) /\ Len(Header(t)) \in Nat \ {0}
    BY <2>2, HeaderBytes
  <2>4. b.reader.at > a.reader.at
    BY <1>0, <2>2, <2>3, SMT
  <2>5. ASSUME b.reader.at <= Len(p) PROVE GoesTo(Turn(p, a.reader), E, a, b)
    <3>1. Held(p, a.reader.at, Header(t))
      BY <1>0, <2>2, <2>3, <2>5, HeldInPart
    <3>2. Turn(p, a.reader) = TableTurn(b.reader)
      BY <1>0, <2>2, <3>1, TurnAtHeader
    <3> QED
      BY <2>2, <3>2 DEF GoesTo
  <2> QED
    BY <2>4, <2>5
<1>2. CASE a.count < Len(E) /\ EntryBetween(buf, E[a.count + 1], a, b)
  <2> DEFINE e == E[a.count + 1]
  <2>2. IsEntry(e) /\ Held(buf, a.reader.at, EntryBytes(e)) /\ e.table = a.reader.table
        /\ b.reader = [at |-> a.reader.at + Len(EntryBytes(e)), table |-> a.reader.table]
        /\ b.reader.at = a.reader.at + Len(EntryBytes(e)) /\ b.reader.table = a.reader.table
        /\ b.count = a.count + 1
    BY <1>2, PlaceFields DEF EntryBetween
  <2>3. EntryBytes(e) \in Seq(Byte) /\ Len(EntryBytes(e)) \in Nat /\ Len(EntryBytes(e)) >= 2
    BY <2>2, EntryBytesTyped
  <2>4. b.reader.at > a.reader.at
    BY <1>0, <2>2, <2>3, SMT
  <2>5. ASSUME b.reader.at <= Len(p) PROVE GoesTo(Turn(p, a.reader), E, a, b)
    <3>1. Held(p, a.reader.at, EntryBytes(e))
      BY <1>0, <2>2, <2>3, <2>5, HeldInPart
    <3> HIDE DEF e
    <3>2. Turn(p, a.reader) = EntryTurn(e, b.reader)
      BY <1>0, <2>2, <3>1, TurnAtEntry
    <3> QED
      BY <1>2, <2>2, <3>2 DEF GoesTo, e
  <2> QED
    BY <2>4, <2>5
<1> QED
  BY <1>1, <1>2 DEF RecordBetween

\* A record that is not there in full: the end, or an error.
LEMMA CutTurn ==
  ASSUME NEW p, NEW buf, Begins(p, buf), NEW E, NEW a \in Place, NEW b,
         RecordBetween(buf, E, a, b), a.reader.at <= Len(p), ~(b.reader.at <= Len(p)),
         b.reader.at <= Len(buf)
  PROVE  Turn(p, a.reader).kind = IF a.reader.at = Len(p) THEN "eof" ELSE "error"
<1>1. a.reader.at \in Nat /\ Len(p) \in Nat /\ p \in Seq(Byte) /\ buf \in Seq(Byte)
      /\ a.reader = [at |-> a.reader.at, table |-> a.reader.table]
      /\ Columns(a.reader.table) \in Nat
  BY PlaceFields, LenProperties DEF Begins
<1>2. Turn(p, a.reader).kind \notin {"table", "entry"}
  <2> SUFFICES ASSUME Turn(p, a.reader).kind \in {"table", "entry"} PROVE FALSE
    OBVIOUS
  <2>0. a.reader.at \in 0..Len(p)
    BY <1>1, SMT
  <2>1. Turn(p, a.reader) = Turn(buf, a.reader) /\ Turn(p, a.reader).reader.at <= Len(p)
    BY <1>1, <2>0, SameTurn
  <2>2. Begins(buf, buf)
    BY <1>1, LenProperties, SMT DEF Begins
  <2>3. GoesTo(Turn(buf, a.reader), E, a, b)
    BY <2>2, RecordTurn
  <2>4. Turn(buf, a.reader).reader = b.reader
    BY <2>3, TurnFields DEF GoesTo
  <2> QED
    BY <2>1, <2>4
<1>3. a.reader.at >= Len(p) <=> a.reader.at = Len(p)
  BY <1>1, SMT
<1> QED
  BY <1>2, <1>3, TurnKinds

\* The places of a file come one behind the other.
LEMMA PlacesInOrder ==
  ASSUME NEW buf, NEW E, NEW N, NEW trail, Layout(buf, E, N, trail), NEW j \in 0..N
  PROVE  \A n \in j..N : /\ trail[n].reader.at >= trail[j].reader.at + (n - j)
                         /\ trail[n].count >= trail[j].count
<1> DEFINE at(n) == trail[n].reader.at
           T == {i \in 0..(N - j) : at(j + i) >= at(j) + i /\ trail[j + i].count >= trail[j].count}
<1>1. N \in Nat /\ N - j \in Nat /\ \A n \in 0..N : trail[n] \in Place
  <2>1. N \in Nat /\ trail \in [0..N -> Place]
    BY DEF Layout
  <2> QED
    BY <2>1
<1>2. \A n \in 0..N : trail[n].count \in Nat /\ at(n) \in Nat
  BY <1>1, PlaceFields
<1>3. 0 \in T
  <2>1. j + 0 = j /\ 0 \in 0..(N - j)
    BY <1>1
  <2> QED
    BY <1>2, <2>1
<1>4. ASSUME NEW i \in 0..((N - j) - 1), i \in T PROVE i + 1 \in T
  <2>1. j + i \in 0..(N - 1) /\ j + (i + 1) = (j + i) + 1 /\ i + 1 \in 0..(N - j)
        /\ j + i \in 0..N /\ j + i + 1 \in 0..N
    BY <1>1
  <2> DEFINE a == trail[j + i]
             b == trail[(j + i) + 1]
  <2>2. RecordBetween(buf, E, a, b) /\ a \in Place /\ Begins(buf, buf)
    <3>1. buf \in Seq(Byte) /\ Len(buf) \in Nat
      BY LenProperties DEF Layout
    <3> QED
      BY <1>1, <2>1, <3>1, SMT DEF Layout, Begins
  <2> HIDE DEF a, b
  <2>3. b.reader.at > a.reader.at
    BY <2>2, RecordTurn
  <2>4. b.count = a.count \/ b.count = a.count + 1
    <3>1. CASE \E t : HeaderBetween(buf, t, a, b)
      BY <3>1, PlaceFields DEF HeaderBetween
    <3>2. CASE EntryBetween(buf, E[a.count + 1], a, b)
      BY <3>2, PlaceFields DEF EntryBetween
    <3> QED
      BY <2>2, <3>1, <3>2 DEF RecordBetween
  <2>5. a.reader.at >= at(j) + i /\ a.count >= trail[j].count
        /\ a.reader.at \in Nat /\ a.count \in Nat /\ b.reader.at \in Nat /\ at(j) \in Nat
        /\ trail[j].count \in Nat
    BY <1>2, <1>4, <2>1 DEF a, b
  <2>6. b.reader.at >= at(j) + (i + 1) /\ b.count >= trail[j].count
    <3> HIDE DEF at
    <3> QED
      BY <2>3, <2>4, <2>5, SMT
  <2> QED
    BY <2>1, <2>6 DEF b
<1> HIDE DEF T
<1>5. 0..(N - j) \subseteq T
  BY <1>1, <1>4, <1>3, UpTo
<1> TAKE n \in j..N
<1>6. n - j \in 0..(N - j) /\ j + (n - j) = n
  BY <1>1
<1>7. n - j \in T
  BY <1>5, <1>6
<1> QED
  BY <1>6, <1>7 DEF T

\* K is the last place of a file that a first part of it, as long as that, still has.
LastPlace(limit, N, trail, K) ==
    /\ K \in 0..N
    /\ \A n \in 0..K : trail[n].reader.at <= limit
    /\ K = N \/ ~(trail[K + 1].reader.at <= limit)

\* A file laid out has a last place within any length.
LEMMA LastPlaceExists ==
  ASSUME NEW buf, NEW E, NEW N, NEW trail, Layout(buf, E, N, trail), NEW limit \in Nat
  PROVE  \E K : LastPlace(limit, N, trail, K)
<1> DEFINE S == {k \in 0..N : k = N \/ ~(trail[k + 1].reader.at <= limit)}
           K == CHOOSE z \in S : \A y \in S : z <= y
<1>1. N \in Nat /\ S \subseteq Nat /\ N \in S
  BY DEF Layout
<1> HIDE DEF S
<1>2. K \in S /\ \A y \in S : K <= y
  BY <1>1, Smallest
<1> HIDE DEF K
<1>3. K \in 0..N /\ (K = N \/ ~(trail[K + 1].reader.at <= limit))
  BY <1>2 DEF S
<1>4. ASSUME NEW n \in 0..K PROVE trail[n].reader.at <= limit
  <2>1. CASE n = 0
    BY <2>1, PlaceFields DEF Layout
  <2>2. CASE n # 0
    <3>1. n - 1 \in 0..N /\ n - 1 # N /\ ~(K <= n - 1) /\ (n - 1) + 1 = n
      BY <1>1, <1>3, <2>2
    <3>2. n - 1 \notin S
      BY <1>2, <3>1
    <3> QED
      BY <3>1, <3>2 DEF S
  <2> QED
    BY <2>1, <2>2
<1> QED
  BY <1>3, <1>4 DEF LastPlace

\* The places a first part has are those up to it, and no other.
LEMMA PlacesUpToLast ==
  ASSUME NEW buf, NEW E, NEW N, NEW trail, Layout(buf, E, N, trail), NEW limit \in Nat,
         NEW K, LastPlace(limit, N, trail, K)
  PROVE  /\ K <= limit /\ limit - K \in Nat
         /\ trail[K].count \in 0..Len(E) /\ trail[K].reader.at \in 0..limit
         /\ \A n \in 0..N : trail[n].reader.at <= limit => n <= K /\ trail[n].count <= trail[K].count
         /\ \A n \in 0..N : trail[n].reader.at = limit => trail[K].reader.at = limit
         /\ \A n \in 0..N : trail[n].reader.at \in Nat /\ trail[n].count \in Nat
<1>1. N \in Nat /\ K \in 0..N /\ Len(E) \in Nat /\ trail[N].count = Len(E)
  BY DEF LastPlace, Layout
<1>2. \A n \in 0..N : trail[n].count \in Nat /\ trail[n].reader.at \in Nat
  <2>1. \A n \in 0..N : trail[n] \in Place
    BY DEF Layout
  <2> QED
    BY <2>1, PlaceFields
<1>3. trail[K].reader.at <= limit
  BY <1>1 DEF LastPlace
<1>4. K <= limit
  <2>1. 0 \in 0..N /\ K \in 0..N /\ K - 0 = K
    BY <1>1
  <2>2. trail[K].reader.at >= trail[0].reader.at + K
    BY <2>1, PlacesInOrder
  <2>3. trail[0].reader.at = 0
    BY PlaceFields DEF Layout
  <2> QED
    BY <1>1, <1>2, <1>3, <2>2, <2>3, SMT
<1>5. trail[K].count <= Len(E)
  <2>1. N \in K..N
    BY <1>1
  <2>2. trail[N].count >= trail[K].count
    BY <1>1, <2>1, PlacesInOrder
  <2> QED
    BY <1>1, <1>2, <2>2, SMT
<1>6. ASSUME NEW n \in 0..N, trail[n].reader.at <= limit
      PROVE  n <= K /\ trail[n].count <= trail[K].count /\ trail[K].reader.at >= trail[n].reader.at
  <2>1. n <= K
    <3> SUFFICES ASSUME ~(n <= K) PROVE FALSE
      OBVIOUS
    <3>1. K + 1 \in 0..N /\ n \in (K + 1)..N /\ K # N /\ n - (K + 1) \in Nat
      BY <1>1
    <3>2. ~(trail[K + 1].reader.at <= limit)
      BY <3>1 DEF LastPlace
    <3>3. trail[n].reader.at >= trail[K + 1].reader.at + (n - (K + 1))
      BY <3>1, PlacesInOrder
    <3> QED
      BY <1>2, <1>6, <3>1, <3>2, <3>3, SMT
  <2>2. K \in n..N /\ K - n \in Nat
    BY <1>1, <2>1
  <2>3. trail[K].count >= trail[n].count /\ trail[K].reader.at >= trail[n].reader.at + (K - n)
    BY <2>2, PlacesInOrder
  <2> QED
    BY <1>1, <1>2, <2>1, <2>2, <2>3, SMT
<1>7. ASSUME NEW n \in 0..N, trail[n].reader.at = limit PROVE trail[K].reader.at = limit
  BY <1>1, <1>2, <1>3, <1>6, <1>7, SMT
<1> QED
  BY <1>1, <1>2, <1>3, <1>4, <1>5, <1>6, <1>7, SMT

\* The turn at a place of a file's first part: over the next record, or the last turn.
LEMMA TurnAtPlace ==
  ASSUME NEW p, NEW buf, Begins(p, buf), NEW E, NEW N, NEW trail, Layout(buf, E, N, trail),
         NEW K, LastPlace(Len(p), N, trail, K), NEW n \in 0..K
  PROVE  /\ n < K => GoesTo(Turn(p, trail[n].reader), E, trail[n], trail[n + 1])
         /\ n = K => Turn(p, trail[K].reader).kind =
                        IF trail[K].reader.at = Len(p) THEN "eof" ELSE "error"
<1>1. /\ N \in Nat /\ K \in 0..N /\ n \in 0..N /\ Len(p) \in Nat /\ Len(buf) \in Nat
      /\ Len(p) <= Len(buf) /\ trail[N].reader.at = Len(buf)
  BY LenProperties DEF LastPlace, Layout, Begins
<1>2. \A m \in 0..N : trail[m] \in Place
  BY DEF Layout
<1>3. ASSUME n < K PROVE GoesTo(Turn(p, trail[n].reader), E, trail[n], trail[n + 1])
  <2>1. n \in 0..(N - 1) /\ n + 1 \in 0..K
    BY <1>1, <1>3
  <2>2. RecordBetween(buf, E, trail[n], trail[n + 1])
    BY <2>1 DEF Layout
  <2>3. trail[n + 1].reader.at <= Len(p)
    BY <2>1 DEF LastPlace
  <2> QED
    BY <1>1, <1>2, <2>2, <2>3, RecordTurn
<1>4. Turn(p, trail[K].reader).kind = IF trail[K].reader.at = Len(p) THEN "eof" ELSE "error"
  <2>0. trail[K].reader.at <= Len(p)
    BY <1>1 DEF LastPlace
  <2>1. CASE K = N
    <3>1. trail[K].reader.at >= Len(p) /\ trail[K].reader.at = Len(p)
      BY <1>1, <2>0, <2>1, SMT
    <3> QED
      BY <3>1, TurnKinds
  <2>2. CASE K # N
    <3>1. K \in 0..(N - 1) /\ K + 1 \in 0..N /\ N \in (K + 1)..N /\ N - (K + 1) \in Nat
      BY <1>1, <2>2
    <3>2. RecordBetween(buf, E, trail[K], trail[K + 1])
      BY <3>1 DEF Layout
    <3>3. ~(trail[K + 1].reader.at <= Len(p))
      BY <2>2 DEF LastPlace
    <3>4. trail[K + 1].reader.at <= Len(buf)
      <4>1. trail[N].reader.at >= trail[K + 1].reader.at + (N - (K + 1))
        BY <3>1, PlacesInOrder
      <4>2. trail[K + 1].reader.at \in Nat
        BY <1>2, <3>1, PlaceFields
      <4>3. \A x, k, l \in Nat : l >= x + k => x <= l
        BY SMT
      <4>4. Len(buf) >= trail[K + 1].reader.at + (N - (K + 1)) /\ Len(buf) \in Nat
        BY <1>1, <4>1
      <4> QED
        BY <3>1, <4>2, <4>3, <4>4
    <3> QED
      BY <1>1, <1>2, <2>0, <3>2, <3>3, <3>4, CutTurn
  <2> QED
    BY <2>1, <2>2
<1> QED
  BY <1>3, <1>4

-----------------------------------------------------------------------------
(* Reading a file to its end *)

\* How a reading stands.
Standing(r, entries, kind) == [reader |-> r, entries |-> entries, kind |-> kind]
Unread == Standing(NewReader, <<>>, "reading")

\* The first turns of a reading.
TurnsUpTo(buf, N, after) ==
    after = [i \in 0..N |-> IF i = 0 THEN Unread ELSE AfterTurn(buf, after[i - 1])]

\* The turns of a reading exist, by induction over their number.
LEMMA TurnsExist ==
    ASSUME NEW buf, NEW N \in Nat
    PROVE  \E after : TurnsUpTo(buf, N, after)
<1> DEFINE T == {n \in Nat : \E after : TurnsUpTo(buf, n, after)}
<1>1. 0 \in T
  <2> DEFINE none == [i \in 0..0 |-> Unread]
  <2>1. TurnsUpTo(buf, 0, none)
    BY DEF TurnsUpTo
  <2> QED
    BY <2>1
<1>2. ASSUME NEW n \in Nat, n \in T PROVE n + 1 \in T
  <2>1. PICK f : TurnsUpTo(buf, n, f)
    BY <1>2
  <2> DEFINE g == [i \in 0..(n + 1) |-> IF i = n + 1 THEN AfterTurn(buf, f[n]) ELSE f[i]]
  <2>2. g[n + 1] = AfterTurn(buf, f[n]) /\ \A i \in 0..n : g[i] = f[i]
    OBVIOUS
  <2>3. f = [i \in 0..n |-> IF i = 0 THEN Unread ELSE AfterTurn(buf, f[i - 1])]
    BY <2>1 DEF TurnsUpTo
  <2>4. ASSUME NEW i \in 0..(n + 1)
        PROVE  g[i] = IF i = 0 THEN Unread ELSE AfterTurn(buf, g[i - 1])
    <3> HIDE DEF g
    <3>1. CASE i = n + 1
      <4>1. i # 0 /\ i - 1 = n /\ n \in 0..n
        BY <3>1
      <4> QED
        BY <2>2, <3>1, <4>1
    <3>2. CASE i = 0
      BY <2>2, <2>3, <3>2
    <3>3. CASE i \in 1..n
      <4>1. i - 1 \in 0..n /\ i \in 0..n /\ i # 0
        BY <3>3
      <4>2. f[i] = AfterTurn(buf, f[i - 1])
        BY <2>3, <4>1
      <4> QED
        BY <2>2, <4>1, <4>2
    <3> QED
      BY <3>1, <3>2, <3>3
  <2>5. TurnsUpTo(buf, n + 1, g)
    <3>1. g = [i \in 0..(n + 1) |-> g[i]]
      OBVIOUS
    <3> HIDE DEF g
    <3> QED
      BY <2>4, <3>1 DEF TurnsUpTo
  <2> QED
    BY <2>5
<1> HIDE DEF T
<1>3. Nat \subseteq T
  BY <1>1, <1>2, AllNaturals
<1> QED
  BY <1>3 DEF T

\* Turns(buf) takes one turn after the other.
LEMMA TurnSteps ==
  ASSUME NEW buf, Len(buf) \in Nat
  PROVE  /\ DOMAIN Turns(buf) = 0..(Len(buf) + 1)
         /\ Turns(buf)[0] = Unread
         /\ \A n \in 0..Len(buf) : Turns(buf)[n + 1] = AfterTurn(buf, Turns(buf)[n])
<1> DEFINE N == Len(buf) + 1
           after == CHOOSE f : TurnsUpTo(buf, N, f)
<1>1. N \in Nat /\ \A n \in 0..Len(buf) : n + 1 \in 0..N /\ n + 1 # 0 /\ (n + 1) - 1 = n
  OBVIOUS
<1>2. TurnsUpTo(buf, N, after)
  <2> HIDE DEF N
  <2> QED
    BY <1>1, TurnsExist
<1>3. Turns(buf) = after
  BY DEF Turns, TurnsUpTo, Unread, Standing
<1> HIDE DEF after, N
<1>4. after[0] = Unread /\ DOMAIN after = 0..N
  BY <1>1, <1>2 DEF TurnsUpTo
<1>5. ASSUME NEW n \in 0..Len(buf) PROVE after[n + 1] = AfterTurn(buf, after[n])
  BY <1>1, <1>2 DEF TurnsUpTo
<1> QED
  BY <1>3, <1>4, <1>5 DEF N

\* One turn, by its kind.
LEMMA AfterTurnCases ==
  ASSUME NEW buf, NEW r, NEW entries, NEW kind
  PROVE  LET turn == Turn(buf, r)
             after == AfterTurn(buf, Standing(r, entries, kind))
         IN  /\ turn.kind = "table" => after = Standing(turn.reader, entries, kind)
             /\ turn.kind = "entry" =>
                    after = Standing(turn.reader, Append(entries, turn.entry), kind)
             /\ turn.kind \in {"eof", "error"} => after = Standing(r, entries, turn.kind)
<1> DEFINE s == Standing(r, entries, kind)
           turn == Turn(buf, r)
<1>1. s = [reader |-> r, entries |-> entries, kind |-> kind] /\ s.reader = r
  BY DEF Standing
<1>2. AfterTurn(buf, s) = CASE turn.kind = "table" -> [s EXCEPT !.reader = turn.reader]
                           [] turn.kind = "entry" -> [s EXCEPT !.reader = turn.reader,
                                                               !.entries = Append(@, turn.entry)]
                           [] OTHER -> [s EXCEPT !.kind = turn.kind]
  BY <1>1 DEF AfterTurn
<1> HIDE DEF turn, s
<1>3. turn.kind = "table" => AfterTurn(buf, s) = Standing(turn.reader, entries, kind)
  BY <1>1, <1>2 DEF Standing
<1>4. turn.kind = "entry" => AfterTurn(buf, s) = Standing(turn.reader, Append(entries, turn.entry), kind)
  BY <1>1, <1>2 DEF Standing
<1>5. turn.kind \in {"eof", "error"} => AfterTurn(buf, s) = Standing(r, entries, turn.kind)
  BY <1>1, <1>2 DEF Standing
<1> QED
  BY <1>3, <1>4, <1>5 DEF s, turn

\* A first part and the next element are the next first part.
LEMMA NextOfPart ==
  ASSUME NEW S, NEW E \in Seq(S), NEW c \in Nat, c < Len(E)
  PROVE  Append(SubSeq(E, 1, c), E[c + 1]) = SubSeq(E, 1, c + 1)
<1>1. Len(E) \in Nat /\ c + 1 \in 1..Len(E) /\ 1 \in 1..Len(E) /\ c + 1 \in 1..Len(E)
      /\ (c + 1) - 1 = c /\ 1 \in Int /\ c \in Int /\ 1..c \subseteq 1..Len(E)
  <2>1. Len(E) \in Nat
    BY LenProperties
  <2> QED
    BY <2>1, SMT
<1>2. SubSeq(E, 1, c + 1) = SubSeq(E, 1, c) \o <<E[c + 1]>>
  BY <1>1, SubSeqRecursiveSecond
<1>3. \A i \in 1..c : E[i] \in S
  BY <1>1, ElementOfSeq
<1>4. SubSeq(E, 1, c) \in Seq(S)
  BY <1>1, <1>3, SubSeqProperties
<1>5. E[c + 1] \in S
  BY <1>1, ElementOfSeq
<1> QED
  BY <1>2, <1>4, <1>5, AppendIsConcat

\* What is read of a first part of a file: the entries whose last byte is there, and the
\* end if it is where a record ends.
LEMMA ReadOfPart ==
  ASSUME NEW p, NEW buf, Begins(p, buf), NEW S, NEW E \in Seq(S), NEW N, NEW trail,
         Layout(buf, E, N, trail), NEW K, LastPlace(Len(p), N, trail, K)
  PROVE  /\ Read(p) = [entries |-> SubSeq(E, 1, trail[K].count), ok |-> trail[K].reader.at = Len(p)]
         /\ Read(p).entries = SubSeq(E, 1, trail[K].count)
         /\ Read(p).ok <=> trail[K].reader.at = Len(p)
<1> DEFINE after == Turns(p)
           stopped == Standing(trail[K].reader, SubSeq(E, 1, trail[K].count),
                            IF trail[K].reader.at = Len(p) THEN "eof" ELSE "error")
           T == {n \in 0..(Len(p) + 1) :
                    after[n] = IF n <= K
                               THEN Standing(trail[n].reader, SubSeq(E, 1, trail[n].count), "reading")
                               ELSE stopped}
<1>1. Len(p) \in Nat /\ N \in Nat /\ K \in 0..N /\ K <= Len(p)
  <2>1. Len(p) \in Nat /\ N \in Nat /\ K \in 0..N
    BY LenProperties DEF Begins, Layout, LastPlace
  <2> QED
    BY <2>1, PlacesUpToLast
<1>2. \A n \in 0..N : trail[n] \in Place /\ trail[n].count \in Nat
  <2>1. \A n \in 0..N : trail[n] \in Place
    BY DEF Layout
  <2> QED
    BY <2>1, PlaceFields
<1>3. /\ DOMAIN after = 0..(Len(p) + 1) /\ after[0] = Unread
      /\ \A n \in 0..Len(p) : after[n + 1] = AfterTurn(p, after[n])
  BY <1>1, TurnSteps
<1> HIDE DEF after
<1>4. 0 \in T
  <2>1. trail[0].reader = NewReader /\ trail[0].count = 0
    BY PlaceFields DEF Layout, NewReader
  <2>2. SubSeq(E, 1, 0) = <<>> /\ 0 <= K /\ 0 \in 0..(Len(p) + 1)
    BY <1>1, SubSeqEmpty, SMT
  <2>3. after[0] = Standing(trail[0].reader, SubSeq(E, 1, trail[0].count), "reading")
    BY <1>3, <2>1, <2>2 DEF Unread
  <2> QED
    BY <2>2, <2>3
<1>5. ASSUME NEW n \in 0..((Len(p) + 1) - 1), n \in T PROVE n + 1 \in T
  <2>1. n \in 0..Len(p) /\ n + 1 \in 0..(Len(p) + 1) /\ after[n + 1] = AfterTurn(p, after[n])
    BY <1>1, <1>3
  <2>2. CASE n < K
    <3> DEFINE turn == Turn(p, trail[n].reader)
               c == trail[n].count
    <3>1. n \in 0..K /\ n + 1 <= K /\ n <= K /\ n \in 0..N
      BY <1>1, <2>2
    <3>2. GoesTo(turn, E, trail[n], trail[n + 1])
      BY <2>2, <3>1, TurnAtPlace
    <3>3. after[n] = Standing(trail[n].reader, SubSeq(E, 1, c), "reading")
      BY <1>5, <3>1
    <3> HIDE DEF turn
    <3>4. CASE turn = TableTurn(trail[n + 1].reader) /\ trail[n + 1].count = c
      <4>1. turn.kind = "table" /\ turn.reader = trail[n + 1].reader
        BY <3>4, TurnFields
      <4>2. after[n + 1] = Standing(trail[n + 1].reader, SubSeq(E, 1, c), "reading")
        BY <2>1, <3>3, <4>1, AfterTurnCases DEF turn
      <4> QED
        BY <2>1, <3>1, <3>4, <4>2
    <3>5. CASE turn = EntryTurn(E[c + 1], trail[n + 1].reader) /\ trail[n + 1].count = c + 1 /\ c < Len(E)
      <4>1. turn.kind = "entry" /\ turn.reader = trail[n + 1].reader /\ turn.entry = E[c + 1]
        BY <3>5, TurnFields
      <4>2. after[n + 1] = Standing(trail[n + 1].reader, Append(SubSeq(E, 1, c), E[c + 1]), "reading")
        BY <2>1, <3>3, <4>1, AfterTurnCases DEF turn
      <4>3. c \in Nat
        BY <1>2, <3>1
      <4> HIDE DEF c
      <4>4. Append(SubSeq(E, 1, c), E[c + 1]) = SubSeq(E, 1, c + 1)
        BY <3>5, <4>3, NextOfPart
      <4> QED
        BY <2>1, <3>1, <3>5, <4>2, <4>4
    <3> QED
      BY <3>2, <3>4, <3>5 DEF GoesTo
  <2>3. CASE ~(n < K)
    <3>1. K \in 0..K /\ ~(n + 1 <= K)
      BY <1>1, <2>3
    <3> DEFINE kind == IF trail[K].reader.at = Len(p) THEN "eof" ELSE "error"
    <3>2. Turn(p, trail[K].reader).kind = kind /\ kind \in {"eof", "error"}
      BY <3>1, TurnAtPlace
    <3>3. \E k : after[n] = Standing(trail[K].reader, SubSeq(E, 1, trail[K].count), k)
      <4>1. CASE n = K
        <5>1. n <= K
          BY <1>1, <4>1
        <5> QED
          BY <1>5, <4>1, <5>1
      <4>2. CASE n # K
        <5>1. ~(n <= K)
          BY <1>1, <2>3, <4>2
        <5> QED
          BY <1>5, <5>1
      <4> QED
        BY <4>1, <4>2
    <3>4. PICK k : after[n] = Standing(trail[K].reader, SubSeq(E, 1, trail[K].count), k)
      BY <3>3
    <3> HIDE DEF kind
    <3>5. after[n + 1] = Standing(trail[K].reader, SubSeq(E, 1, trail[K].count), kind)
      BY <2>1, <3>2, <3>4, AfterTurnCases
    <3> QED
      BY <2>1, <3>1, <3>5 DEF kind
  <2> QED
    BY <2>2, <2>3
<1> HIDE DEF T
<1>6. 0..(Len(p) + 1) \subseteq T
  <2>1. Len(p) + 1 \in Nat
    BY <1>1
  <2> HIDE DEF T
  <2> QED
    BY <1>4, <1>5, <2>1, UpTo
<1> DEFINE stop == CHOOSE n \in DOMAIN after : after[n].kind # "reading"
<1>7. \A r, entries, k : /\ Standing(r, entries, k).kind = k
                        /\ Standing(r, entries, k).entries = entries
  BY DEF Standing
<1>8. Len(p) + 1 \in DOMAIN after /\ after[Len(p) + 1].kind # "reading"
  <2>1. Len(p) + 1 \in 0..(Len(p) + 1) /\ ~(Len(p) + 1 <= K)
    BY <1>1
  <2>2. after[Len(p) + 1] = stopped
    BY <1>6, <2>1 DEF T
  <2> QED
    BY <1>3, <1>7, <2>1, <2>2
<1>9. stop \in 0..(Len(p) + 1) /\ after[stop].kind # "reading"
  BY <1>3, <1>8
<1>10. after[stop] = stopped
  <2> HIDE DEF stop
  <2>1. CASE stop <= K
    <3>1. after[stop] = Standing(trail[stop].reader, SubSeq(E, 1, trail[stop].count), "reading")
      BY <1>6, <1>9, <2>1 DEF T
    <3> QED
      BY <1>7, <1>9, <3>1
  <2>2. CASE ~(stop <= K)
    BY <1>6, <1>9, <2>2 DEF T
  <2> QED
    BY <2>1, <2>2
<1>11. Read(p) = [entries |-> after[stop].entries, ok |-> after[stop].kind = "eof"]
  BY DEF Read, Stopped, after
<1>12. stopped.entries = SubSeq(E, 1, trail[K].count)
       /\ stopped.kind = IF trail[K].reader.at = Len(p) THEN "eof" ELSE "error"
  <2> HIDE DEF stop
  <2> QED
    BY DEF stopped, Standing
<1> HIDE DEF stopped, stop
<1>13. (stopped.kind = "eof") = (trail[K].reader.at = Len(p))
  BY <1>12
<1>14. Read(p) = [entries |-> SubSeq(E, 1, trail[K].count), ok |-> trail[K].reader.at = Len(p)]
  BY <1>10, <1>11, <1>12, <1>13
<1> DEFINE there == trail[K].reader.at = Len(p)
           entries == SubSeq(E, 1, trail[K].count)
<1>15. Read(p) = [entries |-> entries, ok |-> there]
  BY <1>14
<1> HIDE DEF there, entries
<1>16. Read(p).entries = entries /\ Read(p).ok = there
  BY <1>15
<1> QED
  BY <1>14, <1>16 DEF there, entries

-----------------------------------------------------------------------------
(* A file one record longer *)

\* A file that bytes are appended to begins with what it was.
LEMMA JoinedBegins ==
  ASSUME NEW s \in Seq(Byte), NEW t \in Seq(Byte)
  PROVE  Begins(s, s \o t) /\ Held(s \o t, Len(s), t)
<1>1. /\ s \o t \in Seq(Byte) /\ Len(s \o t) = Len(s) + Len(t)
      /\ Len(s) \in Nat /\ Len(t) \in Nat
      /\ \A i \in 1..(Len(s) + Len(t)) : (s \o t)[i] = IF i <= Len(s) THEN s[i] ELSE t[i - Len(s)]
  BY ConcatProperties, LenProperties
<1>2. Begins(s, s \o t)
  <2>1. \A i \in 1..Len(s) : i \in 1..(Len(s) + Len(t)) /\ i <= Len(s)
    BY <1>1, SMT
  <2>2. \A i \in 1..Len(s) : s[i] = (s \o t)[i]
    BY <1>1, <2>1
  <2>3. Len(s) <= Len(s \o t)
    <3>1. Len(s) <= Len(s) + Len(t)
      BY <1>1, SMT
    <3> QED
      BY <1>1, <3>1
  <2> QED
    BY <1>1, <2>2, <2>3 DEF Begins
<1>3. Held(s \o t, Len(s), t)
  <2>1. ASSUME NEW i \in 1..Len(t) PROVE (s \o t)[Len(s) + i] = t[i]
    <3>1. Len(s) + i \in 1..(Len(s) + Len(t)) /\ ~(Len(s) + i <= Len(s)) /\ (Len(s) + i) - Len(s) = i
      BY <1>1, SMT
    <3> QED
      BY <1>1, <3>1
  <2>2. Len(s) + Len(t) <= Len(s \o t)
    <3>1. Len(s) + Len(t) <= Len(s) + Len(t)
      BY <1>1, SMT
    <3> QED
      BY <1>1, <3>1
  <2> QED
    BY <2>1, <2>2 DEF Held
<1> QED
  BY <1>2, <1>3

\* The entries E and maybe more.
Extends(E, longer) ==
    /\ Len(E) \in Nat /\ Len(longer) \in Nat /\ Len(E) <= Len(longer)
    /\ \A i \in 1..Len(E) : longer[i] = E[i]

\* The records of a file stay where they are when it grows ...
LEMMA RecordInLonger ==
  ASSUME NEW p, NEW buf, Begins(p, buf), NEW E, NEW longer, Extends(E, longer),
         NEW a \in Place, NEW b, RecordBetween(p, E, a, b)
  PROVE  RecordBetween(buf, longer, a, b)
<1>1. a.reader.at \in Nat /\ a.count \in Nat
  BY PlaceFields
<1>2. ASSUME NEW t, HeaderBetween(p, t, a, b) PROVE HeaderBetween(buf, t, a, b)
  <2>1. IsTable(t) /\ Held(p, a.reader.at, Header(t))
    BY <1>2 DEF HeaderBetween
  <2>2. Held(buf, a.reader.at, Header(t))
    BY <1>1, <2>1, HeaderBytes, HeldInLonger
  <2> QED
    BY <1>2, <2>2 DEF HeaderBetween
<1>3. ASSUME a.count < Len(E), EntryBetween(p, E[a.count + 1], a, b)
      PROVE  a.count < Len(longer) /\ EntryBetween(buf, longer[a.count + 1], a, b)
  <2> DEFINE e == E[a.count + 1]
  <2>1. a.count < Len(longer) /\ a.count + 1 \in 1..Len(E)
    BY <1>1, <1>3, SMT DEF Extends
  <2>2. longer[a.count + 1] = e
    BY <2>1 DEF Extends
  <2>3. IsEntry(e) /\ Held(p, a.reader.at, EntryBytes(e))
    BY <1>3 DEF EntryBetween
  <2> HIDE DEF e
  <2>4. EntryBytes(e) \in Seq(Byte)
    BY <2>3, EntryBytesTyped
  <2>5. Held(buf, a.reader.at, EntryBytes(e))
    BY <1>1, <2>3, <2>4, HeldInLonger
  <2>6. EntryBetween(buf, e, a, b)
    BY <1>3, <2>5 DEF EntryBetween, e
  <2> QED
    BY <2>1, <2>2, <2>6
<1> QED
  BY <1>2, <1>3 DEF RecordBetween

\* ... and its places too, with one more behind them.
Longer(N, trail, b) == [n \in 0..(N + 1) |-> IF n = N + 1 THEN b ELSE trail[n]]

\* A file with one record more is laid out with one place more.
LEMMA OneRecordMore ==
  ASSUME NEW buf, NEW E, NEW N, NEW trail, Layout(buf, E, N, trail), NEW bytes \in Seq(Byte),
         NEW longer, Extends(E, longer), NEW b \in Place,
         RecordBetween(buf \o bytes, longer, trail[N], b),
         b.reader.at = Len(buf) + Len(bytes), b.count = Len(longer)
  PROVE  Layout(buf \o bytes, longer, N + 1, Longer(N, trail, b))
<1> DEFINE all == buf \o bytes
           places == Longer(N, trail, b)
<1>1. N \in Nat /\ buf \in Seq(Byte) /\ (\A n \in 0..N : trail[n] \in Place)
  BY DEF Layout
<1>2. Begins(buf, all) /\ all \in Seq(Byte) /\ Len(all) = Len(buf) + Len(bytes)
  BY <1>1, JoinedBegins, JoinedBytes
<1> HIDE DEF all
<1>3. places[N + 1] = b /\ (\A n \in 0..N : places[n] = trail[n]) /\ places \in [0..(N + 1) -> Place]
  <2>1. N + 1 \in 0..(N + 1) /\ \A n \in 0..N : n \in 0..(N + 1) /\ n # N + 1
    BY <1>1
  <2>2. \A n \in 0..(N + 1) : n = N + 1 \/ n \in 0..N
    BY <1>1
  <2> QED
    BY <1>1, <2>1, <2>2 DEF Longer
<1> HIDE DEF places
<1>4. ASSUME NEW n \in 0..((N + 1) - 1) PROVE RecordBetween(all, longer, places[n], places[n + 1])
  <2>1. CASE n = N
    <3>1. places[n] = trail[N] /\ places[n + 1] = b
      BY <1>1, <1>3, <2>1
    <3> QED
      BY <3>1 DEF all
  <2>2. CASE n # N
    <3>1. n \in 0..(N - 1) /\ n \in 0..N /\ n + 1 \in 0..N
      BY <1>1, <2>2
    <3>2. RecordBetween(buf, E, trail[n], trail[n + 1])
      BY <3>1 DEF Layout
    <3>3. trail[n] \in Place
      BY <1>1, <3>1
    <3>4. RecordBetween(all, longer, trail[n], trail[n + 1])
      BY <1>2, <3>2, <3>3, RecordInLonger
    <3> QED
      BY <1>3, <3>1, <3>4
  <2> QED
    BY <2>1, <2>2
<1>5. 0 \in 0..N /\ N + 1 \in Nat /\ Len(longer) \in Nat
  BY <1>1 DEF Extends
<1>6. places[0] = PlaceAt(0, NoTable, 0)
  BY <1>3, <1>5 DEF Layout
<1> QED
  BY <1>2, <1>3, <1>4, <1>5, <1>6 DEF Layout, all, places

\* BeginTable's header makes one record more.
LEMMA HeaderAppended ==
  ASSUME NEW buf, NEW E, NEW N, NEW trail, Layout(buf, E, N, trail), NEW t, IsTable(t)
  PROVE  LET b == PlaceAt(Len(buf) + Len(Header(t)), t, Len(E))
         IN  b \in Place /\ Layout(buf \o Header(t), E, N + 1, Longer(N, trail, b))
<1> DEFINE bytes == Header(t)
           b == PlaceAt(Len(buf) + Len(bytes), t, Len(E))
<1>1. buf \in Seq(Byte) /\ Len(buf) \in Nat /\ bytes \in Seq(Byte) /\ Len(bytes) \in Nat
      /\ Len(E) \in Nat
  BY HeaderBytes, LenProperties DEF Layout
<1>2. Extends(E, E)
  BY <1>1 DEF Extends
<1>3. b \in Place
  <2>1. Len(buf) + Len(bytes) \in Nat
    BY <1>1, SMT
  <2> QED
    BY <1>1, <2>1, PlaceTyped
<1>4. b.reader.at = Len(buf) + Len(bytes) /\ b.count = Len(E)
  BY PlaceFields
<1>5. trail[N].reader.at = Len(buf) /\ trail[N].count = Len(E)
  BY DEF Layout
<1>6. Held(buf \o bytes, Len(buf), bytes)
  BY <1>1, JoinedBegins
<1>7. HeaderBetween(buf \o bytes, t, trail[N], b)
  BY <1>5, <1>6 DEF HeaderBetween
<1>8. RecordBetween(buf \o bytes, E, trail[N], b)
  BY <1>7 DEF RecordBetween
<1> HIDE DEF b, bytes
<1>9. Layout(buf \o bytes, E, N + 1, Longer(N, trail, b))
  BY <1>1, <1>2, <1>3, <1>4, <1>8, OneRecordMore
<1> QED
  BY <1>3, <1>9 DEF b, bytes

\* One entry more.
LEMMA AppendedEntry ==
  ASSUME NEW S, NEW E \in Seq(S), NEW e \in S
  PROVE  /\ E \o <<e>> \in Seq(S) /\ Len(E \o <<e>>) = Len(E) + 1 /\ Len(E) \in Nat
         /\ (E \o <<e>>)[Len(E) + 1] = e
         /\ Extends(E, E \o <<e>>)
<1>1. <<e>> \in Seq(S) /\ Len(<<e>>) = 1 /\ <<e>>[1] = e
  OBVIOUS
<1> DEFINE one == <<e>>
<1> HIDE DEF one
<1>2. /\ E \o one \in Seq(S) /\ Len(E \o one) = Len(E) + Len(one) /\ Len(E) \in Nat
      /\ \A i \in 1..(Len(E) + Len(one)) : (E \o one)[i] = IF i <= Len(E) THEN E[i] ELSE one[i - Len(E)]
  BY <1>1, ConcatProperties, LenProperties DEF one
<1>3. Len(one) = 1 /\ one[1] = e
  BY <1>1 DEF one
<1>4. Len(E) + 1 \in 1..(Len(E) + Len(one)) /\ ~(Len(E) + 1 <= Len(E)) /\ (Len(E) + 1) - Len(E) = 1
      /\ \A i \in 1..Len(E) : i \in 1..(Len(E) + Len(one)) /\ i <= Len(E)
  BY <1>2, <1>3, SMT
<1>5. (E \o one)[Len(E) + 1] = e /\ \A i \in 1..Len(E) : (E \o one)[i] = E[i]
  BY <1>2, <1>3, <1>4
<1>6. Len(E \o one) = Len(E) + 1
  BY <1>2, <1>3
<1>7. Len(E) + 1 \in Nat /\ Len(E) <= Len(E) + 1
  BY <1>2, SMT
<1>8. Extends(E, E \o one)
  BY <1>2, <1>5, <1>6, <1>7 DEF Extends
<1> QED
  BY <1>2, <1>5, <1>6, <1>8 DEF one

\* WriteEntry's entry makes one record more, if its table is the last begun.
LEMMA EntryAppended ==
  ASSUME NEW buf, NEW S, NEW E \in Seq(S), NEW N, NEW trail, Layout(buf, E, N, trail),
         NEW e \in S, IsEntry(e), e.table = trail[N].reader.table
  PROVE  LET b == PlaceAt(Len(buf) + Len(EntryBytes(e)), e.table, Len(E) + 1)
         IN  b \in Place /\ Layout(buf \o EntryBytes(e), E \o <<e>>, N + 1, Longer(N, trail, b))
<1> DEFINE bytes == EntryBytes(e)
           longer == E \o <<e>>
           b == PlaceAt(Len(buf) + Len(bytes), e.table, Len(E) + 1)
<1>1. buf \in Seq(Byte) /\ Len(buf) \in Nat /\ bytes \in Seq(Byte) /\ Len(bytes) \in Nat
      /\ Len(E) \in Nat
  BY EntryBytesTyped, LenProperties DEF Layout
<1>2. Extends(E, longer) /\ longer[Len(E) + 1] = e /\ Len(longer) = Len(E) + 1
  BY AppendedEntry
<1>3. b \in Place
  <2>1. Len(buf) + Len(bytes) \in Nat /\ Len(E) + 1 \in Nat /\ IsTable(e.table)
    BY <1>1, EntryRows, SMT
  <2> QED
    BY <1>1, <2>1, PlaceTyped
<1>4. b.reader.at = Len(buf) + Len(bytes) /\ b.count = Len(E) + 1
  BY PlaceFields
<1>5. trail[N].reader.at = Len(buf) /\ trail[N].count = Len(E)
  BY DEF Layout
<1>6. Held(buf \o bytes, Len(buf), bytes)
  BY <1>1, JoinedBegins
<1>7. EntryBetween(buf \o bytes, e, trail[N], b)
  BY <1>5, <1>6 DEF EntryBetween
<1> HIDE DEF longer, b, bytes
<1>8. trail[N].count < Len(longer) /\ longer[trail[N].count + 1] = e
  <2>1. Len(E) < Len(E) + 1
    BY <1>1, SMT
  <2> QED
    BY <1>2, <1>5, <2>1
<1>9. RecordBetween(buf \o bytes, longer, trail[N], b)
  BY <1>7, <1>8 DEF RecordBetween
<1>10. b.count = Len(longer)
  BY <1>2, <1>4
<1>11. Layout(buf \o bytes, longer, N + 1, Longer(N, trail, b))
  BY <1>1, <1>2, <1>3, <1>4, <1>9, <1>10, OneRecordMore
<1> QED
  BY <1>3, <1>11 DEF b, bytes, longer

-----------------------------------------------------------------------------
(* First parts *)

\* The first elements of a sequence.
LEMMA FirstPart ==
  ASSUME NEW S, NEW E \in Seq(S), NEW c \in 0..Len(E)
  PROVE  /\ SubSeq(E, 1, c) \in Seq(S) /\ Len(SubSeq(E, 1, c)) = c
         /\ \A i \in 1..c : SubSeq(E, 1, c)[i] = E[i]
         /\ IsPrefix(SubSeq(E, 1, c), E)
<1>1. Len(E) \in Nat /\ c \in Nat /\ c <= Len(E) /\ 1 \in Int /\ c \in Int /\ 1..c \subseteq 1..Len(E)
  <2>1. Len(E) \in Nat
    BY LenProperties
  <2> QED
    BY <2>1, SMT
<1>2. \A i \in 1..c : E[i] \in S
  BY <1>1, ElementOfSeq
<1> DEFINE s == SubSeq(E, 1, c)
<1>3. /\ s \in Seq(S) /\ Len(s) = IF 1 <= c THEN c - 1 + 1 ELSE 0
      /\ \A i \in 1..(c - 1 + 1) : s[i] = E[1 + i - 1]
  BY <1>1, <1>2, SubSeqProperties
<1>4. c - 1 + 1 = c /\ (1 <= c \/ c = 0) /\ \A i \in 1..c : 1 + i - 1 = i
  BY <1>1, SMT
<1> HIDE DEF s
<1>5. Len(s) = c /\ \A i \in 1..c : s[i] = E[i]
  BY <1>3, <1>4
<1>6. SubSeq(s, 1, Len(s)) = s
  BY <1>3, SubSeqFull
<1>7. IsPrefix(s, E)
  BY <1>1, <1>5, <1>6 DEF IsPrefix, s
<1> QED
  BY <1>3, <1>5, <1>7 DEF s

\* Sequences with the same first elements have the same first part.
LEMMA SamePart ==
  ASSUME NEW S, NEW D \in Seq(S), NEW E \in Seq(S), NEW c \in Nat, c <= Len(D), c <= Len(E),
         \A i \in 1..c : D[i] = E[i]
  PROVE  SubSeq(D, 1, c) = SubSeq(E, 1, c)
<1>1. c \in 0..Len(D) /\ c \in 0..Len(E)
  <2>1. Len(D) \in Nat /\ Len(E) \in Nat
    BY LenProperties
  <2> QED
    BY <2>1, SMT
<1>2. /\ SubSeq(D, 1, c) \in Seq(S) /\ Len(SubSeq(D, 1, c)) = c
      /\ \A i \in 1..c : SubSeq(D, 1, c)[i] = D[i]
  BY <1>1, FirstPart
<1>3. /\ SubSeq(E, 1, c) \in Seq(S) /\ Len(SubSeq(E, 1, c)) = c
      /\ \A i \in 1..c : SubSeq(E, 1, c)[i] = E[i]
  BY <1>1, FirstPart
<1> DEFINE s == SubSeq(D, 1, c)
           t == SubSeq(E, 1, c)
<1> HIDE DEF s, t
<1>4. s \in Seq(S) /\ t \in Seq(S) /\ Len(s) = Len(t) /\ \A i \in 1..Len(s) : s[i] = t[i]
  BY <1>2, <1>3 DEF s, t
<1>5. s = t
  BY <1>4, SeqEqual
<1> QED
  BY <1>5 DEF s, t

\* A first part of a first part is one.
LEMMA PrefixOfPart ==
  ASSUME NEW S, NEW W \in Seq(S), NEW E \in Seq(S), Extends(E, W), NEW c \in 0..Len(E)
  PROVE  IsPrefix(SubSeq(E, 1, c), W) /\ SubSeq(E, 1, c) = SubSeq(W, 1, c)
<1>1. Len(E) \in Nat /\ Len(W) \in Nat /\ Len(E) <= Len(W) /\ \A i \in 1..Len(E) : W[i] = E[i]
  BY DEF Extends
<1>2. c \in 0..Len(W) /\ c \in Nat /\ c <= Len(E) /\ c <= Len(W) /\ 1..c \subseteq 1..Len(E)
  BY <1>1, SMT
<1>3. \A i \in 1..c : E[i] = W[i]
  BY <1>1, <1>2
<1>4. SubSeq(E, 1, c) = SubSeq(W, 1, c)
  BY <1>2, <1>3, SamePart
<1> QED
  BY <1>2, <1>4, FirstPart

\* A file of no records.
LEMMA EmptyFile ==
  Layout(<<>>, <<>>, 0, [n \in 0..0 |-> PlaceAt(0, NoTable, 0)])
<1> DEFINE trail == [n \in 0..0 |-> PlaceAt(0, NoTable, 0)]
<1>1. PlaceAt(0, NoTable, 0) \in Place
  BY PlaceTyped
<1>2. trail \in [0..0 -> Place] /\ trail[0] = PlaceAt(0, NoTable, 0)
  BY <1>1
<1>3. <<>> \in Seq(Byte) /\ Len(<<>>) = 0
  OBVIOUS
<1>4. 0..(0 - 1) = {}
  OBVIOUS
<1>5. PlaceAt(0, NoTable, 0).reader.at = 0 /\ PlaceAt(0, NoTable, 0).count = 0
  BY PlaceFields
<1> QED
  BY <1>2, <1>3, <1>4, <1>5 DEF Layout

\* The whole file is a first part.
LEMMA WholeBegins ==
  ASSUME NEW buf \in Seq(Byte)
  PROVE  Begins(buf, buf)
<1>1. Len(buf) \in Nat
  BY LenProperties
<1> QED
  BY <1>1, SMT DEF Begins

\* The last place of a whole file is the last of all.
LEMMA LastOfWhole ==
  ASSUME NEW buf, NEW E, NEW N, NEW trail, Layout(buf, E, N, trail)
  PROVE  LastPlace(Len(buf), N, trail, N)
<1>1. N \in Nat /\ trail[N].reader.at = Len(buf) /\ Len(buf) \in Nat
      /\ (\A n \in 0..N : trail[n] \in Place)
  BY LenProperties DEF Layout
<1>2. ASSUME NEW n \in 0..N PROVE trail[n].reader.at <= Len(buf)
  <2>1. N \in n..N /\ N - n \in Nat /\ trail[n].reader.at \in Nat
    <3>1. trail[n] \in Place
      BY <1>1
    <3>2. N \in n..N /\ N - n \in Nat
      BY <1>1
    <3> QED
      BY <3>1, <3>2, PlaceFields
  <2>2. trail[N].reader.at >= trail[n].reader.at + (N - n)
    BY <2>1, PlacesInOrder
  <2> QED
    BY <1>1, <2>1, <2>2, SMT
<1> QED
  BY <1>1, <1>2 DEF LastPlace

\* A whole file reads back.
LEMMA ReadOfWhole ==
  ASSUME NEW buf, NEW S, NEW E \in Seq(S), NEW N, NEW trail, Layout(buf, E, N, trail)
  PROVE  Read(buf) = [entries |-> E, ok |-> TRUE]
<1>1. buf \in Seq(Byte) /\ trail[N].reader.at = Len(buf) /\ trail[N].count = Len(E)
  BY DEF Layout
<1>2. Begins(buf, buf) /\ LastPlace(Len(buf), N, trail, N)
  BY <1>1, WholeBegins, LastOfWhole
<1>3. Read(buf) = [entries |-> SubSeq(E, 1, trail[N].count), ok |-> trail[N].reader.at = Len(buf)]
  BY <1>2, ReadOfPart
<1>4. (trail[N].reader.at = Len(buf)) = TRUE
  BY <1>1
<1>5. SubSeq(E, 1, trail[N].count) = E
  BY <1>1, SubSeqFull
<1> QED
  BY <1>3, <1>4, <1>5

\* Of a first part a first part of the entries.
LEMMA EntriesOfPart ==
  ASSUME NEW p, NEW buf, Begins(p, buf), NEW S, NEW E \in Seq(S), NEW N, NEW trail,
         Layout(buf, E, N, trail)
  PROVE  \E c \in 0..Len(E) : Read(p).entries = SubSeq(E, 1, c)
<1>1. Len(p) \in Nat
  BY LenProperties DEF Begins
<1>2. PICK K : LastPlace(Len(p), N, trail, K)
  BY <1>1, LastPlaceExists
<1>3. trail[K].count \in 0..Len(E)
  BY <1>1, <1>2, PlacesUpToLast
<1>5. Read(p).entries = SubSeq(E, 1, trail[K].count)
  BY <1>2, ReadOfPart
<1> QED
  BY <1>3, <1>5

\* The last record of a file that is not there in full does not count.
LEMMA EntriesBeforeTorn ==
  ASSUME NEW p, NEW all, Begins(p, all), Len(p) < Len(all),
         NEW S, NEW longer \in Seq(S), NEW N, NEW trail, NEW b,
         NEW buf, NEW E, Layout(buf, E, N, trail),
         Layout(all, longer, N + 1, Longer(N, trail, b))
  PROVE  \E c \in 0..Len(E) : Read(p).entries = SubSeq(longer, 1, c)
<1> DEFINE places == Longer(N, trail, b)
<1>0. N \in Nat /\ Len(p) \in Nat /\ Len(all) \in Nat
      /\ trail[N].count = Len(E) /\ Len(E) \in Nat /\ \A n \in 0..N : trail[n] \in Place
  BY LenProperties DEF Begins, Layout
<1>1. PICK K : LastPlace(Len(p), N + 1, places, K)
  BY <1>0, LastPlaceExists
<1>2. places[N + 1].reader.at = Len(all)
  BY DEF Layout
<1>3. \A n \in 0..N : places[n] = trail[n]
  <2>1. \A n \in 0..N : n \in 0..(N + 1) /\ n # N + 1
    BY <1>0
  <2> QED
    BY <2>1 DEF Longer
<1>4. K \in 0..N
  <2>1. K \in 0..(N + 1) /\ places[K].reader.at <= Len(p)
    <3>1. K \in 0..(N + 1) /\ \A n \in 0..K : places[n].reader.at <= Len(p)
      BY <1>1 DEF LastPlace
    <3>2. K \in 0..K
      BY <3>1
    <3> QED
      BY <3>1, <3>2
  <2>2. K # N + 1
    BY <1>0, <1>2, <2>1, SMT
  <2> QED
    BY <1>0, <2>1, <2>2, SMT
<1>5. places[K].count \in 0..Len(E)
  <2>1. N \in K..N
    BY <1>0, <1>4
  <2>2. trail[N].count >= trail[K].count
    BY <1>4, <2>1, PlacesInOrder
  <2>3. trail[K].count \in Nat
    BY <1>0, <1>4, PlaceFields
  <2>4. places[K].count = trail[K].count
    BY <1>3, <1>4
  <2> QED
    BY <1>0, <2>2, <2>3, <2>4, SMT
<1>7. Read(p).entries = SubSeq(longer, 1, places[K].count)
  BY <1>1, ReadOfPart
<1> QED
  BY <1>5, <1>7

-----------------------------------------------------------------------------
(* The inverse of an entry, and an entry of nulls *)

\* What makes an entry.
LEMMA EntryIff ==
  ASSUME NEW op \in {Insert, Update, Delete}, NEW t, IsTable(t), NEW old, NEW new,
         IF op = Insert THEN old = <<>> ELSE RowOf(old, Columns(t)) /\ KeyGiven(t, old),
         IF op = Delete THEN new = <<>> ELSE RowOf(new, Columns(t)),
         op = Insert => KeyGiven(t, new)
  PROVE  IsEntry([op |-> op, table |-> t, old |-> old, new |-> new])
<1> DEFINE e == [op |-> op, table |-> t, old |-> old, new |-> new]
<1>1. e = [op |-> e.op, table |-> e.table, old |-> e.old, new |-> e.new]
      /\ e.op = op /\ e.table = t /\ e.old = old /\ e.new = new
  OBVIOUS
<1>2. \A row : RowOf(row, Columns(t)) => IsRow(t, row)
  BY DEF RowOf, IsRow
<1> HIDE DEF e
<1>3. IsEntry(e)
  BY <1>1, <1>2 DEF IsEntry
<1> QED
  BY <1>3 DEF e

\* The key of an entry is given in its old row, or in its only one.
LEMMA EntryKeys ==
  ASSUME NEW e, IsEntry(e)
  PROVE  /\ e.op # Insert => KeyGiven(e.table, e.old)
         /\ e.op = Insert => KeyGiven(e.table, e.new)
  BY DEF IsEntry

\* The three kinds of entry are not one another.
LEMMA Operations == Insert # Delete /\ Insert # Update /\ Delete # Update
  BY SMT DEF Insert, Update, Delete

\* The inverse of an insert is a delete.
LEMMA InverseOfInsert ==
  ASSUME NEW e, IsEntry(e), e.op = Insert
  PROVE  /\ Inverted(e) = [op |-> Delete, table |-> e.table, old |-> e.new, new |-> <<>>]
         /\ IsEntry(Inverted(e))
<1>1. /\ e = [op |-> e.op, table |-> e.table, old |-> e.old, new |-> e.new] /\ IsTable(e.table)
      /\ RowOf(e.new, Columns(e.table)) /\ KeyGiven(e.table, e.new)
  BY EntryRows, EntryKeys, Operations
<1>2. Inverted(e) = [e EXCEPT !.op = Delete, !.old = e.new, !.new = <<>>]
  BY Operations DEF Inverted
<1>3. Inverted(e) = [op |-> Delete, table |-> e.table, old |-> e.new, new |-> <<>>]
  BY <1>1, <1>2
<1> QED
  BY <1>1, <1>3, Operations, EntryIff

\* The inverse of a delete is an insert.
LEMMA InverseOfDelete ==
  ASSUME NEW e, IsEntry(e), e.op = Delete
  PROVE  /\ Inverted(e) = [op |-> Insert, table |-> e.table, old |-> <<>>, new |-> e.old]
         /\ IsEntry(Inverted(e))
<1>1. /\ e = [op |-> e.op, table |-> e.table, old |-> e.old, new |-> e.new] /\ IsTable(e.table)
      /\ RowOf(e.old, Columns(e.table)) /\ KeyGiven(e.table, e.old)
  BY EntryRows, EntryKeys, Operations
<1>2. Inverted(e) = [e EXCEPT !.op = Insert, !.new = e.old, !.old = <<>>]
  BY Operations DEF Inverted
<1>3. Inverted(e) = [op |-> Insert, table |-> e.table, old |-> <<>>, new |-> e.old]
  BY <1>1, <1>2
<1> QED
  BY <1>1, <1>3, Operations, EntryIff

\* The key columns an update gives once, and the rows of its inverse.
Once(e) == {i \in DOMAIN e.new : e.table.pks[i] /\ e.new[i] = Undefined}
SwappedOld(e) == [i \in DOMAIN e.new |-> (IF i \in Once(e) THEN e.old ELSE e.new)[i]]
SwappedNew(e) == [i \in DOMAIN e.new |-> (IF i \in Once(e) THEN e.new ELSE e.old)[i]]

\* The inverse of an update swaps its rows but for the key columns given once.
LEMMA InverseOfUpdate ==
  ASSUME NEW e, IsEntry(e), e.op = Update
  PROVE  /\ Inverted(e) = [op |-> Update, table |-> e.table, old |-> SwappedOld(e),
                           new |-> SwappedNew(e)]
         /\ IsEntry(Inverted(e))
<1> DEFINE n == Columns(e.table)
<1>1. /\ e = [op |-> e.op, table |-> e.table, old |-> e.old, new |-> e.new] /\ IsTable(e.table)
      /\ RowOf(e.old, n) /\ RowOf(e.new, n) /\ KeyGiven(e.table, e.old)
  BY EntryRows, EntryKeys, Operations
<1>2. DOMAIN e.new = 1..n /\ DOMAIN e.old = 1..n
  BY <1>1 DEF RowOf
<1>3. Inverted(e) = [e EXCEPT !.old = SwappedOld(e), !.new = SwappedNew(e)]
  BY Operations DEF Inverted, Once, SwappedOld, SwappedNew
<1>4. Inverted(e) = [op |-> Update, table |-> e.table, old |-> SwappedOld(e), new |-> SwappedNew(e)]
  BY <1>1, <1>3
<1> HIDE DEF n
<1>5. RowOf(SwappedOld(e), n)
  BY <1>1, <1>2 DEF RowOf, SwappedOld
<1>6. RowOf(SwappedNew(e), n)
  BY <1>1, <1>2 DEF RowOf, SwappedNew
<1>7. KeyGiven(e.table, SwappedOld(e))
  BY <1>1, <1>2 DEF KeyGiven, SwappedOld, Once, n
<1> QED
  BY <1>1, <1>4, <1>5, <1>6, <1>7, Operations, EntryIff DEF n

\* The inverse of an entry is an entry of its table.
LEMMA InvertedIsEntry ==
  ASSUME NEW e, IsEntry(e)
  PROVE  IsEntry(Inverted(e)) /\ Inverted(e).table = e.table
<1>1. e.op \in {Insert, Update, Delete}
  BY EntryRows
<1>2. CASE e.op = Insert
  BY <1>2, InverseOfInsert
<1>3. CASE e.op = Delete
  BY <1>3, InverseOfDelete
<1>4. CASE e.op = Update
  BY <1>4, InverseOfUpdate
<1> QED
  BY <1>1, <1>2, <1>3, <1>4

\* The inverse of the inverse is the entry, and the key stays where it is looked for.
LEMMA InverseOfInverse ==
  ASSUME NEW e, IsEntry(e)
  PROVE  /\ Inverted(Inverted(e)) = e
         /\ \A c \in DOMAIN e.table.pks :
                e.table.pks[c] /\ e.op # Delete => Inverted(e).old[c] # Undefined
<1>0. /\ e.op \in {Insert, Update, Delete} /\ IsEntry(Inverted(e)) /\ Inverted(e).table = e.table
      /\ e = [op |-> e.op, table |-> e.table, old |-> e.old, new |-> e.new]
      /\ DOMAIN e.table.pks = 1..Columns(e.table)
  <2>1. e.table.pks \in Seq(BOOLEAN)
    BY EntryRows DEF IsTable
  <2> QED
    BY <2>1, EntryRows, InvertedIsEntry, LenProperties DEF Columns
<1>1. CASE e.op = Insert
  <2>1. Inverted(e) = [op |-> Delete, table |-> e.table, old |-> e.new, new |-> <<>>]
    BY <1>1, InverseOfInsert
  <2> DEFINE d == Inverted(e)
  <2>2. d.op = Delete /\ d.table = e.table /\ d.old = e.new /\ IsEntry(d)
    BY <1>0, <2>1
  <2> HIDE DEF d
  <2>3. Inverted(d) = [op |-> Insert, table |-> e.table, old |-> <<>>, new |-> e.new]
    BY <2>2, InverseOfDelete
  <2>4. e.old = <<>> /\ KeyGiven(e.table, e.new)
    BY <1>1, EntryRows, EntryKeys
  <2>5. Inverted(d) = e
    BY <1>0, <1>1, <2>3, <2>4
  <2> QED
    BY <1>0, <2>2, <2>4, <2>5 DEF d, KeyGiven
<1>2. CASE e.op = Delete
  <2>1. Inverted(e) = [op |-> Insert, table |-> e.table, old |-> <<>>, new |-> e.old]
    BY <1>2, InverseOfDelete
  <2> DEFINE d == Inverted(e)
  <2>2. d.op = Insert /\ d.table = e.table /\ d.new = e.old /\ IsEntry(d)
    BY <1>0, <2>1
  <2> HIDE DEF d
  <2>3. Inverted(d) = [op |-> Delete, table |-> e.table, old |-> e.old, new |-> <<>>]
    BY <2>2, InverseOfInsert
  <2>4. e.new = <<>>
    BY <1>2, EntryRows
  <2>5. Inverted(d) = e
    BY <1>0, <1>2, <2>3, <2>4
  <2> QED
    BY <1>2, <2>5 DEF d
<1>3. CASE e.op = Update
  <2> DEFINE d == Inverted(e)
             n == Columns(e.table)
  <2>1. Inverted(e) = [op |-> Update, table |-> e.table, old |-> SwappedOld(e), new |-> SwappedNew(e)]
    BY <1>3, InverseOfUpdate
  <2>2. d.op = Update /\ d.table = e.table /\ d.old = SwappedOld(e) /\ d.new = SwappedNew(e)
        /\ IsEntry(d)
    BY <1>0, <2>1
  <2> HIDE DEF d
  <2>3. Inverted(d) = [op |-> Update, table |-> e.table, old |-> SwappedOld(d), new |-> SwappedNew(d)]
    BY <2>2, InverseOfUpdate
  <2>4. RowOf(e.old, n) /\ RowOf(e.new, n) /\ KeyGiven(e.table, e.old)
    BY <1>3, EntryRows, EntryKeys, Operations
  <2>5. DOMAIN e.new = 1..n /\ DOMAIN e.old = 1..n /\ DOMAIN d.new = 1..n
    BY <2>2, <2>4 DEF RowOf, SwappedNew
  <2>6. \A i \in 1..n : /\ i \in Once(e) <=> e.table.pks[i] /\ e.new[i] = Undefined
                        /\ d.old[i] = (IF i \in Once(e) THEN e.old ELSE e.new)[i]
                        /\ d.new[i] = (IF i \in Once(e) THEN e.new ELSE e.old)[i]
    BY <2>2, <2>5 DEF Once, SwappedOld, SwappedNew
  <2>7. \A i \in 1..n : e.table.pks[i] => e.old[i] # Undefined
    BY <2>4 DEF KeyGiven
  <2>8. Once(d) = Once(e)
    <3>1. \A i \in 1..n : i \in Once(d) <=> i \in Once(e)
      <4>1. \A i \in 1..n : i \in Once(d) <=> e.table.pks[i] /\ d.new[i] = Undefined
        BY <2>2, <2>5 DEF Once
      <4> QED
        BY <4>1, <2>6, <2>7
    <3>2. Once(d) \subseteq 1..n /\ Once(e) \subseteq 1..n
      BY <2>5 DEF Once
    <3> QED
      BY <3>1, <3>2
  <2>9. \A i \in 1..n : SwappedOld(d)[i] = e.old[i] /\ SwappedNew(d)[i] = e.new[i]
    <3> TAKE i \in 1..n
    <3>1. SwappedOld(d)[i] = (IF i \in Once(e) THEN d.old ELSE d.new)[i]
          /\ SwappedNew(d)[i] = (IF i \in Once(e) THEN d.new ELSE d.old)[i]
      BY <2>5, <2>8 DEF SwappedOld, SwappedNew
    <3> QED
      BY <3>1, <2>6
  <2>10. SwappedOld(d) = e.old /\ SwappedNew(d) = e.new
    <3>1. SwappedOld(d) = [i \in 1..n |-> SwappedOld(d)[i]] /\ SwappedNew(d) = [i \in 1..n |-> SwappedNew(d)[i]]
      BY <2>5 DEF SwappedOld, SwappedNew
    <3>2. e.old = [i \in 1..n |-> e.old[i]] /\ e.new = [i \in 1..n |-> e.new[i]]
      BY <2>4 DEF RowOf
    <3> HIDE DEF n
    <3> QED
      BY <2>9, <3>1, <3>2
  <2>11. Inverted(d) = e
    BY <1>0, <1>3, <2>3, <2>10
  <2>12. \A c \in 1..n : e.table.pks[c] => d.old[c] # Undefined
    BY <2>6, <2>7
  <2> QED
    BY <1>0, <2>11, <2>12 DEF d, n
<1> QED
  BY <1>0, <1>1, <1>2, <1>3

\* An entry of a table with nothing but nulls, to compare a refused one with.
Nulls(t) == [i \in 1..Columns(t) |-> Null]
Blank(op, t) == [op |-> op, table |-> t,
                 old |-> IF op = Insert THEN <<>> ELSE Nulls(t),
                 new |-> IF op = Delete THEN <<>> ELSE Nulls(t)]

\* A value takes a byte at least.
LEMMA ValueLong ==
  ASSUME NEW v, IsValue(v)
  PROVE  ValueBytes(v) \in Seq(Byte) /\ Len(ValueBytes(v)) >= 1
<1> DEFINE T == <<v.type>>
           L == LengthBytes(v)
           B == v.bytes
<1>1. /\ T \in Seq(Byte) /\ L \in Seq(Byte) /\ B \in Seq(Byte) /\ Len(T) = 1
      /\ ValueBytes(v) = (T \o L) \o B
  BY ValueParts
<1> HIDE DEF T, L, B
<1>2. T \o L \in Seq(Byte) /\ Len(T \o L) = Len(T) + Len(L) /\ Len(L) \in Nat
  BY <1>1, JoinedBytes
<1> DEFINE M == T \o L
<1> HIDE DEF M
<1>3. M \in Seq(Byte) /\ Len(M) = 1 + Len(L) /\ ValueBytes(v) = M \o B
  BY <1>1, <1>2 DEF M
<1>4. M \o B \in Seq(Byte) /\ Len(M \o B) = Len(M) + Len(B) /\ Len(B) \in Nat
  BY <1>1, <1>3, JoinedBytes
<1>5. Len(M) + Len(B) >= 1
  BY <1>2, <1>3, <1>4, SMT
<1> QED
  BY <1>3, <1>4, <1>5

\* A row takes a byte a column at least.
LEMMA RowBytesLong ==
  ASSUME NEW n \in Nat, NEW row, RowOf(row, n)
  PROVE  RowBytes(row) \in Seq(Byte) /\ Len(RowBytes(row)) >= n
<1>1. PICK part : /\ part[0] = <<>> /\ part[n] = RowBytes(row)
                  /\ \A i \in 0..n : part[i] \in Seq(Byte)
                  /\ \A i \in 0..(n - 1) : part[i + 1] = part[i] \o ValueBytes(row[i + 1])
  BY RowParts
<1> DEFINE T == {i \in 0..n : Len(part[i]) >= i}
<1>2. 0 \in T
  BY <1>1
<1>3. ASSUME NEW i \in 0..(n - 1), i \in T PROVE i + 1 \in T
  <2>1. i + 1 \in 0..n /\ i \in 0..n /\ i + 1 \in 1..n
    BY SMT
  <2>2. IsValue(row[i + 1])
    BY <2>1 DEF RowOf
  <2> DEFINE w == ValueBytes(row[i + 1])
  <2>3. w \in Seq(Byte) /\ Len(w) >= 1
    BY <2>2, ValueLong
  <2>4. part[i + 1] = part[i] \o w /\ part[i] \in Seq(Byte)
    BY <1>1, <2>1
  <2> HIDE DEF w
  <2>5. Len(part[i + 1]) = Len(part[i]) + Len(w) /\ Len(part[i]) \in Nat /\ Len(w) \in Nat
    BY <2>3, <2>4, JoinedBytes
  <2>6. Len(part[i]) >= i
    BY <1>3
  <2>7. Len(part[i + 1]) >= i + 1
    BY <2>3, <2>5, <2>6, SMT
  <2> QED
    BY <2>1, <2>7
<1> HIDE DEF T
<1>4. 0..n \subseteq T
  BY <1>2, <1>3, UpTo
<1>5. n \in 0..n
  BY SMT
<1> QED
  BY <1>1, <1>4, <1>5 DEF T

\* No entry is written in its first two bytes alone.
LEMMA BlankEntry ==
  ASSUME NEW op \in {Insert, Update, Delete}, NEW t, IsTable(t)
  PROVE  /\ IsEntry(Blank(op, t)) /\ Blank(op, t).table = t
         /\ Begins(<<op, 0>>, EntryBytes(Blank(op, t)))
         /\ Len(<<op, 0>>) = 2 /\ Len(EntryBytes(Blank(op, t))) > 2
<1> DEFINE e == Blank(op, t)
           n == Columns(t)
           row == Nulls(t)
           M == <<op, 0>>
           O == RowBytes(e.old)
           N == RowBytes(e.new)
<1>1. n \in Nat /\ n >= 1
  BY SMT DEF IsTable
<1>2. RowOf(row, n) /\ KeyGiven(t, row)
  <2>1. IsValue(Null) /\ Null # Undefined
    BY SMT DEF IsValue, Null, Undefined
  <2>2. \A i \in 1..n : row[i] = Null
    BY DEF Nulls
  <2>3. row = [i \in 1..n |-> row[i]]
    BY DEF Nulls
  <2> HIDE DEF row, n
  <2> QED
    BY <2>1, <2>2, <2>3 DEF RowOf, KeyGiven, n
<1>3. e.op = op /\ e.table = t /\ e.old = (IF op = Insert THEN <<>> ELSE row)
      /\ e.new = (IF op = Delete THEN <<>> ELSE row)
  BY DEF Blank
<1>4. IsEntry(e)
  BY <1>2, Operations, EntryIff DEF Blank
<1>5. M \in Seq(Byte) /\ O \in Seq(Byte) /\ N \in Seq(Byte) /\ EntryBytes(e) = (M \o O) \o N
      /\ Len(M) = 2
  BY <1>3, <1>4, EntryParts
<1>6. RowBytes(row) \in Seq(Byte) /\ Len(RowBytes(row)) >= n
  BY <1>1, <1>2, RowBytesLong
<1>7. Len(O) >= n \/ Len(N) >= n
  BY <1>3, <1>6, Operations
<1> HIDE DEF e, n, row, M, O, N
<1> DEFINE MO == M \o O
<1>8. MO \in Seq(Byte) /\ Len(MO) = Len(M) + Len(O) /\ Begins(M, MO) /\ Len(O) \in Nat
  BY <1>5, JoinedBytes, JoinedBegins
<1> HIDE DEF MO
<1>9. MO \o N \in Seq(Byte) /\ Len(MO \o N) = Len(MO) + Len(N) /\ Begins(MO, MO \o N)
      /\ Len(N) \in Nat
  BY <1>5, <1>8, JoinedBytes, JoinedBegins
<1>10. EntryBytes(e) = MO \o N
  BY <1>5 DEF MO
<1> DEFINE all == MO \o N
<1> HIDE DEF all
<1>11. Len(all) > 2
  <2>1. Len(all) = Len(MO) + Len(N)
    BY <1>9 DEF all
  <2> QED
    BY <1>1, <1>5, <1>7, <1>8, <1>9, <2>1, SMT
<1>12. Begins(M, all)
  <2>1. Begins(MO, all)
    BY <1>9 DEF all
  <2>2. \A i \in 1..Len(M) : i \in 1..Len(MO)
    BY <1>5, <1>8, SMT
  <2>3. \A i \in 1..Len(M) : M[i] = all[i]
    BY <1>8, <2>1, <2>2 DEF Begins
  <2>4. Len(M) <= Len(all)
    BY <1>5, <1>11, SMT DEF all, MO
  <2> QED
    BY <2>1, <2>3, <2>4, <1>5 DEF Begins
<1> QED
  BY <1>3, <1>4, <1>5, <1>10, <1>11, <1>12 DEF all, e, M

-----------------------------------------------------------------------------
(* The writer *)

\* The table at a place is one a header gave.
LEMMA TableOfPlace ==
  ASSUME NEW buf, NEW E, NEW N, NEW trail, Layout(buf, E, N, trail), NEW n \in 0..N
  PROVE  trail[n].reader.table = NoTable \/ IsTable(trail[n].reader.table)
<1>1. CASE n = 0
  BY <1>1, PlaceFields DEF Layout
<1>2. CASE n # 0
  <2>1. n - 1 \in 0..(N - 1) /\ (n - 1) + 1 = n
    BY <1>2 DEF Layout
  <2>2. RecordBetween(buf, E, trail[n - 1], trail[n])
    BY <2>1 DEF Layout
  <2>3. CASE \E t : HeaderBetween(buf, t, trail[n - 1], trail[n])
    BY <2>3, PlaceFields DEF HeaderBetween
  <2>4. CASE EntryBetween(buf, E[trail[n - 1].count + 1], trail[n - 1], trail[n])
    BY <2>4, PlaceFields, EntryRows DEF EntryBetween
  <2> QED
    BY <2>2, <2>3, <2>4 DEF RecordBetween
<1> QED
  BY <1>1, <1>2

\* An entry is written if its table has as many columns as the current one.
LEMMA WriteCases ==
  ASSUME NEW columns, NEW e, IsEntry(e)
  PROVE  /\ WriteEntry(columns, e).ok <=> columns = Columns(e.table)
         /\ columns = Columns(e.table) => WriteEntry(columns, e).bytes = EntryBytes(e)
         /\ columns # Columns(e.table) => WriteEntry(columns, e).bytes = <<e.op, 0>>
<1> DEFINE fits == /\ e.op # Insert => Len(e.old) = columns
                   /\ e.op # Delete => Len(e.new) = columns
<1>1. /\ e.op # Insert => Len(e.old) = Columns(e.table)
      /\ e.op # Delete => Len(e.new) = Columns(e.table)
  <2>1. \A row : \A n \in Nat : RowOf(row, n) => Len(row) = n
    BY DEF RowOf
  <2>2. Columns(e.table) \in Nat
    BY EntryRows
  <2>3. \A row : RowOf(row, Columns(e.table)) => Len(row) = Columns(e.table)
    BY <2>1, <2>2
  <2> QED
    BY <2>3, EntryRows
<1>2. fits <=> columns = Columns(e.table)
  BY <1>1, Operations
<1>3. WriteEntry(columns, e) = [ok |-> fits, bytes |-> IF fits THEN EntryBytes(e) ELSE <<e.op, 0>>]
  BY DEF WriteEntry
<1> HIDE DEF fits
<1>4. WriteEntry(columns, e).ok = fits
      /\ WriteEntry(columns, e).bytes = IF fits THEN EntryBytes(e) ELSE <<e.op, 0>>
  BY <1>3
<1> QED
  BY <1>2, <1>4

\* A header is written before an entry of a table of another name only.
LEMMA HeaderCases ==
  ASSUME NEW e, IsEntry(e)
  PROVE  /\ Header(e.table) # <<>>
         /\ e.table.name # last => HeaderFor(e) = Header(e.table) /\ WidthFor(e) = Columns(e.table)
         /\ e.table.name = last => HeaderFor(e) = <<>> /\ WidthFor(e) = width
         /\ HeaderFor(e) \in Seq(Byte)
<1>1. Header(e.table) \in Seq(Byte) /\ Len(Header(e.table)) \in Nat \ {0}
  BY EntryRows, HeaderBytes
<1>2. Header(e.table) # <<>> /\ <<>> \in Seq(Byte)
  BY <1>1
<1> QED
  BY <1>1, <1>2 DEF HeaderFor, WidthFor

\* What is written for an entry is written behind what there is.
LEMMA WrittenBytes ==
  ASSUME out \in Seq(Byte), NEW e, IsEntry(e), NEW x, IsEntry(x)
  PROVE  LET write == WriteEntry(WidthFor(e), x)
             bytes == HeaderFor(e) \o write.bytes
         IN  /\ write.bytes \in Seq(Byte) /\ bytes \in Seq(Byte)
             /\ out \o HeaderFor(e) \o write.bytes = out \o bytes
             /\ out \o bytes \in Seq(Byte)
<1> DEFINE write == WriteEntry(WidthFor(e), x)
           H == HeaderFor(e)
           B == write.bytes
<1>1. B \in Seq(Byte)
  BY WriteCases, EntryBytesTyped, EntryParts
<1>2. H \in Seq(Byte)
  BY HeaderCases
<1> HIDE DEF H, B
<1>3. H \o B \in Seq(Byte) /\ (out \o H) \o B = out \o (H \o B)
  BY <1>1, <1>2, ConcatProperties, ConcatAssociative
<1>4. out \o (H \o B) \in Seq(Byte)
  BY <1>3, ConcatProperties
<1> QED
  BY <1>1, <1>3, <1>4 DEF H, B

\* An entry that is written leaves a file of one entry more.
LEMMA WritesEntry ==
  ASSUME NEW S, NEW D \in Seq(S), NEW M, NEW places, Layout(out, D, M, places),
         last = places[M].reader.table.name, width = Columns(places[M].reader.table),
         NEW e, IsEntry(e), NEW x \in S, IsEntry(x), x.table = e.table,
         last = e.table.name /\ width = Columns(e.table) => places[M].reader.table = e.table,
         WriteEntry(WidthFor(e), x).ok
  PROVE  LET bytes == HeaderFor(e) \o WriteEntry(WidthFor(e), x).bytes
         IN  /\ WidthFor(e) = Columns(e.table)
             /\ \E N, trail : /\ Layout(out \o bytes, D \o <<x>>, N, trail)
                              /\ trail[N].reader.table = e.table
<1> DEFINE H == HeaderFor(e)
           B == EntryBytes(x)
<1>1. WidthFor(e) = Columns(e.table) /\ WriteEntry(WidthFor(e), x).bytes = B
  BY WriteCases
<1>2. out \in Seq(Byte) /\ M \in Nat
  BY DEF Layout
<1>3. B \in Seq(Byte) /\ H \in Seq(Byte)
  BY EntryBytesTyped, HeaderCases
<1>4. \A N, trail, b : N \in Nat => Longer(N, trail, b)[N + 1] = b
  BY DEF Longer
<1>5. CASE e.table.name = last
  <2>1. H = <<>> /\ x.table = places[M].reader.table
    BY <1>1, <1>5, HeaderCases
  <2> DEFINE b == PlaceAt(Len(out) + Len(B), x.table, Len(D) + 1)
  <2>2. Layout(out \o B, D \o <<x>>, M + 1, Longer(M, places, b))
    BY <2>1, EntryAppended
  <2>3. Longer(M, places, b)[M + 1].reader.table = x.table
    BY <1>2, <1>4, PlaceFields
  <2>4. H \o B = B
    BY <1>3, <2>1, ConcatEmptySeq
  <2> HIDE DEF B, H, b
  <2> QED
    BY <1>1, <2>2, <2>3, <2>4 DEF H
<1>6. CASE e.table.name # last
  <2>1. H = Header(e.table) /\ IsTable(e.table)
    BY <1>6, HeaderCases, EntryRows
  <2> DEFINE b == PlaceAt(Len(out) + Len(Header(e.table)), e.table, Len(D))
             t == Longer(M, places, b)
  <2>2. Layout(out \o H, D, M + 1, t)
    BY <2>1, HeaderAppended
  <2>3. t[M + 1].reader.table = e.table
    BY <1>2, <1>4, PlaceFields
  <2> HIDE DEF b, t
  <2> DEFINE outH == out \o H
             c == PlaceAt(Len(outH) + Len(B), x.table, Len(D) + 1)
  <2>4. Layout(outH, D, M + 1, t) /\ x.table = t[M + 1].reader.table
    BY <2>2, <2>3
  <2> HIDE DEF outH
  <2>5. Layout(outH \o B, D \o <<x>>, (M + 1) + 1, Longer(M + 1, t, c))
    BY <2>4, EntryAppended
  <2>6. Longer(M + 1, t, c)[(M + 1) + 1].reader.table = x.table
    <3>1. M + 1 \in Nat
      BY <1>2
    <3> QED
      BY <3>1, <1>4, PlaceFields
  <2> HIDE DEF B, H, c
  <2>7. outH \o B = out \o (H \o B)
    <3>1. (out \o H) \o B = out \o (H \o B)
      BY <1>2, <1>3, AssociativeBytes, Zenon
    <3> QED
      BY <3>1 DEF outH
  <2> QED
    BY <1>1, <2>5, <2>6, <2>7 DEF H
<1> QED
  BY <1>5, <1>6

\* One that is refused leaves nothing that could be read.
LEMMA RefusesEntry ==
  ASSUME NEW S, NEW D \in Seq(S), NEW M, NEW places, Layout(out, D, M, places),
         last = places[M].reader.table.name, width = Columns(places[M].reader.table),
         NEW e, IsEntry(e), NEW x, IsEntry(x), x.table = e.table,
         ~WriteEntry(WidthFor(e), x).ok,
         NEW p, Begins(p, out \o (HeaderFor(e) \o WriteEntry(WidthFor(e), x).bytes))
  PROVE  \E c \in 0..Len(D) : Read(p).entries = SubSeq(D, 1, c)
<1> DEFINE t == places[M].reader.table
           y == Blank(x.op, t)
           B == EntryBytes(y)
           two == <<x.op, 0>>
<1>1. WriteEntry(WidthFor(e), x).bytes = two /\ WidthFor(e) # Columns(e.table)
  BY WriteCases
<1>2. e.table.name = last /\ HeaderFor(e) = <<>>
  BY <1>1, HeaderCases
<1>3. IsTable(t)
  <2>1. e.table.name # <<>>
    BY EntryRows DEF IsTable
  <2>2. M \in 0..M
    BY DEF Layout
  <2>3. t = NoTable \/ IsTable(t)
    BY <2>2, TableOfPlace
  <2> QED
    BY <1>2, <2>1, <2>3 DEF NoTable
<1>4. x.op \in {Insert, Update, Delete}
  BY EntryRows
<1>5. IsEntry(y) /\ y.table = t /\ Begins(two, B) /\ Len(two) = 2 /\ Len(B) > 2
  BY <1>3, <1>4, BlankEntry
<1>6. two \in Seq(Byte) /\ B \in Seq(Byte) /\ out \in Seq(Byte)
  BY <1>5 DEF Begins, Layout
<1>7. Begins(p, out \o two)
  <2> HIDE DEF two
  <2>1. <<>> \o two = two
    BY <1>6, ConcatEmptySeq
  <2> QED
    BY <1>1, <1>2, <2>1
<1> DEFINE U == S \cup {y}
           longer == D \o <<y>>
           b == PlaceAt(Len(out) + Len(B), y.table, Len(D) + 1)
<1>8. D \in Seq(U) /\ y \in U
  <2>1. S \subseteq U
    OBVIOUS
  <2> HIDE DEF U
  <2>2. D \in Seq(U)
    BY <2>1, SeqMonotonic
  <2> QED
    BY <2>2 DEF U
<1> HIDE DEF U, y, B, two
<1>9. Layout(out \o B, longer, M + 1, Longer(M, places, b))
  BY <1>5, <1>8, EntryAppended DEF B
<1>10. longer \in Seq(U) /\ Extends(D, longer)
  BY <1>8, AppendedEntry
<1> HIDE DEF longer, b
<1>11. Begins(p, out \o B) /\ Len(p) < Len(out \o B)
  <2>1. /\ out \o two \in Seq(Byte) /\ Len(out \o two) = Len(out) + Len(two)
        /\ \A i \in 1..(Len(out) + Len(two)) : (out \o two)[i] = IF i <= Len(out) THEN out[i] ELSE two[i - Len(out)]
    BY <1>6, ConcatProperties
  <2>2. /\ out \o B \in Seq(Byte) /\ Len(out \o B) = Len(out) + Len(B)
        /\ \A i \in 1..(Len(out) + Len(B)) : (out \o B)[i] = IF i <= Len(out) THEN out[i] ELSE B[i - Len(out)]
    BY <1>6, ConcatProperties
  <2>3. Len(out) \in Nat /\ Len(B) \in Nat /\ Len(p) \in Nat /\ p \in Seq(Byte)
    BY <1>6, <1>7, LenProperties DEF Begins
  <2>4. Len(p) <= Len(out) + 2
    BY <1>5, <1>7, <2>1 DEF Begins
  <2>5. ASSUME NEW i \in 1..Len(p) PROVE p[i] = (out \o B)[i]
    <3>1. i \in 1..(Len(out) + Len(two)) /\ i \in 1..(Len(out) + Len(B))
          /\ (i <= Len(out) \/ i - Len(out) \in 1..Len(two))
      BY <1>5, <2>3, <2>4, SMT
    <3>2. p[i] = (out \o two)[i]
      BY <1>7 DEF Begins
    <3>3. (out \o two)[i] = (out \o B)[i]
      <4>1. i - Len(out) \in 1..Len(two) => two[i - Len(out)] = B[i - Len(out)]
        BY <1>5 DEF Begins
      <4> QED
        BY <2>1, <2>2, <3>1, <4>1
    <3> QED
      BY <3>2, <3>3
  <2>6. Len(p) < Len(out) + Len(B) /\ Len(p) <= Len(out) + Len(B)
    BY <1>5, <2>3, <2>4, SMT
  <2> QED
    BY <2>2, <2>3, <2>5, <2>6 DEF Begins
<1> DEFINE all == out \o B
<1> HIDE DEF all
<1>12. \E c \in 0..Len(D) : Read(p).entries = SubSeq(longer, 1, c)
  <2>1. Layout(all, longer, M + 1, Longer(M, places, b)) /\ Begins(p, all) /\ Len(p) < Len(all)
    BY <1>9, <1>11 DEF all
  <2> QED
    BY <1>10, <2>1, EntriesBeforeTorn
<1>13. PICK c \in 0..Len(D) : Read(p).entries = SubSeq(longer, 1, c)
  BY <1>12
<1>14. SubSeq(D, 1, c) = SubSeq(longer, 1, c)
  BY <1>8, <1>10, PrefixOfPart
<1> QED
  BY <1>13, <1>14

-----------------------------------------------------------------------------
(* The inductive invariant *)

\* The tables of the entries, those of the input files, and what a job may write.
Tables == {e.table : e \in Entries}
TablesWritten == {e.table : e \in Range(written[1]) \cup Range(written[2])}
Writable == Entries \cup {Inverted(e) : e \in Entries}

\* The types, and what the variables of the copying are before it begins.
Types ==
    /\ files \in [1..2 -> Seq(Byte)] /\ out \in Seq(Byte)
    /\ written \in [1..2 -> Seq(Entries)]
    /\ header \in [1..2 -> Tables \cup {NoTable}]
    /\ job \in {"writing", "concat", "invert"} /\ job \in Jobs \cup {"writing"}
    /\ result \in {"running", "ok", "error"}
    /\ \/ width = 0 /\ last = <<>>
       \/ \E e \in Entries : width = Columns(e.table) /\ last = e.table.name
    /\ job = "writing" => /\ input = 0 /\ reader = NewReader /\ out = <<>>
                          /\ last = <<>> /\ width = 0 /\ result = "running"
    /\ job = "concat" => input \in 1..2
    /\ job = "invert" => input = 2

\* The records of input file i: it was written as lay.full, and of that a first part is there.
FileLaid(i, lay) ==
    /\ Layout(lay.full, written[i], lay.N, lay.trail)
    /\ Begins(files[i], lay.full)
    /\ i = 1 \/ job = "writing" => files[i] = lay.full
    /\ job = "writing" => lay.trail[lay.N].reader.table = header[i]

\* Where the records of a file end, and how many entries are before.
PlacesOf(lay) == {<<lay.trail[n].reader.at, lay.trail[n].count>> : n \in 0..lay.N}

\* Both files, and the ends the model notes for the second.
InputsLaid(one, two) == FileLaid(1, one) /\ FileLaid(2, two) /\ ends = PlacesOf(two)

\* The reader is at the n-th place of the file it reads.
ReaderAt(lay, n) ==
    /\ n \in 0..lay.N
    /\ reader = lay.trail[n].reader
    /\ reader.at <= Len(files[input])

\* How many entries have been read.
Done(lay, n) ==
    IF input = 1 \/ job = "invert" THEN lay.trail[n].count
    ELSE Len(written[1]) + lay.trail[n].count

\* The output holds the first d entries that are wanted, and its writer is where they end.
OutputHolds(d, M, places) ==
    /\ d \in 0..Len(Wanted)
    /\ Layout(out, SubSeq(Wanted, 1, d), M, places)
    /\ last = places[M].reader.table.name
    /\ width = Columns(places[M].reader.table)
    /\ places[M].reader.table \in TablesWritten \cup {NoTable}

\* The output is laid out, in some way, as the first d entries that are wanted.
OutputLaid(d) == \E M, places : OutputHolds(d, M, places)

\* How far the job has come: what has been read is what has been written.
Copied(lay, n) ==
    /\ ReaderAt(lay, n)
    /\ FlagsAgree /\ result = "running" => OutputLaid(Done(lay, n))
    /\ FlagsAgree /\ result = "ok" => OutputLaid(Len(Wanted))
    /\ FlagsAgree /\ result = "error" => IsPrefix(Read(out).entries, Wanted)

\* The file that is read.
Reads(one, two) == IF input = 1 THEN one ELSE two

\* All of it, for some layouts and some place.
Laid(one, two, lay, n) ==
    /\ InputsLaid(one, two)
    /\ job # "writing" => lay = Reads(one, two) /\ Copied(lay, n)

\* The inductive invariant.
Inv == Types /\ \E one, two, lay, n : Laid(one, two, lay, n)

\* What a program writes, and what a job makes of it, are entries.
LEMMA EntriesTyped ==
  /\ \A e \in Entries : /\ IsEntry(e) /\ IsEntry(Inverted(e)) /\ IsEntry(Output(e))
                        /\ Output(e).table = e.table /\ Output(e) \in Writable
                        /\ IsTable(e.table) /\ e.table \in Tables
  /\ \A e \in Writable : IsEntry(e)
<1>1. \A e \in Entries : IsEntry(e)
  BY EntriesAssumption
<1>2. \A e \in Entries : IsEntry(Inverted(e)) /\ Inverted(e).table = e.table /\ IsTable(e.table)
  BY <1>1, InvertedIsEntry, EntryRows
<1> QED
  BY <1>1, <1>2 DEF Output, Writable, Tables

\* The entries of the second file that are there in full.
LEMMA KeptIs ==
  ASSUME NEW two, FileLaid(2, two), ends = PlacesOf(two),
         NEW K, LastPlace(Len(files[2]), two.N, two.trail, K)
  PROVE  Kept = SubSeq(written[2], 1, two.trail[K].count)
<1> DEFINE limit == Len(files[2])
           m == two.trail[K].count
           S == {c[2] : c \in {d \in ends : d[1] <= limit}}
<1>1. Layout(two.full, written[2], two.N, two.trail) /\ limit \in Nat
      /\ K \in 0..two.N /\ two.trail[K].reader.at <= limit
  <2>1. files[2] \in Seq(Byte) /\ K \in 0..two.N /\ K \in 0..K
        /\ \A n \in 0..K : two.trail[n].reader.at <= limit
    BY SMT DEF FileLaid, Begins, LastPlace
  <2> QED
    BY <2>1, LenProperties DEF FileLaid
<1> HIDE DEF limit
<1>2. LastPlace(limit, two.N, two.trail, K)
  BY DEF limit
<1>3. /\ \A n \in 0..two.N : two.trail[n].reader.at <= limit =>
                two.trail[n].count <= two.trail[K].count
      /\ \A n \in 0..two.N : two.trail[n].count \in Nat
  <2> DEFINE N == two.N
             trail == two.trail
  <2>1. Layout(two.full, written[2], N, trail) /\ LastPlace(limit, N, trail, K)
    BY <1>1, <1>2
  <2> HIDE DEF N, trail
  <2>2. \A n \in 0..N : trail[n].reader.at <= limit => n <= K /\ trail[n].count <= trail[K].count
    BY <1>1, <2>1, PlacesUpToLast
  <2>3. \A n \in 0..N : trail[n].reader.at \in Nat /\ trail[n].count \in Nat
    BY <1>1, <2>1, PlacesUpToLast
  <2> QED
    BY <2>2, <2>3, Zenon DEF N, trail
<1>4. m \in S
  <2>1. <<two.trail[K].reader.at, m>> \in ends
    BY <1>1 DEF PlacesOf
  <2> DEFINE c == <<two.trail[K].reader.at, m>>
  <2>2. c \in {d \in ends : d[1] <= limit} /\ c[2] = m
    BY <1>1, <2>1
  <2> HIDE DEF c
  <2> QED
    BY <2>2
<1>5. ASSUME NEW y \in S PROVE m >= y /\ y \in Nat
  <2>1. PICK n \in 0..two.N : two.trail[n].reader.at <= limit /\ y = two.trail[n].count
    BY <1>5 DEF PlacesOf
  <2> QED
    BY <1>1, <1>3, <2>1
<1>6. m \in Nat
  BY <1>1, <1>3
<1> HIDE DEF S, m
<1>7. \E x \in S : \A y \in S : x >= y
  BY <1>4, <1>5
<1> DEFINE top == CHOOSE x \in S : \A y \in S : x >= y
<1>8. top \in S /\ \A y \in S : top >= y
  BY <1>7
<1> HIDE DEF top
<1>9. top = m
  BY <1>4, <1>5, <1>6, <1>8
<1>10. Max(S) = m
  BY <1>9 DEF Max, top
<1> QED
  BY <1>10 DEF Kept, S, m, limit

\* Entries behind entries.
LEMMA JoinedEntries ==
  ASSUME NEW S, NEW s \in Seq(S), NEW t \in Seq(S)
  PROVE  /\ s \o t \in Seq(S) /\ Len(s \o t) = Len(s) + Len(t)
         /\ Len(s) \in Nat /\ Len(t) \in Nat
         /\ \A i \in 1..Len(s) : (s \o t)[i] = s[i]
         /\ \A i \in 1..Len(t) : (s \o t)[Len(s) + i] = t[i]
<1>1. /\ s \o t \in Seq(S) /\ Len(s \o t) = Len(s) + Len(t)
      /\ Len(s) \in Nat /\ Len(t) \in Nat
      /\ \A i \in 1..(Len(s) + Len(t)) : (s \o t)[i] = IF i <= Len(s) THEN s[i] ELSE t[i - Len(s)]
  BY ConcatProperties, LenProperties
<1>2. \A i \in 1..Len(s) : i \in 1..(Len(s) + Len(t)) /\ i <= Len(s)
  BY <1>1, SMT
<1>3. \A i \in 1..Len(t) : /\ Len(s) + i \in 1..(Len(s) + Len(t)) /\ ~(Len(s) + i <= Len(s))
                           /\ (Len(s) + i) - Len(s) = i
  BY <1>1, SMT
<1>4. \A i \in 1..Len(t) : (s \o t)[Len(s) + i] = t[i]
  <2> TAKE i \in 1..Len(t)
  <2>1. (s \o t)[Len(s) + i] = IF Len(s) + i <= Len(s) THEN s[Len(s) + i] ELSE t[(Len(s) + i) - Len(s)]
    BY <1>1, <1>3
  <2> QED
    BY <2>1, <1>3
<1> QED
  BY <1>1, <1>2, <1>4

\* What is wanted, entry by entry.
LEMMA WantedParts ==
  ASSUME Types, NEW one, NEW two, InputsLaid(one, two),
         NEW K, LastPlace(Len(files[2]), two.N, two.trail, K)
  PROVE  /\ Wanted \in Seq(Writable) /\ Len(Wanted) \in Nat
         /\ Kept \in Seq(Entries) /\ Len(Kept) = two.trail[K].count
         /\ \A i \in 1..Len(Kept) : Kept[i] = written[2][i]
         /\ job = "invert" => /\ Len(Wanted) = Len(Kept)
                              /\ \A i \in 1..Len(Kept) : Wanted[i] = Inverted(Kept[i])
         /\ job # "invert" => /\ Len(Wanted) = Len(written[1]) + Len(Kept)
                              /\ \A i \in 1..Len(written[1]) : Wanted[i] = written[1][i]
                              /\ \A i \in 1..Len(Kept) : Wanted[Len(written[1]) + i] = Kept[i]
<1> DEFINE c == two.trail[K].count
<1>1. Kept = SubSeq(written[2], 1, c)
  BY KeptIs DEF InputsLaid
<1>2. written[1] \in Seq(Entries) /\ written[2] \in Seq(Entries) /\ Len(files[2]) \in Nat
  BY LenProperties DEF Types
<1>3. c \in 0..Len(written[2])
  BY <1>2, PlacesUpToLast DEF InputsLaid, FileLaid
<1> HIDE DEF c
<1>4. Kept \in Seq(Entries) /\ Len(Kept) = c /\ \A i \in 1..c : Kept[i] = written[2][i]
  BY <1>1, <1>2, <1>3, FirstPart
<1>5. Len(Kept) \in Nat /\ DOMAIN Kept = 1..Len(Kept) /\ \A i \in 1..Len(Kept) : Kept[i] \in Entries
  BY <1>4, LenProperties, ElementOfSeq
<1>6. CASE job = "invert"
  <2>1. Wanted = [i \in 1..Len(Kept) |-> Inverted(Kept[i])]
    BY <1>5, <1>6 DEF Wanted
  <2>2. \A i \in 1..Len(Kept) : Inverted(Kept[i]) \in Writable
    BY <1>5 DEF Writable
  <2> DEFINE n == Len(Kept)
             w == Wanted
  <2> HIDE DEF n, w
  <2>3. w \in [1..n -> Writable] /\ n \in Nat
    BY <1>5, <2>1, <2>2 DEF n, w
  <2>4. w \in Seq(Writable) /\ Len(w) = n
    BY <2>3
  <2>5. \A i \in 1..n : w[i] = Inverted(Kept[i])
    BY <2>1 DEF n, w
  <2> QED
    BY <1>4, <1>5, <1>6, <2>4, <2>5 DEF n, w, c
<1>7. CASE job # "invert"
  <2>1. Wanted = written[1] \o Kept
    BY <1>7 DEF Wanted
  <2> DEFINE w == written[1]
             k == Kept
             joined == w \o k
  <2> HIDE DEF w, k
  <2>2. w \in Seq(Entries) /\ k \in Seq(Entries)
    BY <1>2, <1>4 DEF w, k
  <2>3. /\ joined \in Seq(Entries) /\ Len(joined) = Len(w) + Len(k) /\ Len(w) \in Nat /\ Len(k) \in Nat
        /\ \A i \in 1..Len(w) : joined[i] = w[i]
        /\ \A i \in 1..Len(k) : joined[Len(w) + i] = k[i]
    BY <2>2, JoinedEntries
  <2>4. joined \in Seq(Writable) /\ Len(joined) \in Nat
    <3>1. Entries \subseteq Writable
      BY DEF Writable
    <3> QED
      BY <2>3, <3>1, SeqMonotonic, LenProperties
  <2>5. Wanted = joined
    BY <2>1 DEF w, k
  <2> HIDE DEF joined
  <2> QED
    BY <1>4, <1>7, <2>3, <2>4, <2>5 DEF w, k, c
<1> QED
  BY <1>6, <1>7

-----------------------------------------------------------------------------
(* What a turn of the reader is in a state of the invariant *)

\* The file that is read is laid out.
LEMMA LaidInput ==
  ASSUME Types, NEW one, NEW two, InputsLaid(one, two), job # "writing"
  PROVE  LET lay == Reads(one, two)
         IN  /\ input \in 1..2 /\ Len(files[input]) \in Nat
             /\ lay.N \in Nat /\ (\A n \in 0..lay.N : lay.trail[n] \in Place)
             /\ Layout(lay.full, written[input], lay.N, lay.trail)
             /\ Begins(files[input], lay.full)
             /\ input = 1 => files[1] = one.full /\ lay = one
             /\ input # 1 => input = 2 /\ lay = two
             /\ written[input] \in Seq(Entries)
<1> DEFINE lay == Reads(one, two)
<1>1. input \in 1..2
  BY DEF Types
<1>2. files[input] \in Seq(Byte) /\ written[input] \in Seq(Entries)
  BY <1>1 DEF Types
<1>3. CASE input = 1
  <2>1. lay = one
    BY <1>3 DEF Reads
  <2>2. /\ Layout(one.full, written[1], one.N, one.trail) /\ Begins(files[1], one.full)
        /\ files[1] = one.full
    BY DEF InputsLaid, FileLaid
  <2>3. one.N \in Nat /\ \A n \in 0..one.N : one.trail[n] \in Place
    BY <2>2 DEF Layout
  <2> QED
    BY <1>1, <1>2, <1>3, <2>1, <2>2, <2>3, LenProperties
<1>4. CASE input # 1
  <2>1. lay = two /\ input = 2
    BY <1>1, <1>4 DEF Reads
  <2>2. Layout(two.full, written[2], two.N, two.trail) /\ Begins(files[2], two.full)
    BY DEF InputsLaid, FileLaid
  <2>3. two.N \in Nat /\ \A n \in 0..two.N : two.trail[n] \in Place
    BY <2>2 DEF Layout
  <2> QED
    BY <1>1, <1>2, <1>4, <2>1, <2>2, <2>3, LenProperties
<1> QED
  BY <1>3, <1>4

\* The next turn goes over the next record, or is the last.
LEMMA ReaderTurn ==
  ASSUME Types, NEW one, NEW two, InputsLaid(one, two), job # "writing",
         NEW n, ReaderAt(Reads(one, two), n)
  PROVE  LET lay == Reads(one, two)
             turn == Turn(files[input], reader)
         IN  \E K : /\ LastPlace(Len(files[input]), lay.N, lay.trail, K)
                    /\ n \in 0..K
                    /\ n < K => GoesTo(turn, written[input], lay.trail[n], lay.trail[n + 1])
                    /\ n = K => turn.kind = IF reader.at = Len(files[input]) THEN "eof" ELSE "error"
<1> DEFINE lay == Reads(one, two)
           p == files[input]
           turn == Turn(p, reader)
<1>1. /\ Layout(lay.full, written[input], lay.N, lay.trail)
      /\ Begins(p, lay.full) /\ Len(p) \in Nat
  BY LaidInput
<1>2. PICK K : LastPlace(Len(p), lay.N, lay.trail, K)
  BY <1>1, LastPlaceExists
<1>3. n \in 0..lay.N /\ lay.trail[n].reader.at <= Len(p) /\ reader = lay.trail[n].reader
  BY DEF ReaderAt
<1> HIDE DEF lay, p, turn
<1>4. n <= K
  BY <1>1, <1>2, <1>3, PlacesUpToLast
<1>5. n \in 0..K
  <2>1. K \in 0..lay.N
    BY <1>2 DEF LastPlace
  <2> QED
    BY <1>3, <1>4, <2>1, SMT
<1>6. /\ n < K => GoesTo(Turn(p, lay.trail[n].reader), written[input], lay.trail[n], lay.trail[n + 1])
      /\ n = K => Turn(p, lay.trail[K].reader).kind = IF lay.trail[K].reader.at = Len(p) THEN "eof" ELSE "error"
  BY <1>1, <1>2, <1>5, TurnAtPlace
<1>7. /\ n < K => GoesTo(turn, written[input], lay.trail[n], lay.trail[n + 1])
      /\ n = K => turn.kind = IF reader.at = Len(p) THEN "eof" ELSE "error"
  BY <1>3, <1>6 DEF turn
<1> QED
  BY <1>2, <1>5, <1>7 DEF lay, p, turn

\* What the kind of a turn says of it.
LEMMA GoesToKind ==
  ASSUME NEW turn, NEW E, NEW a, NEW b, GoesTo(turn, E, a, b)
  PROVE  /\ turn.kind \in {"table", "entry"} /\ turn.reader = b.reader
         /\ turn.kind = "table" => b.count = a.count
         /\ turn.kind = "entry" => /\ turn.entry = E[a.count + 1] /\ b.count = a.count + 1
                                   /\ a.count < Len(E)
<1>1. CASE turn = TableTurn(b.reader) /\ b.count = a.count
  BY <1>1, TurnFields
<1>2. CASE turn = EntryTurn(E[a.count + 1], b.reader) /\ b.count = a.count + 1 /\ a.count < Len(E)
  BY <1>2, TurnFields
<1> QED
  BY <1>1, <1>2 DEF GoesTo

\* The turns over a record ...
LEMMA RecordRead ==
  ASSUME Types, NEW one, NEW two, InputsLaid(one, two), NEW n, ReaderAt(Reads(one, two), n),
         Reading("table") \/ Reading("entry")
  PROVE  LET lay == Reads(one, two)
             turn == Turn(files[input], reader)
         IN  /\ n + 1 \in 0..lay.N /\ turn.reader = lay.trail[n + 1].reader
             /\ turn.reader.at <= Len(files[input])
             /\ turn.kind = "table" => lay.trail[n + 1].count = lay.trail[n].count
             /\ turn.kind = "entry" => /\ turn.entry = written[input][lay.trail[n].count + 1]
                                       /\ lay.trail[n + 1].count = lay.trail[n].count + 1
                                       /\ lay.trail[n].count < Len(written[input])
             /\ \E K : LastPlace(Len(files[input]), lay.N, lay.trail, K) /\ n + 1 \in 0..K
<1> DEFINE lay == Reads(one, two)
           p == files[input]
           turn == Turn(p, reader)
<1>1. job # "writing" /\ turn.kind \in {"table", "entry"}
  BY DEF Reading
<1>2. lay.N \in Nat
  BY <1>1, LaidInput
<1>3. PICK K : /\ LastPlace(Len(p), lay.N, lay.trail, K)
               /\ n \in 0..K
               /\ n < K => GoesTo(turn, written[input], lay.trail[n], lay.trail[n + 1])
               /\ n = K => turn.kind = IF reader.at = Len(p) THEN "eof" ELSE "error"
  BY <1>1, ReaderTurn
<1> HIDE DEF turn, lay, p
<1>4. K \in 0..lay.N /\ \A m \in 0..K : lay.trail[m].reader.at <= Len(p)
  BY <1>3 DEF LastPlace
<1>5. n # K
  BY <1>1, <1>3
<1>6. n < K /\ n + 1 \in 0..K /\ n + 1 \in 0..lay.N
  BY <1>2, <1>3, <1>4, <1>5, SMT
<1>7. GoesTo(turn, written[input], lay.trail[n], lay.trail[n + 1])
  BY <1>3, <1>6
<1>8. /\ turn.reader = lay.trail[n + 1].reader
      /\ turn.kind = "table" => lay.trail[n + 1].count = lay.trail[n].count
      /\ turn.kind = "entry" => /\ turn.entry = written[input][lay.trail[n].count + 1]
                                /\ lay.trail[n + 1].count = lay.trail[n].count + 1
                                /\ lay.trail[n].count < Len(written[input])
  BY <1>7, GoesToKind
<1> QED
  BY <1>3, <1>4, <1>6, <1>8 DEF turn, lay, p

\* ... and the last one.
LEMMA LastRead ==
  ASSUME Types, NEW one, NEW two, InputsLaid(one, two), NEW n, ReaderAt(Reads(one, two), n),
         Reading("eof")
  PROVE  LET lay == Reads(one, two)
         IN  LastPlace(Len(files[input]), lay.N, lay.trail, n) /\ reader.at = Len(files[input])
<1> DEFINE lay == Reads(one, two)
           p == files[input]
           turn == Turn(p, reader)
<1>1. job # "writing" /\ turn.kind = "eof"
  BY DEF Reading
<1>3. PICK K : /\ LastPlace(Len(p), lay.N, lay.trail, K)
               /\ n \in 0..K
               /\ n < K => GoesTo(turn, written[input], lay.trail[n], lay.trail[n + 1])
               /\ n = K => turn.kind = IF reader.at = Len(p) THEN "eof" ELSE "error"
  BY <1>1, ReaderTurn
<1>2. lay.N \in Nat
  BY <1>1, LaidInput
<1> HIDE DEF turn, lay, p
<1>4. ~(n < K)
  BY <1>1, <1>3, GoesToKind
<1>5. n = K
  <2>1. K \in 0..lay.N
    BY <1>3 DEF LastPlace
  <2> QED
    BY <1>2, <1>3, <1>4, <2>1, SMT
<1>6. reader.at = Len(p)
  BY <1>1, <1>3, <1>5
<1> QED
  BY <1>3, <1>5, <1>6 DEF lay, p

\* The entry read is the next that is wanted.
LEMMA EntryRead ==
  ASSUME Types, NEW one, NEW two, InputsLaid(one, two), NEW n, ReaderAt(Reads(one, two), n),
         Reading("entry")
  PROVE  LET lay == Reads(one, two)
             e == Turn(files[input], reader).entry
         IN  /\ e \in Entries /\ e.table \in TablesWritten
             /\ Done(lay, n) \in Nat /\ Done(lay, n) < Len(Wanted)
             /\ Done(lay, n + 1) = Done(lay, n) + 1
             /\ Wanted[Done(lay, n) + 1] = Output(e)
             /\ Wanted \in Seq(Writable) /\ Len(Wanted) \in Nat
<1> DEFINE lay == Reads(one, two)
           p == files[input]
           turn == Turn(p, reader)
           c == lay.trail[n].count
<1>1. job # "writing" /\ turn.kind = "entry" /\ job \in {"concat", "invert"}
  BY DEF Reading, Types
<1>2. /\ n + 1 \in 0..lay.N /\ n \in 0..lay.N
      /\ turn.entry = written[input][c + 1] /\ lay.trail[n + 1].count = c + 1
      /\ c < Len(written[input])
      /\ \E K : LastPlace(Len(p), lay.N, lay.trail, K) /\ n + 1 \in 0..K
  BY <1>1, RecordRead DEF ReaderAt
<1>3. /\ input \in 1..2 /\ Len(p) \in Nat /\ written[input] \in Seq(Entries) /\ lay.N \in Nat
      /\ Layout(lay.full, written[input], lay.N, lay.trail)
      /\ \A m \in 0..lay.N : lay.trail[m] \in Place
      /\ input = 1 => lay = one
      /\ input # 1 => input = 2 /\ lay = two
  BY <1>1, LaidInput
<1>4. PICK L : LastPlace(Len(p), lay.N, lay.trail, L) /\ n + 1 \in 0..L
  BY <1>2
<1> HIDE DEF turn, lay, p
<1>5. c \in Nat /\ Len(written[input]) \in Nat
  BY <1>2, <1>3, PlaceFields, LenProperties
<1>6. c + 1 <= lay.trail[L].count /\ lay.trail[L].count \in Nat
  <2>1. L \in 0..lay.N /\ L \in (n + 1)..lay.N
    <3>1. L \in 0..lay.N
      BY <1>4 DEF LastPlace
    <3> QED
      BY <1>2, <1>3, <1>4, <3>1, SMT
  <2>2. lay.trail[L].count >= lay.trail[n + 1].count
    BY <1>2, <1>3, <2>1, PlacesInOrder
  <2>3. lay.trail[L].count \in Nat
    BY <1>3, <2>1, PlaceFields
  <2> QED
    BY <1>2, <1>5, <2>2, <2>3, SMT
<1> DEFINE e == turn.entry
<1>7. e \in Entries /\ e.table \in TablesWritten
  <2>1. c + 1 \in 1..Len(written[input])
    BY <1>2, <1>5, SMT
  <2>2. e \in Entries
    BY <1>2, <1>3, <2>1, ElementOfSeq
  <2>3. DOMAIN written[input] = 1..Len(written[input])
    BY <1>3, LenProperties
  <2>4. e \in Range(written[input])
    BY <1>2, <2>1, <2>3 DEF Range
  <2>5. e \in Range(written[1]) \cup Range(written[2])
    BY <1>3, <2>4
  <2> HIDE DEF e
  <2> QED
    BY <2>2, <2>5 DEF TablesWritten
<1>8. PICK K : LastPlace(Len(files[2]), two.N, two.trail, K)
  <2>1. Layout(two.full, written[2], two.N, two.trail) /\ Len(files[2]) \in Nat
    BY LenProperties DEF InputsLaid, FileLaid, Begins
  <2> QED
    BY <2>1, LastPlaceExists
<1>9. /\ Wanted \in Seq(Writable) /\ Len(Wanted) \in Nat
      /\ Kept \in Seq(Entries) /\ Len(Kept) = two.trail[K].count
      /\ \A i \in 1..Len(Kept) : Kept[i] = written[2][i]
      /\ job = "invert" => /\ Len(Wanted) = Len(Kept)
                           /\ \A i \in 1..Len(Kept) : Wanted[i] = Inverted(Kept[i])
      /\ job # "invert" => /\ Len(Wanted) = Len(written[1]) + Len(Kept)
                           /\ \A i \in 1..Len(written[1]) : Wanted[i] = written[1][i]
                           /\ \A i \in 1..Len(Kept) : Wanted[Len(written[1]) + i] = Kept[i]
  BY <1>8, WantedParts
<1>10. Len(Kept) \in Nat /\ Len(written[1]) \in Nat
  <2>1. written[1] \in Seq(Entries)
    BY DEF Types
  <2> QED
    BY <1>9, <2>1, LenProperties
<1>11. CASE input = 1
  <2>1. job = "concat" /\ c + 1 \in 1..Len(written[1]) /\ c < Len(Wanted)
    <3>1. job = "concat"
      BY <1>1, <1>11 DEF Types
    <3>2. c + 1 \in 1..Len(written[1]) /\ c < Len(written[1])
      BY <1>2, <1>5, <1>11, SMT
    <3>3. Len(Wanted) = Len(written[1]) + Len(Kept)
      BY <1>9, <3>1
    <3>4. \A a, b, k \in Nat : a < b => a < b + k
      BY SMT
    <3>5. c < Len(written[1]) + Len(Kept)
      BY <1>5, <1>10, <3>2, <3>4
    <3> QED
      BY <3>1, <3>2, <3>3, <3>5
  <2>2. Done(lay, n) = c /\ Done(lay, n + 1) = c + 1
    BY <1>2, <1>11 DEF Done
  <2>3. Wanted[c + 1] = e /\ Output(e) = e
    BY <1>2, <1>9, <1>11, <2>1 DEF Output
  <2> HIDE DEF c, e
  <2> QED
    BY <1>5, <1>7, <1>9, <2>1, <2>2, <2>3 DEF e, turn, lay, p
<1>12. CASE input # 1
  <2>1. input = 2 /\ lay = two /\ p = files[2]
    BY <1>3, <1>12 DEF p
  <2>2. lay.trail[L].count = two.trail[K].count
    <3>1. L \in 0..two.N /\ K \in 0..two.N
          /\ two.trail[L].reader.at <= Len(files[2]) /\ two.trail[K].reader.at <= Len(files[2])
      <4>1. L \in 0..two.N /\ K \in 0..two.N /\ L \in 0..L /\ K \in 0..K
        BY <1>3, <1>4, <1>8, <2>1 DEF LastPlace
      <4> QED
        BY <1>4, <1>8, <2>1, <4>1 DEF LastPlace
    <3>2. Layout(two.full, written[2], two.N, two.trail) /\ Len(files[2]) \in Nat
      BY <1>3, <2>1
    <3>3. L <= K
      BY <1>8, <3>1, <3>2, PlacesUpToLast
    <3>4. K <= L
      BY <1>4, <2>1, <3>1, <3>2, PlacesUpToLast
    <3>5. K = L
      BY <1>3, <2>1, <3>1, <3>3, <3>4, SMT
    <3> QED
      BY <2>1, <3>5
  <2>3. c + 1 \in 1..Len(Kept)
    BY <1>5, <1>6, <1>9, <2>2, SMT
  <2>4. Kept[c + 1] = e
    BY <1>2, <1>9, <2>1, <2>3
  <2> HIDE DEF c, e
  <2>5. CASE job = "invert"
    <3>1. Done(lay, n) = c /\ Done(lay, n + 1) = c + 1
      BY <1>2, <2>5 DEF Done, c
    <3>2. Wanted[c + 1] = Output(e) /\ c < Len(Wanted)
      <4>1. Wanted[c + 1] = Inverted(e)
        BY <1>9, <2>3, <2>4, <2>5
      <4>2. c < Len(Wanted)
        BY <1>5, <1>9, <1>10, <2>3, <2>5, SMT
      <4> QED
        BY <2>5, <4>1, <4>2 DEF Output
    <3> QED
      BY <1>5, <1>7, <1>9, <3>1, <3>2 DEF e, turn, lay, p
  <2>6. CASE job # "invert"
    <3> DEFINE d == Len(written[1]) + c
    <3>1. Done(lay, n) = d /\ Done(lay, n + 1) = Len(written[1]) + (c + 1)
      BY <1>2, <1>12, <2>6 DEF Done, c
    <3>2. d \in Nat /\ Len(written[1]) + (c + 1) = d + 1 /\ d < Len(Wanted)
      <4>1. Len(Wanted) = Len(written[1]) + Len(Kept)
        BY <1>9, <2>6
      <4>2. c \in Nat /\ Len(written[1]) \in Nat /\ Len(Kept) \in Nat /\ c < Len(Kept)
        BY <1>5, <1>10, <2>3, SMT
      <4>3. \A a, b, k \in Nat : b < k => /\ a + b \in Nat /\ a + (b + 1) = (a + b) + 1
                                          /\ a + b < a + k
        BY SMT
      <4>4. /\ d \in Nat /\ Len(written[1]) + (c + 1) = d + 1
            /\ d < Len(written[1]) + Len(Kept)
        BY <4>2, <4>3
      <4> HIDE DEF d
      <4> QED
        BY <4>1, <4>4
    <3>3. Wanted[Len(written[1]) + (c + 1)] = Kept[c + 1]
      BY <1>9, <2>3, <2>6
    <3> HIDE DEF d
    <3>4. Wanted[d + 1] = Output(e)
      BY <2>4, <2>6, <3>2, <3>3 DEF Output
    <3> QED
      BY <1>7, <1>9, <3>1, <3>2, <3>4 DEF e, turn, lay, p
  <2> QED
    BY <2>5, <2>6
<1> QED
  BY <1>11, <1>12

-----------------------------------------------------------------------------
(* The steps of the copying *)

\* A step of a job leaves the input files and what is wanted as they are.
LEMMA SameInputs ==
  ASSUME UNCHANGED <<inputs, job>>
  PROVE  /\ Wanted' = Wanted /\ (FlagsAgree' <=> FlagsAgree) /\ TablesWritten' = TablesWritten
         /\ \A one, two : InputsLaid(one, two)' <=> InputsLaid(one, two)
<1>1. files' = files /\ written' = written /\ ends' = ends /\ header' = header /\ job' = job
  BY DEF inputs
<1>2. Kept' = Kept
  BY <1>1 DEF Kept
<1>3. Wanted' = Wanted
  BY <1>1, <1>2 DEF Wanted
<1>4. FlagsAgree' <=> FlagsAgree
  BY <1>1 DEF FlagsAgree
<1>5. TablesWritten' = TablesWritten
  BY <1>1 DEF TablesWritten
<1>6. \A i, lay : FileLaid(i, lay)' <=> FileLaid(i, lay)
  BY <1>1 DEF FileLaid
<1>7. \A one, two : InputsLaid(one, two)' <=> InputsLaid(one, two)
  BY <1>1, <1>6 DEF InputsLaid
<1> QED
  BY <1>3, <1>4, <1>5, <1>7

\* A step within an input file leaves what is counted and which file is read.
LEMMA SameDone ==
  ASSUME UNCHANGED <<inputs, job, input>>
  PROVE  /\ \A lay, n : Done(lay, n)' = Done(lay, n)
         /\ \A one, two : Reads(one, two)' = Reads(one, two)
  BY DEF inputs, Done, Reads

\* The output up to now yields a first part of what is wanted.
LEMMA OutputYields ==
  ASSUME Wanted \in Seq(Writable), NEW d, OutputLaid(d)
  PROVE  IsPrefix(Read(out).entries, Wanted)
<1>1. PICK M, places : OutputHolds(d, M, places)
  BY DEF OutputLaid
<1>2. d \in 0..Len(Wanted) /\ Layout(out, SubSeq(Wanted, 1, d), M, places)
  BY <1>1 DEF OutputHolds
<1>3. SubSeq(Wanted, 1, d) \in Seq(Writable) /\ IsPrefix(SubSeq(Wanted, 1, d), Wanted)
  BY <1>2, FirstPart
<1> DEFINE D == SubSeq(Wanted, 1, d)
<1>4. Read(out) = [entries |-> D, ok |-> TRUE]
  BY <1>2, <1>3, ReadOfWhole
<1> HIDE DEF D
<1>5. Read(out).entries = D
  BY <1>4
<1> QED
  BY <1>3, <1>5 DEF D

\* What is wanted are entries.
LEMMA WantedTyped ==
  ASSUME Types, NEW one, NEW two, InputsLaid(one, two)
  PROVE  Wanted \in Seq(Writable) /\ Len(Wanted) \in Nat
<1>1. Layout(two.full, written[2], two.N, two.trail) /\ Len(files[2]) \in Nat
  BY LenProperties DEF InputsLaid, FileLaid, Begins
<1>2. PICK K : LastPlace(Len(files[2]), two.N, two.trail, K)
  BY <1>1, LastPlaceExists
<1> QED
  BY <1>2, WantedParts

\* SkipTable moves the reader one place on.
LEMMA SkipTableStep ==
  ASSUME Inv, SkipTable
  PROVE  Inv'
<1>1. job # "writing" /\ result = "running" /\ Turn(files[input], reader).kind = "table"
      /\ reader' = Turn(files[input], reader).reader
      /\ UNCHANGED <<inputs, job, input, last, width, out, result>> /\ Reading("table")
  BY DEF SkipTable, Reading
<1>2. PICK one, two, lay, n : Laid(one, two, lay, n)
  BY DEF Inv
<1>3. Types /\ InputsLaid(one, two) /\ lay = Reads(one, two) /\ ReaderAt(lay, n) /\ Copied(lay, n)
  BY <1>1, <1>2 DEF Inv, Laid, Copied
<1>4. /\ n + 1 \in 0..lay.N /\ reader' = lay.trail[n + 1].reader
      /\ reader'.at <= Len(files[input])
      /\ lay.trail[n + 1].count = lay.trail[n].count
  BY <1>1, <1>3, RecordRead
<1>5. Types'
  BY <1>1, <1>3 DEF Types, inputs
<1>6. InputsLaid(one, two)' /\ lay = Reads(one, two)' /\ (FlagsAgree' <=> FlagsAgree)
  BY <1>1, <1>3, SameInputs, SameDone
<1>7. ReaderAt(lay, n + 1)'
  BY <1>1, <1>4 DEF ReaderAt, inputs
<1>8. Done(lay, n + 1)' = Done(lay, n)
  BY <1>1, <1>4 DEF Done, inputs
<1>9. FlagsAgree => OutputLaid(Done(lay, n))
  BY <1>1, <1>3 DEF Copied
<1>10. FlagsAgree' => OutputLaid(Done(lay, n + 1))'
  <2> SUFFICES ASSUME FlagsAgree' PROVE OutputLaid(Done(lay, n + 1))'
    OBVIOUS
  <2> DEFINE d == Done(lay, n)
  <2>1. OutputLaid(d)
    BY <1>6, <1>9
  <2> HIDE DEF d
  <2>2. PICK M, places : OutputHolds(d, M, places)
    BY <2>1 DEF OutputLaid
  <2>3. Done(lay, n + 1)' = d
    BY <1>8 DEF d
  <2> QED
    BY <1>1, <2>2, <2>3, SameInputs DEF OutputLaid, OutputHolds
<1>11. Copied(lay, n + 1)'
  BY <1>1, <1>7, <1>10 DEF Copied
<1> QED
  BY <1>5, <1>6, <1>11 DEF Inv, Laid

\* What the output holds after an entry: the entry, if it is written, and whatever part of
\* it is there, a first part of what is wanted.
LEMMA NextOutput ==
  ASSUME Types, NEW one, NEW two, InputsLaid(one, two), NEW n, ReaderAt(Reads(one, two), n),
         Reading("entry"), FlagsAgree, OutputLaid(Done(Reads(one, two), n))
  PROVE  LET d == Done(Reads(one, two), n)
             e == Turn(files[input], reader).entry
             write == WriteEntry(WidthFor(e), Output(e))
             bytes == HeaderFor(e) \o write.bytes
         IN  /\ write.ok => /\ WidthFor(e) = Columns(e.table)
                            /\ \E N, trail : /\ Layout(out \o bytes, SubSeq(Wanted, 1, d + 1), N, trail)
                                             /\ trail[N].reader.table = e.table
             /\ \A p : Begins(p, out \o bytes) => IsPrefix(Read(p).entries, Wanted)
<1> DEFINE d == Done(Reads(one, two), n)
           e == Turn(files[input], reader).entry
           x == Output(e)
           write == WriteEntry(WidthFor(e), x)
           bytes == HeaderFor(e) \o write.bytes
           D == SubSeq(Wanted, 1, d)
           longer == SubSeq(Wanted, 1, d + 1)
<1>1. /\ e \in Entries /\ e.table \in TablesWritten /\ d \in Nat /\ d < Len(Wanted)
      /\ Wanted[d + 1] = x /\ Wanted \in Seq(Writable) /\ Len(Wanted) \in Nat
  BY EntryRead
<1>2. IsEntry(e) /\ IsEntry(x) /\ x.table = e.table /\ x \in Writable
  BY <1>1, EntriesTyped
<1>3. PICK M, places : OutputHolds(d, M, places)
  BY DEF OutputLaid
<1>4. /\ Layout(out, D, M, places) /\ last = places[M].reader.table.name
      /\ width = Columns(places[M].reader.table)
      /\ places[M].reader.table \in TablesWritten \cup {NoTable}
  BY <1>3 DEF OutputHolds
<1> HIDE DEF e, x, d
<1>5. last = e.table.name /\ width = Columns(e.table) => places[M].reader.table = e.table
  <2> SUFFICES ASSUME last = e.table.name, width = Columns(e.table)
               PROVE  places[M].reader.table = e.table
    OBVIOUS
  <2>1. e.table.name # <<>>
    BY <1>2, EntryRows DEF IsTable
  <2>2. places[M].reader.table # NoTable
    BY <1>4, <2>1 DEF NoTable
  <2>3. places[M].reader.table \in TablesWritten
    BY <1>4, <2>2
  <2> QED
    BY <1>1, <1>4, <2>3 DEF FlagsAgree, TablesWritten
<1>6. /\ d \in 0..Len(Wanted) /\ d + 1 \in 0..Len(Wanted) /\ d + 1 \in 1..Len(Wanted)
      /\ (d + 1) - 1 = d /\ d \in 0..(d + 1)
  BY <1>1, SMT
<1>7. /\ D \in Seq(Writable) /\ Len(D) = d /\ IsPrefix(D, Wanted)
      /\ \A i \in 1..d : D[i] = Wanted[i]
  BY <1>1, <1>6, FirstPart
<1>8. /\ longer \in Seq(Writable) /\ Len(longer) = d + 1
      /\ \A i \in 1..(d + 1) : longer[i] = Wanted[i]
  BY <1>1, <1>6, FirstPart
<1>9. D \o <<x>> = longer
  <2>1. Append(D, Wanted[d + 1]) = longer
    BY <1>1, NextOfPart
  <2> HIDE DEF D, longer
  <2>2. Append(D, x) = D \o <<x>>
    BY <1>2, <1>7, AppendIsConcat
  <2> QED
    BY <1>1, <2>1, <2>2
<1>10. Extends(D, Wanted) /\ Extends(longer, Wanted)
  BY <1>1, <1>6, <1>7, <1>8, SMT DEF Extends
<1> HIDE DEF D, longer
<1>11. ASSUME write.ok
       PROVE  /\ WidthFor(e) = Columns(e.table)
              /\ \E N, trail : /\ Layout(out \o bytes, longer, N, trail)
                               /\ trail[N].reader.table = e.table
  <2>1. /\ WidthFor(e) = Columns(e.table)
        /\ \E N, trail : /\ Layout(out \o bytes, D \o <<x>>, N, trail)
                         /\ trail[N].reader.table = e.table
    BY <1>2, <1>4, <1>5, <1>7, <1>11, WritesEntry
  <2> HIDE DEF bytes
  <2> QED
    BY <1>9, <2>1
<1>12. ASSUME NEW p, Begins(p, out \o bytes) PROVE IsPrefix(Read(p).entries, Wanted)
  <2>1. CASE write.ok
    <3>1. PICK N, trail : Layout(out \o bytes, longer, N, trail)
      BY <1>11, <2>1
    <3> HIDE DEF bytes
    <3>2. PICK c \in 0..Len(longer) : Read(p).entries = SubSeq(longer, 1, c)
      BY <1>8, <1>12, <3>1, EntriesOfPart
    <3>3. IsPrefix(SubSeq(longer, 1, c), Wanted)
      BY <1>1, <1>8, <1>10, PrefixOfPart
    <3> QED
      BY <3>2, <3>3
  <2>2. CASE ~write.ok
    <3>1. \E c \in 0..Len(D) : Read(p).entries = SubSeq(D, 1, c)
      BY <1>2, <1>4, <1>7, <1>12, <2>2, RefusesEntry
    <3>2. PICK c \in 0..Len(D) : Read(p).entries = SubSeq(D, 1, c)
      BY <3>1
    <3>3. IsPrefix(SubSeq(D, 1, c), Wanted)
      BY <1>1, <1>7, <1>10, PrefixOfPart
    <3> QED
      BY <3>2, <3>3
  <2> QED
    BY <2>1, <2>2
<1> HIDE DEF bytes, write
<1> QED
  BY <1>11, <1>12 DEF d, e, x, longer, bytes, write

\* CopyEntry moves the reader one place on and the output by one entry, or refuses it.
LEMMA CopyEntryStep ==
  ASSUME Inv, CopyEntry
  PROVE  Inv'
<1> DEFINE next == Turn(files[input], reader)
           e == next.entry
           write == WriteEntry(WidthFor(e), Output(e))
           bytes == HeaderFor(e) \o write.bytes
<1>1. /\ job # "writing" /\ result = "running" /\ Reading("entry") /\ next.kind = "entry"
      /\ out' = out \o HeaderFor(e) \o write.bytes
      /\ width' = WidthFor(e) /\ last' = e.table.name /\ reader' = next.reader
      /\ result' = IF write.ok THEN "running" ELSE "error"
      /\ UNCHANGED <<inputs, job, input>>
  BY DEF CopyEntry, Reading
<1>2. PICK one, two, lay, n : Laid(one, two, lay, n)
  BY DEF Inv
<1>3. Types /\ InputsLaid(one, two) /\ lay = Reads(one, two) /\ ReaderAt(lay, n) /\ Copied(lay, n)
  BY <1>1, <1>2 DEF Inv, Laid, Copied
<1>4. /\ n + 1 \in 0..lay.N /\ next.reader = lay.trail[n + 1].reader
      /\ next.reader.at <= Len(files[input])
  BY <1>1, <1>3, RecordRead
<1>5. /\ e \in Entries /\ e.table \in TablesWritten
      /\ Done(lay, n) \in Nat /\ Done(lay, n) < Len(Wanted)
      /\ Done(lay, n + 1) = Done(lay, n) + 1
      /\ Wanted \in Seq(Writable) /\ Len(Wanted) \in Nat
  BY <1>1, <1>3, EntryRead
<1>6. IsEntry(e) /\ IsEntry(Output(e)) /\ IsTable(e.table) /\ out \in Seq(Byte)
  BY <1>3, <1>5, EntriesTyped DEF Types
<1>7. out' = out \o bytes /\ out \o bytes \in Seq(Byte)
  BY <1>1, <1>6, WrittenBytes
<1>8. WidthFor(e) = Columns(e.table)
      \/ \E f \in Entries : WidthFor(e) = Columns(f.table) /\ f.table.name = e.table.name
  <2>1. CASE e.table.name # last
    BY <1>6, <2>1, HeaderCases
  <2>2. CASE e.table.name = last
    <3>1. WidthFor(e) = width /\ last # <<>>
      BY <1>6, <2>2, HeaderCases DEF IsTable
    <3> QED
      BY <1>3, <2>2, <3>1 DEF Types
  <2> QED
    BY <2>1, <2>2
<1> HIDE DEF bytes, write, e, next
<1>9. Types'
  <2>1. \E f \in Entries : width' = Columns(f.table) /\ last' = f.table.name
    BY <1>1, <1>5, <1>8
  <2> QED
    BY <1>1, <1>3, <1>7, <2>1 DEF Types, inputs
<1>10. InputsLaid(one, two)' /\ lay = Reads(one, two)' /\ (FlagsAgree' <=> FlagsAgree)
       /\ Wanted' = Wanted /\ TablesWritten' = TablesWritten
  BY <1>1, <1>3, SameInputs, SameDone
<1>11. ReaderAt(lay, n + 1)'
  BY <1>1, <1>4 DEF ReaderAt, inputs
<1>12. ASSUME FlagsAgree
       PROVE  /\ write.ok => OutputLaid(Done(lay, n + 1))'
              /\ ~write.ok => IsPrefix(Read(out).entries, Wanted)'
  <2> DEFINE d == Done(lay, n)
  <2>1. OutputLaid(d)
    BY <1>1, <1>3, <1>12 DEF Copied
  <2>2. /\ write.ok => /\ WidthFor(e) = Columns(e.table)
                       /\ \E N, trail : /\ Layout(out \o bytes, SubSeq(Wanted, 1, d + 1), N, trail)
                                        /\ trail[N].reader.table = e.table
        /\ \A p : Begins(p, out \o bytes) => IsPrefix(Read(p).entries, Wanted)
    BY <1>1, <1>3, <1>12, <2>1, NextOutput DEF e, next, write, bytes
  <2>3. Done(lay, n + 1)' = d + 1 /\ d + 1 \in 0..Len(Wanted)
    <3>1. Done(lay, n + 1)' = Done(lay, n + 1)
      BY <1>1, SameDone
    <3>2. d + 1 \in 0..Len(Wanted)
      BY <1>5, SMT
    <3> QED
      BY <1>5, <3>1, <3>2
  <2> HIDE DEF d
  <2>4. ASSUME write.ok PROVE OutputLaid(Done(lay, n + 1))'
    <3>1. PICK N, trail : /\ Layout(out \o bytes, SubSeq(Wanted, 1, d + 1), N, trail)
                          /\ trail[N].reader.table = e.table
      BY <2>2, <2>4
    <3>2. width' = Columns(e.table) /\ last' = e.table.name
      BY <1>1, <2>2, <2>4
    <3> QED
      BY <1>5, <1>7, <1>10, <2>3, <3>1, <3>2 DEF OutputLaid, OutputHolds
  <2>5. IsPrefix(Read(out).entries, Wanted)'
    <3>1. Begins(out \o bytes, out \o bytes)
      BY <1>7, WholeBegins
    <3>2. IsPrefix(Read(out \o bytes).entries, Wanted)
      BY <2>2, <3>1
    <3> QED
      BY <1>7, <1>10, <3>2
  <2> QED
    BY <2>4, <2>5
<1>13. Copied(lay, n + 1)'
  <2>1. result' = "running" => write.ok
    BY <1>1
  <2>2. result' = "error" => ~write.ok
    BY <1>1
  <2>3. result' # "ok"
    BY <1>1
  <2>4. (FlagsAgree /\ result = "running" => OutputLaid(Done(lay, n + 1)))'
    BY <1>10, <1>12, <2>1
  <2>5. (FlagsAgree /\ result = "error" => IsPrefix(Read(out).entries, Wanted))'
    BY <1>10, <1>12, <2>2
  <2> QED
    BY <1>11, <2>3, <2>4, <2>5 DEF Copied
<1> QED
  BY <1>9, <1>10, <1>13 DEF Inv, Laid

\* A first part of what is appended leaves a first part.
LEMMA PartBegins ==
  ASSUME NEW s \in Seq(Byte), NEW t \in Seq(Byte), NEW n \in 0..Len(t)
  PROVE  Begins(s \o SubSeq(t, 1, n), s \o t)
<1> DEFINE u == SubSeq(t, 1, n)
<1>1. u \in Seq(Byte) /\ Len(u) = n /\ \A i \in 1..n : u[i] = t[i]
  BY FirstPart
<1> HIDE DEF u
<1>2. /\ s \o u \in Seq(Byte) /\ Len(s \o u) = Len(s) + Len(u)
      /\ \A i \in 1..(Len(s) + Len(u)) : (s \o u)[i] = IF i <= Len(s) THEN s[i] ELSE u[i - Len(s)]
  BY <1>1, ConcatProperties
<1>3. /\ s \o t \in Seq(Byte) /\ Len(s \o t) = Len(s) + Len(t)
      /\ \A i \in 1..(Len(s) + Len(t)) : (s \o t)[i] = IF i <= Len(s) THEN s[i] ELSE t[i - Len(s)]
  BY ConcatProperties
<1>4. Len(s) \in Nat /\ Len(t) \in Nat
  BY LenProperties
<1>5. ASSUME NEW i \in 1..(Len(s) + Len(u)) PROVE (s \o u)[i] = (s \o t)[i]
  <2>1. i \in 1..(Len(s) + Len(t)) /\ (i <= Len(s) \/ i - Len(s) \in 1..n)
    BY <1>1, <1>4, SMT
  <2> QED
    BY <1>1, <1>2, <1>3, <2>1
<1>6. Len(s) + Len(u) <= Len(s) + Len(t)
  BY <1>1, <1>4, SMT
<1> QED
  BY <1>2, <1>3, <1>5, <1>6 DEF Begins, u

\* WriteFails leaves a first part of what CopyEntry would.
LEMMA WriteFailsStep ==
  ASSUME Inv, WriteFails
  PROVE  Inv'
<1> DEFINE next == Turn(files[input], reader)
           e == next.entry
           write == WriteEntry(WidthFor(e), Output(e))
           bytes == HeaderFor(e) \o write.bytes
<1>1. /\ job # "writing" /\ result = "running" /\ Reading("entry")
      /\ (\E k \in 0..(Len(bytes) - 1) : out' = out \o SubSeq(bytes, 1, k))
      /\ result' = "error" /\ UNCHANGED <<inputs, job, input, reader, last, width>>
  BY DEF WriteFails, Reading
<1>2. PICK one, two, lay, n : Laid(one, two, lay, n)
  BY DEF Inv
<1>3. Types /\ InputsLaid(one, two) /\ lay = Reads(one, two) /\ ReaderAt(lay, n) /\ Copied(lay, n)
  BY <1>1, <1>2 DEF Inv, Laid, Copied
<1>4. e \in Entries
  BY <1>1, <1>3, EntryRead
<1>5. IsEntry(e) /\ IsEntry(Output(e)) /\ out \in Seq(Byte)
  BY <1>3, <1>4, EntriesTyped DEF Types
<1>6. bytes \in Seq(Byte)
  BY <1>5, WrittenBytes
<1> HIDE DEF bytes, write, e, next
<1>7. Begins(out', out \o bytes)
  <2>1. PICK k \in 0..(Len(bytes) - 1) : out' = out \o SubSeq(bytes, 1, k)
    BY <1>1
  <2>2. Len(bytes) \in Nat
    BY <1>6, LenProperties
  <2>3. k \in 0..Len(bytes)
    BY <2>2, SMT
  <2> QED
    BY <1>5, <1>6, <2>1, <2>3, PartBegins
<1>8. Types'
  <2>1. out' \in Seq(Byte)
    BY <1>7 DEF Begins
  <2> QED
    BY <1>1, <1>3, <2>1 DEF Types, inputs
<1>9. InputsLaid(one, two)' /\ lay = Reads(one, two)' /\ (FlagsAgree' <=> FlagsAgree)
      /\ Wanted' = Wanted
  BY <1>1, <1>3, SameInputs, SameDone
<1>10. ReaderAt(lay, n)'
  BY <1>1, <1>3 DEF ReaderAt, inputs
<1>11. ASSUME FlagsAgree PROVE IsPrefix(Read(out).entries, Wanted)'
  <2>1. OutputLaid(Done(lay, n))
    BY <1>1, <1>3, <1>11 DEF Copied
  <2>2. \A p : Begins(p, out \o bytes) => IsPrefix(Read(p).entries, Wanted)
    BY <1>1, <1>3, <1>11, <2>1, NextOutput DEF e, next, write, bytes
  <2>3. IsPrefix(Read(out').entries, Wanted)
    BY <1>7, <2>2
  <2> QED
    BY <1>9, <2>3
<1>12. Copied(lay, n)'
  BY <1>1, <1>9, <1>10, <1>11 DEF Copied
<1> QED
  BY <1>8, <1>9, <1>12 DEF Inv, Laid

\* ReadFails leaves the output as it is.
LEMMA ReadFailsStep ==
  ASSUME Inv, ReadFails
  PROVE  Inv'
<1>1. /\ job # "writing" /\ result = "running" /\ result' = "error"
      /\ UNCHANGED <<inputs, job, input, reader, last, width, out>>
  BY DEF ReadFails, Reading
<1>2. PICK one, two, lay, n : Laid(one, two, lay, n)
  BY DEF Inv
<1>3. Types /\ InputsLaid(one, two) /\ lay = Reads(one, two) /\ ReaderAt(lay, n) /\ Copied(lay, n)
  BY <1>1, <1>2 DEF Inv, Laid, Copied
<1>4. Types'
  BY <1>1, <1>3 DEF Types, inputs
<1>5. InputsLaid(one, two)' /\ lay = Reads(one, two)' /\ (FlagsAgree' <=> FlagsAgree)
      /\ Wanted' = Wanted
  BY <1>1, <1>3, SameInputs, SameDone
<1>6. ReaderAt(lay, n)'
  BY <1>1, <1>3 DEF ReaderAt, inputs
<1>7. ASSUME FlagsAgree PROVE IsPrefix(Read(out).entries, Wanted)'
  <2>1. OutputLaid(Done(lay, n))
    BY <1>1, <1>3, <1>7 DEF Copied
  <2>2. IsPrefix(Read(out).entries, Wanted)
    BY <1>3, <2>1, WantedTyped, OutputYields
  <2> QED
    BY <1>1, <1>5, <2>2
<1>8. Copied(lay, n)'
  BY <1>1, <1>5, <1>6, <1>7 DEF Copied
<1> QED
  BY <1>4, <1>5, <1>8 DEF Inv, Laid

\* Read to the end, an input file has given all the entries it is to give.
LEMMA AllRead ==
  ASSUME Types, NEW one, NEW two, InputsLaid(one, two), NEW n, ReaderAt(Reads(one, two), n),
         Reading("eof")
  PROVE  /\ input = 1 => Done(one, n) = Len(written[1])
         /\ input # 1 => Done(two, n) = Len(Wanted)
<1> DEFINE lay == Reads(one, two)
<1>1. /\ job # "writing" /\ LastPlace(Len(files[input]), lay.N, lay.trail, n)
      /\ reader.at = Len(files[input]) /\ job \in {"concat", "invert"}
  BY LastRead DEF Reading, Types
<1>2. /\ input \in 1..2 /\ Len(files[input]) \in Nat /\ lay.N \in Nat
      /\ Layout(lay.full, written[input], lay.N, lay.trail)
      /\ input = 1 => files[1] = one.full /\ lay = one
      /\ input # 1 => input = 2 /\ lay = two
  BY <1>1, LaidInput
<1> HIDE DEF lay
<1>3. CASE input = 1
  <2>1. LastPlace(Len(files[input]), lay.N, lay.trail, lay.N)
    BY <1>2, <1>3, LastOfWhole
  <2>2. n \in 0..lay.N /\ lay.N \in 0..lay.N /\ lay.trail[lay.N].reader.at <= Len(files[input])
    <3>1. n \in 0..lay.N /\ lay.N \in 0..lay.N /\ \A m \in 0..lay.N : lay.trail[m].reader.at <= Len(files[input])
      BY <1>1, <2>1 DEF LastPlace
    <3> QED
      BY <3>1
  <2>3. lay.N <= n
    BY <1>1, <1>2, <2>2, PlacesUpToLast
  <2>4. n = lay.N
    BY <1>2, <2>2, <2>3, SMT
  <2>5. lay.trail[n].count = Len(written[1])
    BY <1>2, <1>3, <2>4 DEF Layout
  <2> QED
    BY <1>2, <1>3, <2>5 DEF Done
<1>4. CASE input # 1
  <2>1. LastPlace(Len(files[2]), two.N, two.trail, n)
    BY <1>1, <1>2, <1>4
  <2>2. /\ Len(Kept) = two.trail[n].count
        /\ job = "invert" => Len(Wanted) = Len(Kept)
        /\ job # "invert" => Len(Wanted) = Len(written[1]) + Len(Kept)
    BY <2>1, WantedParts
  <2> QED
    BY <1>4, <2>2 DEF Done
<1> QED
  BY <1>3, <1>4

\* NextInput comes when all entries of a file are in the output.
LEMMA NextInputStep ==
  ASSUME Inv, NextInput
  PROVE  Inv'
<1>1. /\ job # "writing" /\ result = "running" /\ Reading("eof")
      /\ IF input = 1 THEN input' = 2 /\ reader' = NewReader /\ UNCHANGED result
         ELSE result' = "ok" /\ UNCHANGED <<input, reader>>
      /\ UNCHANGED <<inputs, job, last, width, out>>
  BY DEF NextInput, Reading
<1>2. PICK one, two, lay, n : Laid(one, two, lay, n)
  BY DEF Inv
<1>3. Types /\ InputsLaid(one, two) /\ lay = Reads(one, two) /\ ReaderAt(lay, n) /\ Copied(lay, n)
  BY <1>1, <1>2 DEF Inv, Laid, Copied
<1>4. /\ input = 1 => Done(one, n) = Len(written[1])
      /\ input # 1 => Done(two, n) = Len(Wanted)
  BY <1>1, <1>3, AllRead
<1>5. InputsLaid(one, two)' /\ (FlagsAgree' <=> FlagsAgree) /\ Wanted' = Wanted
      /\ TablesWritten' = TablesWritten
  BY <1>1, <1>3, SameInputs
<1>6. FlagsAgree => OutputLaid(Done(lay, n))
  BY <1>1, <1>3 DEF Copied
<1>7. input \in 1..2 /\ (input = 1 => lay = one) /\ (input # 1 => lay = two)
      /\ (input = 1 => job = "concat")
  BY <1>1, <1>3 DEF Types, Reads
<1>8. CASE input = 1
  <2>1. input' = 2 /\ reader' = NewReader /\ result' = "running"
    BY <1>1, <1>8
  <2>2. Types'
    BY <1>1, <1>3, <1>7, <1>8, <2>1 DEF Types, inputs
  <2>3. two.trail[0] = PlaceAt(0, NoTable, 0) /\ two.N \in Nat /\ Len(files[2]) \in Nat
    BY <1>3, LenProperties DEF InputsLaid, FileLaid, Layout, Begins
  <2>4. two.trail[0].reader = NewReader /\ two.trail[0].count = 0
    BY <2>3, PlaceFields DEF NewReader
  <2>5. ReaderAt(two, 0)'
    <3>1. NewReader.at = 0
      BY DEF NewReader
    <3>2. 0 \in 0..two.N /\ 0 <= Len(files[2])
      BY <2>3
    <3>3. files'[input'] = files[2]
      BY <1>1, <2>1 DEF inputs
    <3> QED
      BY <2>1, <2>4, <3>1, <3>2, <3>3 DEF ReaderAt
  <2>6. Done(two, 0)' = Len(written[1])
    <3>1. Done(two, 0)' = Len(written'[1]) + two.trail[0].count
      BY <1>1, <1>7, <1>8, <2>1 DEF Done, inputs
    <3>2. written' = written /\ Len(written[1]) \in Nat
      BY <1>1, <1>3, LenProperties DEF inputs, Types
    <3> QED
      BY <2>4, <3>1, <3>2
  <2>7. FlagsAgree' => OutputLaid(Done(two, 0))'
    <3>1. FlagsAgree => OutputLaid(Len(written[1]))
      BY <1>4, <1>6, <1>7, <1>8
    <3> SUFFICES ASSUME FlagsAgree' PROVE OutputLaid(Done(two, 0))'
      OBVIOUS
    <3> DEFINE d == Len(written[1])
    <3>2. OutputLaid(d)
      BY <1>5, <3>1
    <3> HIDE DEF d
    <3>3. PICK M, places : OutputHolds(d, M, places)
      BY <3>2 DEF OutputLaid
    <3>4. Done(two, 0)' = d
      BY <2>6 DEF d
    <3> QED
      BY <1>1, <1>5, <3>3, <3>4 DEF OutputLaid, OutputHolds
  <2>8. Copied(two, 0)'
    BY <2>1, <2>5, <2>7 DEF Copied
  <2>9. two = Reads(one, two)'
    BY <2>1 DEF Reads
  <2> QED
    BY <1>5, <2>2, <2>8, <2>9 DEF Inv, Laid
<1>9. CASE input # 1
  <2>1. result' = "ok" /\ UNCHANGED <<input, reader>>
    BY <1>1, <1>9
  <2>2. Types'
    BY <1>1, <1>3, <2>1 DEF Types, inputs
  <2>3. ReaderAt(lay, n)' /\ lay = Reads(one, two)'
    BY <1>1, <1>3, <2>1 DEF ReaderAt, Reads, inputs
  <2>4. FlagsAgree' => OutputLaid(Len(Wanted))'
    <3>1. FlagsAgree => OutputLaid(Len(Wanted))
      BY <1>4, <1>6, <1>7, <1>9
    <3> SUFFICES ASSUME FlagsAgree' PROVE OutputLaid(Len(Wanted))'
      OBVIOUS
    <3> DEFINE d == Len(Wanted)
    <3>2. OutputLaid(d)
      BY <1>5, <3>1
    <3> HIDE DEF d
    <3>3. PICK M, places : OutputHolds(d, M, places)
      BY <3>2 DEF OutputLaid
    <3>4. Len(Wanted)' = d
      BY <1>5 DEF d
    <3> QED
      BY <1>1, <1>5, <3>3, <3>4 DEF OutputLaid, OutputHolds
  <2>5. Copied(lay, n)'
    BY <2>1, <2>3, <2>4 DEF Copied
  <2> QED
    BY <1>5, <2>2, <2>3, <2>5 DEF Inv, Laid
<1> QED
  BY <1>8, <1>9

-----------------------------------------------------------------------------
(* The steps before the copying *)

\* As WantedTyped, of the next state.
LEMMA WantedTypedNext ==
  ASSUME NEW one, NEW two
  PROVE  (Types /\ InputsLaid(one, two) => Len(Wanted) \in Nat)'
<1>1. Types /\ InputsLaid(one, two) => Len(Wanted) \in Nat
  BY WantedTyped
<1> QED
  BY <1>1, PTL

\* Start leaves a first part of the second file, and nothing read.
LEMMA StartStep ==
  ASSUME Inv, NEW j \in Jobs, Start(j)
  PROVE  Inv'
<1> PICK m \in 0..Len(files[2]) : files' = [files EXCEPT ![2] = SubSeq(@, 1, m)]
  BY DEF Start
<1>1. /\ job = "writing" /\ job' = j /\ files' = [files EXCEPT ![2] = SubSeq(@, 1, m)]
      /\ input' = FirstInput(j)
      /\ UNCHANGED <<written, ends, header, records, reader, last, width, out, result>>
  BY DEF Start
<1>2. PICK one, two, lay, n : Laid(one, two, lay, n)
  BY DEF Inv
<1>3. /\ Types /\ InputsLaid(one, two) /\ reader = NewReader /\ out = <<>>
      /\ last = <<>> /\ width = 0 /\ result = "running"
  BY <1>1, <1>2 DEF Inv, Laid, Types
<1>4. /\ Layout(one.full, written[1], one.N, one.trail) /\ files[1] = one.full
      /\ Layout(two.full, written[2], two.N, two.trail) /\ files[2] = two.full
      /\ Begins(files[1], one.full) /\ ends = PlacesOf(two) /\ files[2] \in Seq(Byte)
  BY <1>1, <1>3 DEF InputsLaid, FileLaid, Begins
<1>5. files'[1] = files[1] /\ files'[2] = SubSeq(files[2], 1, m)
  BY <1>1, <1>3 DEF Types
<1> DEFINE p == SubSeq(files[2], 1, m)
<1>6. p \in Seq(Byte) /\ Len(p) = m /\ \A i \in 1..m : p[i] = files[2][i]
  BY <1>4, FirstPart
<1> HIDE DEF p
<1>7. files'[2] = p /\ Begins(p, two.full)
  <2>1. Len(files[2]) \in Nat
    BY <1>4, LenProperties
  <2>2. m <= Len(files[2])
    BY <2>1, SMT
  <2> QED
    BY <1>4, <1>5, <1>6, <2>2 DEF Begins, p
<1>8. j \in {"concat", "invert"} /\ j # "writing"
  BY JobsAssumption
<1>9. Types'
  <2>1. files' \in [1..2 -> Seq(Byte)]
    BY <1>1, <1>3, <1>6, <1>7 DEF Types
  <2>2. input' = (IF j = "concat" THEN 1 ELSE 2)
    BY <1>1 DEF FirstInput
  <2> QED
    BY <1>1, <1>3, <1>8, <2>1, <2>2 DEF Types
<1>10. InputsLaid(one, two)'
  <2>1. FileLaid(1, one)'
    BY <1>1, <1>4, <1>5, <1>8 DEF FileLaid
  <2>2. FileLaid(2, two)'
    <3>1. Layout(two.full, written'[2], two.N, two.trail) /\ Begins(files'[2], two.full)
      BY <1>1, <1>4, <1>7
    <3>2. ~(2 = 1 \/ job' = "writing")
      BY <1>1, <1>8
    <3> QED
      BY <3>1, <3>2 DEF FileLaid
  <2>3. PlacesOf(two)' = PlacesOf(two)
    BY DEF PlacesOf
  <2> QED
    BY <1>1, <1>4, <2>1, <2>2 DEF InputsLaid
<1> DEFINE first == IF j = "concat" THEN one ELSE two
<1>11. first = Reads(one, two)'
  BY <1>1, <1>8 DEF Reads, FirstInput
<1>12. first.N \in Nat /\ first.trail[0] = PlaceAt(0, NoTable, 0)
  BY <1>4 DEF Layout
<1>13. first.trail[0].reader = NewReader /\ first.trail[0].count = 0
  BY <1>12, PlaceFields DEF NewReader
<1> HIDE DEF first
<1>14. ReaderAt(first, 0)'
  <2>1. NewReader.at = 0 /\ 0 \in 0..first.N
    BY <1>12 DEF NewReader
  <2>2. Len(files'[input']) \in Nat
    <3>1. input' \in 1..2 /\ files' \in [1..2 -> Seq(Byte)]
      BY <1>1, <1>9 DEF Types, FirstInput
    <3>2. files'[input'] \in Seq(Byte)
      BY <3>1
    <3> QED
      BY <3>2, LenProperties
  <2>3. 0 <= Len(files'[input'])
    BY <2>2, SMT
  <2> QED
    BY <1>1, <1>3, <1>13, <2>1, <2>3 DEF ReaderAt
<1>15. Done(first, 0)' = 0
  <2>1. (input = 1 \/ job = "invert")'
    BY <1>1, <1>8 DEF FirstInput
  <2> QED
    BY <1>13, <2>1 DEF Done
<1>16. OutputLaid(Done(first, 0))'
  <2>1. Len(Wanted)' \in Nat
    BY <1>9, <1>10, WantedTypedNext
  <2> DEFINE places == [k \in 0..0 |-> PlaceAt(0, NoTable, 0)]
  <2>2. Layout(<<>>, <<>>, 0, places)
    BY EmptyFile
  <2>3. SubSeq(Wanted', 1, 0) = <<>>
    BY SubSeqEmpty, SMT
  <2>4. places[0].reader.table = NoTable
    BY PlaceFields
  <2> HIDE DEF places
  <2>5. 0 \in 0..Len(Wanted')
    BY <2>1
  <2>6. NoTable.name = <<>> /\ Columns(NoTable) = 0
    BY DEF NoTable, Columns
  <2>7. out' = <<>> /\ last' = <<>> /\ width' = 0
    BY <1>1, <1>3
  <2>8. OutputHolds(0, 0, places)'
    BY <2>2, <2>3, <2>4, <2>5, <2>6, <2>7 DEF OutputHolds
  <2> QED
    BY <1>15, <2>8 DEF OutputLaid
<1>17. Copied(first, 0)'
  BY <1>1, <1>3, <1>14, <1>16 DEF Copied
<1> QED
  BY <1>9, <1>10, <1>11, <1>17 DEF Inv, Laid

\* The beginning: two files of no records.
LEMMA InitHolds == Init => Inv
<1> SUFFICES ASSUME Init PROVE Inv
  OBVIOUS
<1> DEFINE places == [k \in 0..0 |-> PlaceAt(0, NoTable, 0)]
<1>1. places[0] = PlaceAt(0, NoTable, 0)
  OBVIOUS
<1>2. Layout(<<>>, <<>>, 0, places)
  BY EmptyFile
<1> HIDE DEF places
<1> DEFINE lay == [full |-> <<>>, N |-> 0, trail |-> places]
<1>3. lay.full = <<>> /\ lay.N = 0 /\ lay.trail = places
  OBVIOUS
<1> HIDE DEF lay
<1>4. places[0].reader.table = NoTable /\ places[0].reader.at = 0 /\ places[0].count = 0
  BY <1>1, PlaceFields
<1>5. <<>> \in Seq(Byte) /\ <<>> \in Seq(Entries)
  BY EmptySeq
<1>6. /\ files[1] = <<>> /\ files[2] = <<>> /\ written[1] = <<>> /\ written[2] = <<>>
      /\ header[1] = NoTable /\ header[2] = NoTable /\ job = "writing" /\ ends = {<<0, 0>>}
  BY DEF Init
<1>7. Types
  <2>1. /\ files \in [1..2 -> Seq(Byte)] /\ out \in Seq(Byte)
        /\ written \in [1..2 -> Seq(Entries)] /\ header \in [1..2 -> Tables \cup {NoTable}]
    <3>1. \A S, v : v \in S => <<v, v>> \in [1..2 -> S]
      OBVIOUS
    <3>2. NoTable \in Tables \cup {NoTable}
      OBVIOUS
    <3> QED
      BY <1>5, <3>1, <3>2, Zenon DEF Init
  <2> QED
    BY <2>1 DEF Init, Types
<1>8. Begins(<<>>, <<>>)
  BY <1>5, WholeBegins
<1>9. FileLaid(1, lay) /\ FileLaid(2, lay)
  BY <1>2, <1>3, <1>4, <1>6, <1>8 DEF FileLaid
<1>10. ends = PlacesOf(lay)
  <2>1. 0..0 = {0}
    OBVIOUS
  <2>2. PlacesOf(lay) = {<<places[n].reader.at, places[n].count>> : n \in {0}}
    BY <1>3, <2>1 DEF PlacesOf
  <2> QED
    BY <1>4, <1>6, <2>2
<1>11. Laid(lay, lay, lay, 0)
  BY <1>6, <1>9, <1>10 DEF Laid, InputsLaid
<1> QED
  BY <1>7, <1>11 DEF Inv

\* One record more, of whichever kind, in one of the files.
LEMMA ExtendStep ==
  ASSUME Inv, NEW i \in 1..2, NEW bytes \in Seq(Byte), NEW more \in Seq(Entries),
         Extend(i, bytes, more), NEW t \in Tables, header' = [header EXCEPT ![i] = t],
         \A lay : FileLaid(i, lay) =>
            \E b : /\ Layout(files[i] \o bytes, written[i] \o more, lay.N + 1, Longer(lay.N, lay.trail, b))
                   /\ b.reader.table = t
  PROVE  Inv'
<1>1. /\ job = "writing" /\ job' = "writing"
      /\ files' = [files EXCEPT ![i] = @ \o bytes]
      /\ written' = [written EXCEPT ![i] = @ \o more]
      /\ ends' = IF i = 2 THEN ends \cup {<<Len(files'[2]), Len(written'[2])>>} ELSE ends
      /\ UNCHANGED copying
  BY DEF Extend, copying, Inv, Types
<1>2. PICK one, two, lay, n : Laid(one, two, lay, n)
  BY DEF Inv
<1>3. Types /\ FileLaid(1, one) /\ FileLaid(2, two) /\ ends = PlacesOf(two)
  BY <1>2 DEF Inv, Laid, InputsLaid
<1>4. Types'
  <2>1. files[i] \in Seq(Byte) /\ written[i] \in Seq(Entries)
    BY <1>3 DEF Types
  <2>2. files[i] \o bytes \in Seq(Byte) /\ written[i] \o more \in Seq(Entries)
    BY <2>1, ConcatProperties
  <2>3. files' \in [1..2 -> Seq(Byte)]
    BY <1>1, <1>3, <2>2 DEF Types
  <2>4. written' \in [1..2 -> Seq(Entries)]
    BY <1>1, <1>3, <2>2 DEF Types
  <2>5. header' \in [1..2 -> Tables \cup {NoTable}]
    BY <1>3 DEF Types
  <2> QED
    BY <1>1, <1>3, <2>3, <2>4, <2>5 DEF Types, copying
<1> DEFINE old == IF i = 1 THEN one ELSE two
<1>5. FileLaid(i, old)
  BY <1>3
<1>6. PICK b : /\ Layout(files[i] \o bytes, written[i] \o more, old.N + 1, Longer(old.N, old.trail, b))
               /\ b.reader.table = t
  BY <1>5
<1> DEFINE longer == Longer(old.N, old.trail, b)
<1>7. files'[i] = files[i] \o bytes /\ written'[i] = written[i] \o more /\ header'[i] = t
  BY <1>1, <1>3 DEF Types
<1>8. PICK grown : /\ grown.full = files'[i] /\ grown.N = old.N + 1 /\ grown.trail = longer
  <2> DEFINE lays == [full |-> files'[i], N |-> old.N + 1, trail |-> longer]
  <2>1. lays.full = files'[i] /\ lays.N = old.N + 1 /\ lays.trail = longer
    OBVIOUS
  <2> HIDE DEF lays, longer
  <2> QED
    BY <2>1
<1>9. old.N \in Nat
  BY <1>5 DEF FileLaid, Layout
<1>10. longer[old.N + 1] = b /\ \A k \in 0..old.N : longer[k] = old.trail[k]
  BY <1>9 DEF Longer
<1> HIDE DEF longer
<1>11. Layout(grown.full, written'[i], grown.N, grown.trail)
  BY <1>6, <1>7, <1>8 DEF longer
<1>12. FileLaid(i, grown)'
  <2>1. grown.full \in Seq(Byte)
    BY <1>11 DEF Layout
  <2>2. Begins(files'[i], grown.full)
    BY <1>8, <2>1, WholeBegins
  <2>3. grown.trail[grown.N].reader.table = header'[i]
    BY <1>6, <1>7, <1>8, <1>10
  <2> QED
    BY <1>8, <1>11, <2>2, <2>3 DEF FileLaid
<1>13. ASSUME NEW k \in 1..2, k # i, NEW same, FileLaid(k, same) PROVE FileLaid(k, same)'
  <2>1. files'[k] = files[k] /\ written'[k] = written[k] /\ header'[k] = header[k]
    BY <1>1, <1>3, <1>13 DEF Types
  <2> QED
    BY <1>1, <1>13, <2>1 DEF FileLaid
<1>14. CASE i = 1
  <2>1. FileLaid(1, grown)' /\ FileLaid(2, two)'
    BY <1>3, <1>12, <1>13, <1>14
  <2>2. ends' = PlacesOf(two)'
    BY <1>1, <1>3, <1>14 DEF PlacesOf
  <2>3. Laid(grown, two, lay, n)'
    BY <1>1, <2>1, <2>2 DEF Laid, InputsLaid
  <2> QED
    BY <1>4, <2>3 DEF Inv
<1>15. CASE i = 2
  <2>1. FileLaid(1, one)' /\ FileLaid(2, grown)'
    BY <1>3, <1>12, <1>13, <1>15
  <2>2. b.reader.at = Len(files'[2]) /\ b.count = Len(written'[2])
    BY <1>8, <1>10, <1>11, <1>15 DEF Layout
  <2>3. ends' = ends \cup {<<b.reader.at, b.count>>}
    BY <1>1, <1>15, <2>2
  <2>4. ends = {<<old.trail[k].reader.at, old.trail[k].count>> : k \in 0..old.N}
    BY <1>3, <1>15 DEF PlacesOf
  <2>5. 0..(old.N + 1) = (0..old.N) \cup {old.N + 1}
    BY <1>9
  <2>6. PlacesOf(grown) = {<<longer[k].reader.at, longer[k].count>> : k \in (0..old.N) \cup {old.N + 1}}
    BY <1>8, <2>5 DEF PlacesOf
  <2> HIDE DEF old
  <2>7. PlacesOf(grown) = ends'
    BY <1>10, <2>3, <2>4, <2>6
  <2>8. PlacesOf(grown)' = PlacesOf(grown)
    BY DEF PlacesOf
  <2>9. Laid(one, grown, lay, n)'
    BY <1>1, <2>1, <2>7 DEF Laid, InputsLaid, PlacesOf
  <2> QED
    BY <1>4, <2>9 DEF Inv
<1> QED
  BY <1>14, <1>15

\* BeginTable appends a header.
LEMMA BeginTableStep ==
  ASSUME Inv, NEW i \in 1..2, NEW e \in Entries, BeginTable(i, e.table)
  PROVE  Inv'
<1> DEFINE t == e.table
<1>1. Extend(i, Header(t), <<>>) /\ header' = [header EXCEPT ![i] = t]
  BY DEF BeginTable
<1>2. IsTable(t) /\ t \in Tables
  BY EntriesTyped
<1> HIDE DEF t
<1>3. Header(t) \in Seq(Byte) /\ <<>> \in Seq(Entries)
  BY <1>2, HeaderBytes, EmptySeq
<1>4. ASSUME NEW lay, FileLaid(i, lay)
      PROVE  \E b : /\ Layout(files[i] \o Header(t), written[i] \o <<>>, lay.N + 1, Longer(lay.N, lay.trail, b))
                    /\ b.reader.table = t
  <2>1. job = "writing" /\ Types
    BY <1>1 DEF Extend, Inv
  <2>2. Layout(files[i], written[i], lay.N, lay.trail)
    BY <1>4, <2>1 DEF FileLaid
  <2>3. written[i] \in Seq(Entries)
    BY <2>1 DEF Types
  <2>4. written[i] \o <<>> = written[i]
    BY <2>3, ConcatEmptySeq
  <2> DEFINE b == PlaceAt(Len(files[i]) + Len(Header(t)), t, Len(written[i]))
  <2>5. Layout(files[i] \o Header(t), written[i], lay.N + 1, Longer(lay.N, lay.trail, b))
    BY <1>2, <2>2, HeaderAppended
  <2>6. b.reader.table = t
    BY PlaceFields
  <2> HIDE DEF b
  <2> QED
    BY <2>4, <2>5, <2>6
<1> QED
  BY <1>1, <1>2, <1>3, <1>4, ExtendStep

\* AppendEntry appends an entry.
LEMMA AppendEntryStep ==
  ASSUME Inv, NEW i \in 1..2, NEW e \in Entries, AppendEntry(i, e)
  PROVE  Inv'
<1>1. e.table = header[i] /\ UNCHANGED header
      /\ Extend(i, WriteEntry(Columns(e.table), e).bytes, <<e>>)
  BY DEF AppendEntry
<1>2. IsEntry(e) /\ e.table \in Tables
  BY EntriesTyped
<1>3. WriteEntry(Columns(e.table), e).bytes = EntryBytes(e)
  BY <1>2, WriteCases
<1>4. EntryBytes(e) \in Seq(Byte) /\ <<e>> \in Seq(Entries)
  BY <1>2, EntryBytesTyped
<1>5. Extend(i, EntryBytes(e), <<e>>)
  BY <1>1, <1>3
<1>6. Types /\ job = "writing"
  BY <1>1 DEF Inv, Extend
<1>7. header' = [header EXCEPT ![i] = e.table]
  BY <1>1, <1>6 DEF Types
<1>8. ASSUME NEW lay, FileLaid(i, lay)
      PROVE  \E b : /\ Layout(files[i] \o EntryBytes(e), written[i] \o <<e>>, lay.N + 1,
                              Longer(lay.N, lay.trail, b))
                    /\ b.reader.table = e.table
  <2>1. Layout(files[i], written[i], lay.N, lay.trail) /\ e.table = lay.trail[lay.N].reader.table
    BY <1>1, <1>6, <1>8 DEF FileLaid
  <2>2. written[i] \in Seq(Entries)
    BY <1>6 DEF Types
  <2> DEFINE b == PlaceAt(Len(files[i]) + Len(EntryBytes(e)), e.table, Len(written[i]) + 1)
  <2>3. Layout(files[i] \o EntryBytes(e), written[i] \o <<e>>, lay.N + 1, Longer(lay.N, lay.trail, b))
    BY <1>2, <2>1, <2>2, EntryAppended
  <2>4. b.reader.table = e.table
    BY PlaceFields
  <2> HIDE DEF b
  <2> QED
    BY <2>3, <2>4
<1> QED
  BY <1>2, <1>4, <1>5, <1>7, <1>8, ExtendStep

\* The invariant is about the variables of the module only.
LEMMA StutterStep ==
  ASSUME Inv, UNCHANGED vars
  PROVE  Inv'
<1>1. UNCHANGED <<inputs, job>> /\ UNCHANGED <<inputs, job, input>>
      /\ UNCHANGED <<reader, last, width, out, result>>
  BY DEF vars, inputs
<1>2. PICK one, two, lay, n : Laid(one, two, lay, n)
  BY DEF Inv
<1>3. Types /\ InputsLaid(one, two)
  BY <1>2 DEF Inv, Laid
<1>4. Types'
  BY <1>1, <1>3 DEF Types, inputs
<1>5. InputsLaid(one, two)' /\ (FlagsAgree' <=> FlagsAgree) /\ Wanted' = Wanted
      /\ TablesWritten' = TablesWritten /\ Reads(one, two)' = Reads(one, two)
      /\ Done(lay, n)' = Done(lay, n)
  BY <1>1, <1>3, SameInputs, SameDone
<1>6. ASSUME NEW d, OutputLaid(d) PROVE OutputLaid(d)'
  <2>1. PICK M, places : OutputHolds(d, M, places)
    BY <1>6 DEF OutputLaid
  <2> QED
    BY <1>1, <1>5, <2>1 DEF OutputLaid, OutputHolds
<1>7. ASSUME Copied(lay, n) PROVE Copied(lay, n)'
  <2>1. ReaderAt(lay, n)'
    BY <1>1, <1>7 DEF Copied, ReaderAt, inputs
  <2>2. (FlagsAgree /\ result = "running" => OutputLaid(Done(lay, n)))'
    <3> DEFINE d == Done(lay, n)
    <3>1. FlagsAgree /\ result = "running" => OutputLaid(d)
      BY <1>7 DEF Copied
    <3>2. Done(lay, n)' = d
      BY <1>5
    <3> HIDE DEF d
    <3> SUFFICES ASSUME (FlagsAgree /\ result = "running")' PROVE OutputLaid(Done(lay, n))'
      OBVIOUS
    <3>3. OutputLaid(d)
      BY <1>1, <1>5, <3>1
    <3>4. PICK M, places : OutputHolds(d, M, places)
      BY <3>3 DEF OutputLaid
    <3> QED
      BY <1>1, <1>5, <3>2, <3>4 DEF OutputLaid, OutputHolds
  <2>3. (FlagsAgree /\ result = "ok" => OutputLaid(Len(Wanted)))'
    <3> DEFINE d == Len(Wanted)
    <3>1. FlagsAgree /\ result = "ok" => OutputLaid(d)
      BY <1>7 DEF Copied
    <3>2. Len(Wanted)' = d
      BY <1>5
    <3> HIDE DEF d
    <3> SUFFICES ASSUME (FlagsAgree /\ result = "ok")' PROVE OutputLaid(Len(Wanted))'
      OBVIOUS
    <3>3. OutputLaid(d)
      BY <1>1, <1>5, <3>1
    <3>4. PICK M, places : OutputHolds(d, M, places)
      BY <3>3 DEF OutputLaid
    <3> QED
      BY <1>1, <1>5, <3>2, <3>4 DEF OutputLaid, OutputHolds
  <2>4. (FlagsAgree /\ result = "error" => IsPrefix(Read(out).entries, Wanted))'
    BY <1>1, <1>5, <1>7 DEF Copied
  <2> QED
    BY <2>1, <2>2, <2>3, <2>4 DEF Copied
<1>8. (job # "writing" => lay = Reads(one, two) /\ Copied(lay, n))'
  BY <1>1, <1>2, <1>5, <1>7 DEF Laid
<1> QED
  BY <1>4, <1>5, <1>8 DEF Inv, Laid

\* Every step keeps the invariant.
LEMMA InvIsInductive == Inv /\ [Next]_vars => Inv'
<1> SUFFICES ASSUME Inv, [Next]_vars PROVE Inv'
  OBVIOUS
<1>1. CASE \E i \in 1..2, e \in Entries : BeginTable(i, e.table) \/ AppendEntry(i, e)
  BY <1>1, BeginTableStep, AppendEntryStep
<1>2. CASE \E j \in Jobs : Start(j)
  BY <1>2, StartStep
<1>3. CASE SkipTable
  BY <1>3, SkipTableStep
<1>4. CASE CopyEntry
  BY <1>4, CopyEntryStep
<1>5. CASE WriteFails
  BY <1>5, WriteFailsStep
<1>6. CASE NextInput
  BY <1>6, NextInputStep
<1>7. CASE ReadFails
  BY <1>7, ReadFailsStep
<1>8. CASE UNCHANGED vars
  BY <1>8, StutterStep
<1> QED
  BY <1>1, <1>2, <1>3, <1>4, <1>5, <1>6, <1>7, <1>8 DEF Next

\* The invariant holds throughout.
LEMMA InvHolds == Spec => []Inv
<1> QED
  BY InitHolds, InvIsInductive, PTL DEF Spec

-----------------------------------------------------------------------------
(* The theorems *)

\* The reader is at a place of its file, so everything is typed.
LEMMA InvTyped == Inv => TypeOK
<1> SUFFICES ASSUME Inv PROVE TypeOK
  OBVIOUS
<1>1. PICK one, two, lay, n : Laid(one, two, lay, n)
  BY DEF Inv
<1>2. Types
  BY DEF Inv
<1>3. reader \in Reader /\ (input # 0 => reader.at <= Len(files[input]))
  <2>1. CASE job = "writing"
    <3>1. reader = NewReader /\ input = 0
      BY <1>2, <2>1 DEF Types
    <3>2. NewReader \in Reader
      BY EmptySeq DEF NewReader, NoTable, Reader
    <3> QED
      BY <3>1, <3>2
  <2>2. CASE job # "writing"
    <3>1. InputsLaid(one, two) /\ lay = Reads(one, two) /\ ReaderAt(lay, n)
      BY <1>1, <2>2 DEF Laid, Copied
    <3>2. \A m \in 0..lay.N : lay.trail[m] \in Place
      BY <1>2, <2>2, <3>1, LaidInput
    <3>3. n \in 0..lay.N /\ reader = lay.trail[n].reader /\ reader.at <= Len(files[input])
      BY <3>1 DEF ReaderAt
    <3> QED
      BY <3>2, <3>3, PlaceFields
  <2> QED
    BY <2>1, <2>2
<1>4. input \in 0..2
  <2>1. 0 \in 0..2 /\ 2 \in 0..2 /\ \A k \in 1..2 : k \in 0..2
    OBVIOUS
  <2> QED
    BY <1>2, <2>1 DEF Types
<1> QED
  BY <1>2, <1>3, <1>4 DEF Types, TypeOK

\* What a reader makes of the input files.
LEMMA FilesRead ==
  ASSUME Types, NEW one, NEW two, InputsLaid(one, two), job # "writing"
  PROVE  /\ Read(files[1]).entries = written[1] /\ Read(files[1]).ok
         /\ Read(files[2]).entries = Kept
         /\ Read(files[2]).ok <=> \E c \in ends : c[1] = Len(files[2])
<1>1. written[1] \in Seq(Entries) /\ written[2] \in Seq(Entries)
  BY DEF Types
<1>2. /\ Layout(one.full, written[1], one.N, one.trail) /\ files[1] = one.full
      /\ Layout(two.full, written[2], two.N, two.trail) /\ Begins(files[2], two.full)
      /\ ends = PlacesOf(two) /\ FileLaid(2, two)
  BY DEF InputsLaid, FileLaid
<1>3. Read(files[1]).entries = written[1] /\ Read(files[1]).ok
  <2>1. Read(files[1]) = [entries |-> written[1], ok |-> TRUE]
    BY <1>1, <1>2, ReadOfWhole
  <2> QED
    BY <2>1
<1>4. Len(files[2]) \in Nat
  BY <1>2, LenProperties DEF Begins
<1>5. PICK K : LastPlace(Len(files[2]), two.N, two.trail, K)
  BY <1>2, <1>4, LastPlaceExists
<1> DEFINE E == written[2]
           limit == Len(files[2])
<1>6. /\ Read(files[2]).entries = SubSeq(E, 1, two.trail[K].count)
      /\ Read(files[2]).ok <=> two.trail[K].reader.at = limit
  BY <1>1, <1>2, <1>5, ReadOfPart
<1>7. Kept = SubSeq(E, 1, two.trail[K].count)
  BY <1>2, <1>5, KeptIs
<1>8. two.trail[K].reader.at = limit <=> \E c \in ends : c[1] = limit
  <2>1. K \in 0..two.N
    BY <1>5 DEF LastPlace
  <2>2. \A n \in 0..two.N : two.trail[n].reader.at = limit => two.trail[K].reader.at = limit
    BY <1>2, <1>4, <1>5, PlacesUpToLast
  <2>3. \A c \in ends : \E n \in 0..two.N : c[1] = two.trail[n].reader.at
    BY <1>2 DEF PlacesOf
  <2>4. ASSUME NEW n \in 0..two.N PROVE \E c \in ends : c[1] = two.trail[n].reader.at
    <3>1. <<two.trail[n].reader.at, two.trail[n].count>> \in ends
      BY <1>2 DEF PlacesOf
    <3> QED
      BY <3>1
  <2> HIDE DEF limit
  <2> QED
    BY <2>1, <2>2, <2>3, <2>4
<1> QED
  BY <1>3, <1>6, <1>7, <1>8

\* The input files are read as they are laid out.
LEMMA InvCutFile == Inv => CutFileYieldsPrefix /\ EndOnlyBetweenRecords
<1> SUFFICES ASSUME Inv, Started PROVE CutFileYieldsPrefix /\ EndOnlyBetweenRecords
  BY DEF CutFileYieldsPrefix, EndOnlyBetweenRecords
<1>1. PICK one, two, lay, n : Laid(one, two, lay, n)
  BY DEF Inv
<1>2. Types /\ InputsLaid(one, two) /\ job # "writing"
  BY <1>1 DEF Inv, Laid, Started
<1>3. /\ Read(files[1]).entries = written[1] /\ Read(files[1]).ok
      /\ Read(files[2]).entries = Kept
      /\ Read(files[2]).ok <=> \E c \in ends : c[1] = Len(files[2])
  BY <1>2, FilesRead
<1> QED
  BY <1>3 DEF CutFileYieldsPrefix, EndOnlyBetweenRecords

\* An output laid out as all that is wanted reads back so.
LEMMA InvOutput == Inv => OutputReadsBack
<1> SUFFICES ASSUME Inv, result = "ok", FlagsAgree
             PROVE  Read(out) = [entries |-> Wanted, ok |-> TRUE]
  BY DEF OutputReadsBack
<1>1. PICK one, two, lay, n : Laid(one, two, lay, n)
  BY DEF Inv
<1>2. Types /\ InputsLaid(one, two) /\ job # "writing" /\ Copied(lay, n)
  BY <1>1 DEF Inv, Laid, Types
<1>3. Wanted \in Seq(Writable) /\ Len(Wanted) \in Nat
  BY <1>2, WantedTyped
<1> DEFINE d == Len(Wanted)
<1>4. OutputLaid(d)
  BY <1>2 DEF Copied
<1> HIDE DEF d
<1>5. PICK M, places : OutputHolds(d, M, places)
  BY <1>4 DEF OutputLaid
<1>6. Layout(out, SubSeq(Wanted, 1, d), M, places)
  BY <1>5 DEF OutputHolds
<1>7. SubSeq(Wanted, 1, d) = Wanted
  BY <1>3, SubSeqFull DEF d
<1>8. Layout(out, Wanted, M, places)
  BY <1>6, <1>7
<1> QED
  BY <1>3, <1>8, ReadOfWhole

\* An output laid out as a first part of it reads back so.
LEMMA InvPartialOutput == Inv => PartialOutputIsPrefix
<1> SUFFICES ASSUME Inv, FlagsAgree PROVE IsPrefix(Read(out).entries, Wanted)
  BY DEF PartialOutputIsPrefix
<1>1. PICK one, two, lay, n : Laid(one, two, lay, n)
  BY DEF Inv
<1>2. Types /\ InputsLaid(one, two)
  BY <1>1 DEF Inv, Laid
<1>3. Wanted \in Seq(Writable) /\ Len(Wanted) \in Nat
  BY <1>2, WantedTyped
<1>4. CASE job = "writing"
  <2>1. out = <<>>
    BY <1>2, <1>4 DEF Types
  <2> DEFINE places == [k \in 0..0 |-> PlaceAt(0, NoTable, 0)]
  <2>2. Layout(<<>>, <<>>, 0, places) /\ <<>> \in Seq(Writable)
    BY EmptyFile, EmptySeq
  <2> HIDE DEF places
  <2>3. Read(<<>>) = [entries |-> <<>>, ok |-> TRUE]
    BY <2>2, ReadOfWhole
  <2>4. Read(out).entries = <<>>
    BY <2>1, <2>3
  <2>5. SubSeq(Wanted, 1, 0) = <<>>
    BY SubSeqEmpty, SMT
  <2>6. 0 \in 0..Len(Wanted)
    BY <1>3
  <2>7. IsPrefix(SubSeq(Wanted, 1, 0), Wanted)
    BY <1>3, <2>6, FirstPart
  <2> QED
    BY <2>4, <2>5, <2>7
<1>5. CASE job # "writing" /\ result = "error"
  BY <1>1, <1>5 DEF Laid, Copied
<1>6. CASE job # "writing" /\ result # "error"
  <2>1. Copied(lay, n) /\ (result = "running" \/ result = "ok")
    BY <1>1, <1>2, <1>6 DEF Laid, Types
  <2>2. OutputLaid(Done(lay, n)) \/ OutputLaid(Len(Wanted))
    BY <2>1 DEF Copied
  <2> QED
    BY <1>3, <2>2, OutputYields
<1> QED
  BY <1>4, <1>5, <1>6

\* What is kept are entries, so their inverses are as InverseOfInverse says.
LEMMA InvInverses == Inv => InverseKeepsKeys
<1> SUFFICES ASSUME Inv, Started, NEW i \in 1..Len(Kept)
             PROVE  /\ Inverted(Inverted(Kept[i])) = Kept[i]
                    /\ \A c \in DOMAIN Kept[i].table.pks :
                          Kept[i].table.pks[c] /\ Kept[i].op # Delete =>
                                Inverted(Kept[i]).old[c] # Undefined
  BY DEF InverseKeepsKeys
<1>1. PICK one, two, lay, n : Laid(one, two, lay, n)
  BY DEF Inv
<1>2. Types /\ InputsLaid(one, two)
  BY <1>1 DEF Inv, Laid
<1>3. Len(files[2]) \in Nat /\ Layout(two.full, written[2], two.N, two.trail)
  BY <1>2, LenProperties DEF InputsLaid, FileLaid, Begins
<1>4. PICK K : LastPlace(Len(files[2]), two.N, two.trail, K)
  BY <1>3, LastPlaceExists
<1>5. Kept \in Seq(Entries)
  BY <1>2, <1>4, WantedParts
<1>6. Kept[i] \in Entries
  BY <1>5, ElementOfSeq
<1>7. IsEntry(Kept[i])
  BY <1>6, EntriesTyped
<1> QED
  BY <1>7, InverseOfInverse

\* The variables keep their types, and the reader never leaves the file it reads: no length
\* that a file gives takes NextEntry behind its end.
THEOREM ChangesetFileTypeCorrect == Spec => []TypeOK
<1> QED
  BY InvHolds, InvTyped, PTL

\* However an input file is cut off, NextEntry returns the entries that are in it in full, as
\* they were written, and no other; from a whole file it returns them all.
THEOREM CutFilesYieldPrefixes == Spec => []CutFileYieldsPrefix
<1> QED
  BY InvHolds, InvCutFile, PTL

\* NextEntry comes to the end of a cut file without an error exactly if the cut is between
\* two records.
THEOREM EndsOnlyBetweenRecords == Spec => []EndOnlyBetweenRecords
<1> QED
  BY InvHolds, InvCutFile, PTL

\* A ConcatChanges or InvertChangeset that succeeds leaves a changeset that reads back as the
\* entries of its inputs, or as their inverses, whole and in order.
THEOREM OutputsReadBack == Spec => []OutputReadsBack
<1> QED
  BY InvHolds, InvOutput, PTL

\* One that is running or has failed, be it at any byte of the output or at a torn input,
\* leaves a file that reads as a first part of that.
THEOREM PartialOutputsArePrefixes == Spec => []PartialOutputIsPrefix
<1> QED
  BY InvHolds, InvPartialOutput, PTL

\* InvertChangeset leaves the key of every row where the apply looks for it, and inverting
\* twice gives the entries back.
THEOREM InversesKeepKeys == Spec => []InverseKeepsKeys
<1> QED
  BY InvHolds, InvInverses, PTL

=============================================================================
