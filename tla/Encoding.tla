------------------------------- MODULE Encoding -------------------------------
(***************************************************************************)
(* The codes of the messages and of the replicated positions:              *)
(* Goop/encoding.h and Goop/encoding.cpp.                                  *)
(*                                                                         *)
(* A stream (ZCom_BitStream) is the sequence of its bits.  A writer maps a *)
(* stream to the longer one; a reader gives the value it has read and the  *)
(* rest of the stream.  A position has two coordinates of the same form,   *)
(* and a coordinate is coded by the size of the area along its axis:       *)
(*                                                                         *)
(*   [x1, x2 |-> the area, in pixels;  acc |-> subPixelAcc, codes to a     *)
(*    pixel;  fine |-> the coordinates the model tells apart in one code]  *)
(*                                                                         *)
(* so a coordinate v stands for the position v / (acc * fine).             *)
(***************************************************************************)
EXTENDS Integers, Sequences
LOCAL INSTANCE SequencesExt

CONSTANT IntBits       \* the width of an int
ASSUME IntAssumption == IntBits \in Nat \ {0}

bitsOf[n \in Nat] == IF n = 0 THEN 0 ELSE 1 + bitsOf[n \div 2]

(***************************************************************************)
(* ZCom_BitStream, as the code uses it: addInt keeps the lowest b bits,    *)
(* and bits past the end are read as zeroes.                               *)
(***************************************************************************)
addInt(s, n, b) == s \o [i \in 1..b |-> (n \div 2^(b - i)) % 2]
getInt(s, b) ==
  [value |-> FoldLeft(LAMBDA n, bit : 2 * n + bit, 0,
                      [i \in 1..b |-> IF i <= Len(s) THEN s[i] ELSE 0]),
   rest  |-> SubSeq(s, b + 1, Len(s))]

(***************************************************************************)
(* One of count values.                                                    *)
(***************************************************************************)
\* Mutant: the writer takes count for the largest value.
encodeLonger(s, i, count) == addInt(s, i, bitsOf[count])
encode(s, i, count) == addInt(s, i, bitsOf[count - 1])
\* Mutant: the reader takes count for the largest value.
decodeLonger(s, count) == getInt(s, bitsOf[count])
decode(s, count) == getInt(s, bitsOf[count - 1])

(***************************************************************************)
(* Positive numbers of any size.                                           *)
(***************************************************************************)
encodeEliasGamma(s, n) ==
  LET prefix == bitsOf[n]
  IN  addInt(addInt(addInt(s, 0, prefix - 1), 1, 1), n, prefix - 1)

decodeEliasGamma(s) ==
  LET zeroes == SelectInSeq(s, LAMBDA bit : bit = 1) - 1
      low    == getInt(SubSeq(s, zeroes + 2, Len(s)), zeroes)
  IN  [low EXCEPT !.value = @ + 2^zeroes]

encodeEliasDelta(s, n) ==
  LET prefix == bitsOf[n] IN addInt(encodeEliasGamma(s, prefix), n, prefix - 1)

decodeEliasDelta(s) ==
  LET prefix == decodeEliasGamma(s)
      low    == getInt(prefix.rest, prefix.value - 1)
  IN  [low EXCEPT !.value = @ + 2^(prefix.value - 1)]

signedToUnsigned(n) == (IF n < 0 THEN 2 * (-n) + 1 ELSE 2 * n) % 2^IntBits
unsignedToSigned(u) == IF u % 2 = 1 THEN -(u \div 2) ELSE u \div 2

(***************************************************************************)
(* Coordinates.  A conversion to long drops what is behind the point, on   *)
(* either side of zero.                                                    *)
(***************************************************************************)
Truncated(n, d) == IF n >= 0 THEN n \div d ELSE -((-n) \div d)

width(axis) == (axis.x2 - axis.x1) * axis.acc
bitsX(axis) == bitsOf[width(axis) - 1]

\* Mutant: the half is not added.
quantizeDown(axis, v) ==
  LET x == Truncated(v - axis.x1 * axis.acc * axis.fine, axis.fine)
  IN  IF x < 0 THEN 0 ELSE IF x > width(axis) THEN width(axis) - 1 ELSE x

quantize(axis, v) ==
  LET x == Truncated(2 * (v - axis.x1 * axis.acc * axis.fine) + axis.fine,
                     2 * axis.fine)
  IN  CASE x < 0           -> 0
        [] x > width(axis) -> width(axis) - 1
        [] OTHER           -> x

encodeVector(s, axis, v) == addInt(s, quantize(axis, v), bitsX(axis))
decodeVector(s, axis) ==
  LET x == getInt(s, bitsX(axis))
  IN  [x EXCEPT !.value = (@ + axis.x1 * axis.acc) * axis.fine]

(***************************************************************************)
(* A coordinate of a speed.                                                *)
(***************************************************************************)
quantizeDiff(fine, v) == Truncated(2 * v + fine, 2 * fine)
encodeDiff(s, fine, v) ==
  encodeEliasDelta(s, (signedToUnsigned(quantizeDiff(fine, v)) + 1) % 2^IntBits)
decodeDiff(s, fine) ==
  LET n == decodeEliasDelta(s)
  IN  [n EXCEPT !.value = unsignedToSigned(@ - 1) * fine]

(***************************************************************************)
(* Rect::isInside for one axis, and the encodable speeds: the code of      *)
(* others would be 0, which encodeEliasGamma does not take.                *)
(***************************************************************************)
isInside(axis, v) ==
  axis.x1 * axis.acc * axis.fine <= v /\ v < axis.x2 * axis.acc * axis.fine
IsEncodable(fine, v) ==
  quantizeDiff(fine, v) \in 2 - 2^(IntBits - 1) .. 2^(IntBits - 1) - 1

(***************************************************************************)
(* Where a coordinate ends up on the machine that reads it.                *)
(***************************************************************************)
Arrives(axis, v) == decodeVector(encodeVector(<<>>, axis, v), axis).value
=============================================================================
