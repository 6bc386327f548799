------------------------------- MODULE Varint -------------------------------
(***************************************************************************)
(* Integers of variable length: each byte has a digit, least significant   *)
(* digits come first, and every byte but the last has its highest bit set. *)
(* Negative numbers are zigzagged among the others.  Numbers are machine   *)
(* words, of which half are negative when they have a sign.                *)
(***************************************************************************)
EXTENDS Integers, Sequences

CONSTANTS
  Base,   \* digits of a byte, 128 in the code; smaller ones make long numbers common
  Half    \* half of the number of words, 2^63 in the code

ASSUME BaseAssumption == Base \in Nat /\ Base > 1
ASSUME HalfAssumption == Half \in Nat \ {0}

Word == 2 * Half
Unsigned == 0 .. Word - 1          \* uint64_t
Signed == (- Half) .. (Half - 1)   \* int64_t

\* zigzag64; of an int64_t, it is a uint64_t.
Zigzag(v) == IF v >= 0 THEN 2 * v ELSE 2 * (-1 - v) + 1

\* unzigzag64; the sum is a uint64_t, and that of the largest one is zero.
Unzigzag(n) == IF n % 2 = 0 THEN n \div 2 ELSE - (((n + 1) % Word) \div 2)

\* _varint_u64_encode_buf
EncodeU[n \in Nat] ==
  IF n < Base THEN <<n>> ELSE <<Base + (n % Base)>> \o EncodeU[n \div Base]

\* varint_s64_encode_buf
EncodeS(v) == EncodeU[Zigzag(v)]

\* The bytes from p on that end a number.
Ends(bytes, p) == {i \in p .. Len(bytes) : bytes[i] < Base}

\* The last of them for the number at p.
EndAt(bytes, p) == CHOOSE i \in Ends(bytes, p) : \A j \in Ends(bytes, p) : i <= j

\* What the byte at e, the last one of a number, and the k bytes before it carry, for
\* k up to m.
Carried(bytes, e, m) ==
  LET last[k \in 0 .. m] ==
        IF k = 0 THEN bytes[e] ELSE (bytes[e - k] - Base) + Base * last[k - 1]
  IN  last

\* The number whose digits begin at p.
NumberAt(bytes, p) == Carried(bytes, EndAt(bytes, p), EndAt(bytes, p) - p)[EndAt(bytes, p) - p]

\* varint_size: the place after that number.
PastEnd(bytes, p) == EndAt(bytes, p) + 1

\* Defect: a number that is cut off is zero, and no error.
DecodeULenient(bytes, p) ==
  IF Ends(bytes, p) = {} THEN [ok |-> TRUE, value |-> 0, next |-> p]
  ELSE [ok |-> TRUE, value |-> NumberAt(bytes, p) % Word, next |-> PastEnd(bytes, p)]

\* varint_u64_decode: the number at p, of which a word is left, and the place after it.
\* Past the end it is an error, and no number is there.
DecodeU(bytes, p) ==
  IF Ends(bytes, p) = {} THEN [ok |-> FALSE, value |-> 0, next |-> p]
  ELSE [ok |-> TRUE, value |-> NumberAt(bytes, p) % Word, next |-> PastEnd(bytes, p)]

\* varint_s64_decode
DecodeS(bytes, p) == LET n == DecodeU(bytes, p) IN [n EXCEPT !.value = Unzigzag(@)]

=============================================================================
