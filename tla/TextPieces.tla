----------------------------- MODULE TextPieces -----------------------------
(***************************************************************************)
(* What the writers of text have in common: a text is the sequence of the  *)
(* pieces it is printed from, each with its length; a piece opens or       *)
(* closes something, separates, or shows a number.                         *)
(*                                                                         *)
(* Ordinates are integers in the order of the doubles they stand for;      *)
(* Digits says how each is spelled.                                        *)
(***************************************************************************)
EXTENDS WkbFormat, SequencesExt

CONSTANT
  Digits    \* per magnitude: digits before the decimal point and after it

NoName == -1   \* in place of a name's length: a NULL pointer

Magnitude(v) == IF v < 0 THEN -v ELSE v

RECURSIVE TotalIn(_, _, _)

\* By halves: texts are long.
TotalIn(s, first, last) ==
  LET middle == (first + last) \div 2
  IN  CASE first > last -> 0
        [] first = last -> s[first]
        [] first < last -> TotalIn(s, first, middle) + TotalIn(s, middle + 1, last)

Total(s) == TotalIn(s, 1, Len(s))

-----------------------------------------------------------------------------
(* Numbers *)

OUT_MAX_DOUBLE_PRECISION == 15
OUT_MAX_DIGS_DOUBLE == 22

\* From 10^15 on numbers are printed with an exponent.
Large(v) == Digits[Magnitude(v)].ndd > OUT_MAX_DOUBLE_PRECISION

\* Zeros at the end of a text with a decimal point, exponent included.
TrimmedZeros(v) ==
  LET d == Digits[Magnitude(v)]
      exponent == d.ndd - 1
  IN  CASE d.dec = 0 -> 0
        [] exponent % 100 = 0 -> 2
        [] exponent % 10 = 0 -> 1
        [] OTHER -> 0

\* Decimals lwprint_double asks for; printf takes a negative number for six.
Decimals(v, precision) ==
  LET ndd == Digits[Magnitude(v)].ndd
      maxdd == IF precision > OUT_MAX_DOUBLE_PRECISION - ndd THEN precision - ndd ELSE precision
  IN  IF maxdd < 0 THEN 6 ELSE maxdd

Fraction(n) == IF n > 0 THEN 1 + n ELSE 0

\* Length of v printed without an exponent.
FixedLength(v, decimals) ==
  LET ndd == Digits[Magnitude(v)].ndd
  IN  (IF v < 0 THEN 1 ELSE 0) + (IF ndd = 0 THEN 1 ELSE ndd) + Fraction(decimals)

\* Length of v printed with its exponent.
ExponentLength(v) ==
  (IF v < 0 THEN 1 ELSE 0) + 5 + Fraction(Digits[Magnitude(v)].dec) - TrimmedZeros(v)

\* lwprint_double
NumberLength(v, precision) ==
  LET dec == Digits[Magnitude(v)].dec
      asked == Decimals(v, precision)
  IN  IF Large(v) THEN ExponentLength(v)
      ELSE FixedLength(v, IF dec < asked THEN dec ELSE asked)

LongestNumber(precision) ==
  LET lengths == {NumberLength(-v, precision) : v \in DOMAIN Digits}
  IN  CHOOSE n \in lengths : \A k \in lengths : k <= n

-----------------------------------------------------------------------------
(* Pieces *)

Start(name) == [kind |-> "start", s |-> name]     \* <name
Stop(name) == [kind |-> "stop", s |-> name]       \* </name>
More == [kind |-> "more", s |-> ">"]
Done == [kind |-> "done", s |-> "/>"]
Srs == [kind |-> "srs", s |-> " srsName=''"]
Id == [kind |-> "id", s |-> " id=''"]
Dimension == [kind |-> "text", s |-> " srsDimension='2'"]
Text(s) == [kind |-> "text", s |-> s]

Open(s) == [kind |-> "open", s |-> s]
Close(s) == [kind |-> "close", s |-> s]
Comma == [kind |-> "comma", s |-> ","]
Key(s) == [kind |-> "key", s |-> s]
Crs == [kind |-> "crs", s |-> "'crs':{'type':'name','properties':{'name':''}}"]

Number(v) == [kind |-> "number", s |-> v]             \* by lwprint_double
Raw(v) == [kind |-> "raw", s |-> v]                   \* by %.*f
Difference(v, w) == [kind |-> "difference", s |-> <<v, w>>]
Index(n) == [kind |-> "index", s |-> n]

Numeric == {"number", "raw", "difference", "index"}

\* Length of a piece; names that come from outside have theirs in the options.
PieceLength(p, o) ==
  CASE p.kind \in {"start", "stop"} -> Len(p.s) + o.prefix + (IF p.kind = "start" THEN 1 ELSE 3)
    [] p.kind \in {"srs", "crs"} -> Len(p.s) + o.srs
    [] p.kind = "id" -> Len(p.s) + o.prefix + o.id
    [] p.kind = "number" -> NumberLength(p.s, o.precision)
    [] p.kind = "raw" -> FixedLength(p.s, o.precision)
    [] p.kind = "difference" -> LongestNumber(o.precision)
    [] p.kind = "index" -> IF p.s > 9 THEN 2 ELSE 1
    [] OTHER -> Len(p.s)

Length(text, o) == Total([i \in DOMAIN text |-> PieceLength(text[i], o)])

\* The texts of a sequence of parts, with a separator between them.
Joined(texts, separator) ==
  FlattenSeq([i \in DOMAIN texts |-> IF i = 1 THEN texts[i] ELSE separator \o texts[i]])

Mapped(Op(_), s) == [i \in DOMAIN s |-> Op(s[i])]

When(condition, text) == IF condition THEN text ELSE <<>>

-----------------------------------------------------------------------------
(* Geometries *)

Collections == Types \ SimpleTypes

RECURSIVE IsEmpty(_)

\* lwgeom_is_empty
IsEmpty(g) ==
  IF g.type \in Collections THEN \A i \in DOMAIN g.geoms : IsEmpty(g.geoms[i])
  ELSE \/ g.rings = <<>>
       \/ g.rings[1] = <<>>

\* The ordinates a writer shows of a point.
Shown(pt, z) == IF z THEN SubSeq(pt, 1, 3) ELSE SubSeq(pt, 1, 2)

RECURSIVE PointsOf(_)

\* The points of a geometry in the order they are stored.
PointsOf(g) ==
  IF g.type \in Collections THEN FlattenSeq([i \in DOMAIN g.geoms |-> PointsOf(g.geoms[i])])
  ELSE FlattenSeq(g.rings)

=============================================================================
