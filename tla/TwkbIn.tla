------------------------------- MODULE TwkbIn -------------------------------
(***************************************************************************)
(* The reader of tiny well-known binary.  One state goes through all       *)
(* functions; a header inside a collection replaces what the header of the *)
(* collection left there.  An error ends the reading: what is read after   *)
(* it is nothing and leads nowhere.                                        *)
(***************************************************************************)
EXTENDS TwkbOut

NoHeader ==
  [type |-> 0, has |-> {}, prec |-> [xy |-> 0, z |-> 0, m |-> 0], z |-> FALSE, m |-> FALSE, size |-> 0]

Start(bytes, check) ==
  [bytes |-> bytes, pos |-> 1, ok |-> TRUE, check |-> check, h |-> NoHeader,
   coords |-> <<0, 0, 0, 0>>, value |-> 0, beyond |-> FALSE]

\* What goes through n numbers, points, rings or members.
RECURSIVE Skipped(_, _), Varints(_, _), Points(_, _), RingsIn(_, _), MembersIn(_, _, _), FromState(_)

Failed(s) == [s EXCEPT !.ok = FALSE, !.value = 0]

\* twkb_parse_state_advance, with what was read.
Advance(s, next, value) ==
  IF next > Len(s.bytes) + 1 THEN Failed(s) ELSE [s EXCEPT !.pos = next, !.value = value]

\* What is read where nothing was written: whatever the memory holds.
Leftover == -999999

\* The byte at the position, which is read whether or not it belongs to the stream.
ReadAt(s) ==
  IF s.pos \in DOMAIN s.bytes THEN [s EXCEPT !.value = s.bytes[s.pos]]
  ELSE [s EXCEPT !.value = Leftover, !.beyond = TRUE]

\* byte_from_twkb_state; it is tested after it is read.
Byte(s) == IF s.ok THEN Advance(ReadAt(s), s.pos + 1, ReadAt(s).value) ELSE Failed(s)

Decoded(s, n) == IF s.ok /\ n.ok THEN Advance(s, n.next, n.value) ELSE Failed(s)

\* twkb_parse_state_uvarint
Uvarint(s) == Decoded(s, DecodeU(s.bytes, s.pos))

\* twkb_parse_state_varint
Varint(s) == [Uvarint(s) EXCEPT !.value = Unzigzag(@)]

\* n of them, with their values.
Varints(s, n) ==
  IF n = 0 THEN [s |-> s, values |-> <<>>]
  ELSE LET before == Varints(s, n - 1)
           add(read) == [s |-> read, values |-> Append(before.values, read.value)]
       IN  add(Varint(before.s))

\* twkb_parse_state_varint_skip, n times.
Skipped(s, n) ==
  IF n = 0 THEN s
  ELSE LET before == Skipped(s, n - 1)
       IN  IF before.ok /\ Ends(s.bytes, before.pos) # {}
           THEN Advance(before, PastEnd(s.bytes, before.pos), 0) ELSE Failed(before)

\* A bit of a byte.
Set(byte, bit) == (byte \div bit) % 2 = 1

TypeIn(s) ==
  [s EXCEPT !.h = [NoHeader EXCEPT !.type = s.value % 16, !.prec.xy = Unzigzag((s.value \div 16) % 16)]]

FlagsIn(s) == [s EXCEPT !.h.has = {f \in DOMAIN Bit : Set(s.value, Bit[f])}]

ExtendedIn(s) ==
  [s EXCEPT !.h.z = Set(s.value, DimBit.z), !.h.prec.z = (s.value \div DimBit.prec_z) % 8,
            !.h.m = Set(s.value, DimBit.m), !.h.prec.m = (s.value \div DimBit.prec_m) % 8]

DimsIn(s) == IF "extended" \in s.h.has THEN ExtendedIn(Byte(s)) ELSE s

WithSize(s) == [s EXCEPT !.h.size = s.value]
SizeIn(s) == IF "size" \in s.h.has THEN WithSize(Uvarint(s)) ELSE s

Known(s) == IF s.h.type \in DOMAIN TwkbTypes THEN s ELSE Failed(s)

\* header_from_twkb_state
Header(s) == Known(SizeIn(DimsIn(FlagsIn(Byte(TypeIn(Byte(s)))))))

Value(n, h, k) == n * Step(PrecisionOf(h.prec, h.z, k))

Dims(s) == NDims(s.h.z, s.h.m)

\* A box of intervals, each a least value and a length.
Box(read) ==
  [s |-> read.s,
   box |-> [k \in 1 .. Dims(read.s) |->
              LET least == Value(read.values[2 * k - 1], read.s.h, k)
              IN  <<least, least + Value(read.values[2 * k], read.s.h, k)>>]]

Interval(s) == Box(Varints(s, 2 * Dims(s)))

Empties(s, type) == Boxed(type, s.h.z, s.h.m, Empty(type, 0, FALSE, FALSE).rings, <<>>, NoBox)
Whole(s, type, rings) == [s |-> s, geom |-> Boxed(type, s.h.z, s.h.m, rings, <<>>, NoBox)]

-----------------------------------------------------------------------------
(* Points *)

\* Each ordinate of a point adds to the one before it in its dimension.
Coords(read) ==
  [read.s EXCEPT !.coords = [k \in 1..4 |-> @[k] + (IF k \in DOMAIN read.values THEN read.values[k] ELSE 0)]]

WithPoint(ring, s) ==
  [s |-> s, ring |-> Append(ring, [k \in 1 .. Dims(s) |-> Value(s.coords[k], s.h, k)])]

\* ptarray_from_twkb_state
Points(s, n) ==
  IF n = 0 THEN [s |-> s, ring |-> <<>>]
  ELSE LET before == Points(s, n - 1)
       IN  WithPoint(before.ring, Coords(Varints(before.s, Dims(before.s))))

PointsOn(count) == Points(count, count.value)
CountedPoints(s) == PointsOn(Uvarint(s))

OnePoint(read) == Whole(read.s, "Point", <<read.ring>>)

\* lwpoint_from_twkb_state
Point(s) ==
  IF "empty" \in s.h.has THEN [s |-> s, geom |-> Empties(s, "Point")] ELSE OnePoint(Points(s, 1))

OneLine(read) ==
  Whole(IF read.s.check /\ Len(read.ring) = 1 THEN Failed(read.s) ELSE read.s, "Line", <<read.ring>>)

\* lwline_from_twkb_state
Line(s) ==
  IF "empty" \in s.h.has THEN [s |-> s, geom |-> Empties(s, "Line")] ELSE OneLine(CountedPoints(s))

\* Open rings get their first point once more; an empty one, which is not closed either,
\* has no first point and gets one that nobody has set.
Closed(ring, ndims) ==
  CASE ring = <<>> -> <<[k \in 1 .. ndims |-> Leftover]>>
    [] ring # <<>> /\ SubSeq(ring[1], 1, 2) = SubSeq(ring[Len(ring)], 1, 2) -> ring
    [] OTHER -> Append(ring, ring[1])

\* Too short rings are refused, if the checks are on.
WithRing(rings, read) ==
  LET ring == Closed(read.ring, Dims(read.s))
  IN  IF read.s.check /\ Len(ring) < 4 THEN [s |-> Failed(read.s), rings |-> rings]
      ELSE [s |-> read.s, rings |-> Append(rings, ring)]

\* The first n rings.
RingsIn(s, n) ==
  IF n = 0 THEN [s |-> s, rings |-> <<>>]
  ELSE LET before == RingsIn(s, n - 1) IN WithRing(before.rings, CountedPoints(before.s))

OnePolygon(read) == Whole(read.s, "Polygon", read.rings)
RingsOn(nrings) == RingsIn(nrings, nrings.value)

\* lwpoly_from_twkb_state
Poly(s) ==
  IF "empty" \in s.h.has THEN [s |-> s, geom |-> Empties(s, "Polygon")] ELSE OnePolygon(RingsOn(Uvarint(s)))

-----------------------------------------------------------------------------
(* Collections *)

\* A member of a collection has a header of its own.
Member(s, type) ==
  CASE type = "MultiPoint" -> Point(s)
    [] type = "MultiLine" -> Line(s)
    [] type = "MultiPolygon" -> Poly(s)
    [] OTHER -> FromState(s)

\* The first n members.
MembersIn(s, type, n) ==
  IF n = 0 THEN [s |-> s, geoms |-> <<>>]
  ELSE LET before == MembersIn(s, type, n - 1)
           add(read) == [s |-> read.s, geoms |-> Append(before.geoms, read.geom)]
       IN  IF ~ before.s.ok THEN before ELSE add(Member(before.s, type))

\* Past the IDs.
PastIds(count) == IF "idlist" \in count.h.has THEN Skipped(count, count.value) ELSE count

MembersOn(count, type) == MembersIn(PastIds(count), type, count.value)
Collected(z, m, type, read) == [s |-> read.s, geom |-> Boxed(type, z, m, <<>>, read.geoms, NoBox)]

\* lwmultipoint_from_twkb_state, lwmultiline_from_twkb_state,
\* lwmultipoly_from_twkb_state, lwcollection_from_twkb_state
Several(s, type) ==
  IF "empty" \in s.h.has THEN [s |-> s, geom |-> Empties(s, type)]
  ELSE Collected(s.h.z, s.h.m, type, MembersOn(Uvarint(s), type))

\* A header; the differences start anew.
Headed(s) == [Header(s) EXCEPT !.coords = <<0, 0, 0, 0>>]

AfterHeader(s) == IF "bbox" \in s.h.has THEN Interval(s) ELSE [s |-> s, box |-> NoBox]

OfType(s, type) ==
  CASE type = "Point" -> Point(s)
    [] type = "Line" -> Line(s)
    [] type = "Polygon" -> Poly(s)
    [] OTHER -> Several(s, type)

AfterBox(boxed) == [OfType(boxed.s, TwkbTypes[boxed.s.h.type]) EXCEPT !.geom.box = boxed.box]

FromHeader(headed) ==
  IF ~ headed.ok THEN [s |-> headed, geom |-> Empties(headed, "Point")] ELSE AfterBox(AfterHeader(headed))

\* lwgeom_from_twkb_state
FromState(s) == FromHeader(Headed(s))

\* lwgeom_from_twkb
FromTwkb(bytes, check) == FromState(Start(bytes, check))

=============================================================================
