------------------------------ MODULE TwkbOut ------------------------------
(***************************************************************************)
(* The writer of tiny well-known binary.  Ordinates are rounded, written   *)
(* as differences to the point before, and points that rounding made the   *)
(* same are left out, down to the number that the type needs.              *)
(*                                                                         *)
(* The state of a geometry that is being written: what is written of it,   *)
(* the box so far, the last point, and the IDs not yet written.            *)
(***************************************************************************)
EXTENDS Varint, WkbFormat, SequencesExt, FiniteSetsExt

CONSTANT
  Digits    \* decimals that ordinates have

ASSUME DigitsAssumption == Digits \in Nat

TwkbTypes == <<"Point", "Line", "Polygon", "MultiPoint", "MultiLine", "MultiPolygon", "Collection">>

MultiTypes == {"MultiPoint", "MultiLine", "MultiPolygon"}

NoBox == <<>>

Boxed(type, z, m, rings, geoms, box) ==
  [type |-> type, z |-> z, m |-> m, rings |-> rings, geoms |-> geoms, box |-> box]

RECURSIVE IsEmpty(_)

\* lwgeom_is_empty
IsEmpty(g) ==
  IF g.type \in SimpleTypes THEN g.rings = <<>> \/ g.rings[1] = <<>>
  ELSE \A i \in DOMAIN g.geoms : IsEmpty(g.geoms[i])

Dimensions(g) == NDims(g.z, g.m)

\* The precision of the k-th dimension.
PrecisionOf(prec, z, k) == IF k <= 2 THEN prec.xy ELSE IF k = 3 /\ z THEN prec.z ELSE prec.m

\* Units of an ordinate in one unit of the stream; the precision is not above Digits.
Step(precision) == 10 ^ (Digits - precision)

\* Bits of the second and the third header byte.
Bit == [bbox |-> 1, size |-> 2, idlist |-> 4, extended |-> 8, empty |-> 16]
DimBit == [z |-> 1, m |-> 2, prec_z |-> 4, prec_m |-> 32]

-----------------------------------------------------------------------------

NoIds == <<>>

Options(variant, prec, ids) == [variant |-> variant, prec |-> prec, ids |-> ids]

Far == Half - 1    \* INT64_MAX

Fresh(ids) ==
  [buf |-> <<>>, ids |-> ids, accum |-> <<0, 0, 0, 0>>,
   lo |-> <<Far, Far, Far, Far>>, hi |-> <<-Far, -Far, -Far, -Far>>]

\* The functions that go through the points, rings or members of a geometry.
RECURSIVE
  Refused(_, _), After(_, _, _, _, _, _), Rings(_, _, _, _), Multi(_, _, _, _), Members(_, _, _, _),
  WriteToBuffer(_, _, _)

Appended(ts, bytes) == [ts EXCEPT !.buf = @ \o bytes]

\* lwgeom_twkb_type; no other type is written.
TwkbType(g) ==
  CASE g.type = "Triangle" -> 3
    [] g.type = "Tin" -> 7
    [] OTHER -> CHOOSE n \in DOMAIN TwkbTypes : TwkbTypes[n] = g.type

Writable == {TwkbTypes[n] : n \in DOMAIN TwkbTypes} \cup {"Triangle", "Tin"}

\* The errors: a type or a precision that the header cannot express.
Refused(g, prec) ==
  \/ g.type \notin Writable
  \/ prec.xy \notin -7 .. 7
  \/ g.z /\ prec.z \notin 0 .. 7
  \/ g.m /\ prec.m \notin 0 .. 7
  \/ ~ IsEmpty(g) /\ \E i \in DOMAIN g.geoms : Refused(g.geoms[i], prec)

\* llround(factor * ordinate): to the nearest, halves away from zero.
Scaled(v, precision) ==
  LET step == Step(precision)
  IN  IF v >= 0 THEN (2 * v + step) \div (2 * step) ELSE - ((step - 2 * v) \div (2 * step))

-----------------------------------------------------------------------------
(* Points *)

\* Defect: room for one byte is made for a count that takes two.
ShortThroughBase(ring) == Len(ring) <= Base

\* A count of so few points takes one byte.
Short(ring) == Len(ring) <= Base - 1

\* The bytes from place i on are overwritten.
Overwritten(buf, i, bytes) ==
  [j \in DOMAIN buf |-> IF j - i + 1 \in DOMAIN bytes THEN bytes[j - i + 1] ELSE buf[j]]

\* The state after the first i points, with the deltas written, their number, and how
\* many points there will be at most.
After(i, ring, g, o, minpoints, ts) ==
  IF i = 0 THEN [ts |-> ts, deltas |-> <<>>, npoints |-> 0, left |-> Len(ring)]
  ELSE
    LET a == After(i - 1, ring, g, o, minpoints, ts)
        dims == 1 .. Dimensions(g)
        at == [k \in dims |-> Scaled(ring[i][k], PrecisionOf(o.prec, g.z, k))]
        delta == [k \in dims |-> at[k] - a.ts.accum[k]]
    IN  IF i > 1 /\ (\A k \in dims : delta[k] = 0) /\ a.left > minpoints
        THEN [a EXCEPT !.left = @ - 1]
        ELSE [a EXCEPT
                !.ts.accum = at \o SubSeq(@, Len(at) + 1, 4),
                !.ts.lo = [k \in 1..4 |-> IF k \in dims THEN Min({@[k], at[k]}) ELSE @[k]],
                !.ts.hi = [k \in 1..4 |-> IF k \in dims THEN Max({@[k], at[k]}) ELSE @[k]],
                !.deltas = @ \o FlattenSeq([k \in dims |-> EncodeS(delta[k])]),
                !.npoints = @ + 1]

\* ptarray_to_twkb_buf. The count of a short array is put where one byte was left for it.
PointArray(ring, g, o, register, minpoints, ts) ==
  LET a == After(Len(ring), ring, g, o, minpoints, ts)
      count == EncodeU[a.npoints]
  IN  CASE ring = <<>> /\ register -> Appended(ts, <<0>>)
        [] ~ register -> Appended(a.ts, a.deltas)
        [] Short(ring) /\ register ->
             [a.ts EXCEPT !.buf = Overwritten(@ \o <<0>> \o a.deltas, Len(@) + 1, count)]
        [] OTHER -> Appended(a.ts, count \o a.deltas)

-----------------------------------------------------------------------------
(* Geometries *)

Rings(i, g, o, ts) ==
  IF i = 0 THEN ts ELSE PointArray(g.rings[i], g, o, TRUE, 4, Rings(i - 1, g, o, ts))

\* lwpoint_to_twkb_buf, lwline_to_twkb_buf, lwtriangle_to_twkb_buf, lwpoly_to_twkb_buf
Simple(g, o, ts) ==
  CASE g.type = "Point" -> PointArray(g.rings[1], g, o, FALSE, 1, ts)
    [] g.type = "Line" -> PointArray(g.rings[1], g, o, TRUE, 2, ts)
    [] g.type = "Triangle" -> PointArray(g.rings[1], g, o, TRUE, 2, Appended(ts, <<1>>))
    [] g.type = "Polygon" -> Rings(Len(g.rings), g, o, Appended(ts, EncodeU[Len(g.rings)]))

\* The members that are written: a multipoint cannot have empty ones.
Shown(g) ==
  IF g.type = "MultiPoint" THEN {i \in DOMAIN g.geoms : ~ IsEmpty(g.geoms[i])} ELSE DOMAIN g.geoms

\* Number of members, and their IDs, which the members do not get to see.
Counted(g, ts) ==
  LET ids == [i \in DOMAIN g.geoms |->
                IF ts.ids # NoIds /\ i \in Shown(g) THEN EncodeS(ts.ids[i]) ELSE <<>>]
  IN  [Appended(ts, EncodeU[Cardinality(Shown(g))] \o FlattenSeq(ids)) EXCEPT !.ids = NoIds]

\* lwmulti_to_twkb_buf: members go on from the last point of the member before.
Multi(i, g, o, ts) ==
  CASE i = 0 -> Counted(g, ts)
    [] i \in Shown(g) -> Simple(g.geoms[i], o, Multi(i - 1, g, o, ts))
    [] OTHER -> Multi(i - 1, g, o, ts)

TypePrecByte(g, o) == TwkbType(g) + 16 * Zigzag(o.prec.xy)

When(condition, n) == IF condition THEN n ELSE 0

MetadataByte(g, o, ids) ==
  When("bbox" \in o.variant /\ ~ IsEmpty(g), Bit.bbox) + When("size" \in o.variant, Bit.size)
    + When(ids # NoIds /\ ~ IsEmpty(g), Bit.idlist) + When(g.z \/ g.m, Bit.extended)
    + When(IsEmpty(g), Bit.empty)

ExtendedBytes(g, o) ==
  IF ~ (g.z \/ g.m) THEN <<>>
  ELSE <<When(g.z, DimBit.z) + When(g.m, DimBit.m) + DimBit.prec_z * o.prec.z + DimBit.prec_m * o.prec.m>>

\* write_bbox, sizeof_bbox
BoxBytes(g, ts) ==
  FlattenSeq([k \in 1 .. Dimensions(g) |-> EncodeS(ts.lo[k]) \o EncodeS(ts.hi[k] - ts.lo[k])])

\* Defect: the size leaves out the box.
SizeBytesNoBox(o, box, body) ==
  IF "size" \in o.variant THEN EncodeU[Len(body)] ELSE <<>>

\* What follows the size: box and body.
SizeBytes(o, box, body) ==
  IF "size" \in o.variant THEN EncodeU[Len(box) + Len(body)] ELSE <<>>

\* The box of a member widens that of its collection.
Widened(ts, child) ==
  [ts EXCEPT !.lo = [k \in 1..4 |-> Min({@[k], child.lo[k]})],
             !.hi = [k \in 1..4 |-> Max({@[k], child.hi[k]})]]

\* lwcollection_to_twkb_buf
Members(i, g, o, ts) ==
  IF i = 0 THEN Counted(g, ts) ELSE WriteToBuffer(g.geoms[i], o, Members(i - 1, g, o, ts))

\* lwgeom_to_twkb_buf
ToBuffer(g, o, ts) ==
  CASE g.type \in SimpleTypes -> Simple(g, o, ts)
    [] g.type \in MultiTypes -> Multi(Len(g.geoms), g, o, ts)
    [] OTHER -> Members(Len(g.geoms), g, o, ts)

\* lwgeom_write_to_buffer
WriteToBuffer(g, o, parent) ==
  LET header == <<TypePrecByte(g, o), MetadataByte(g, o, parent.ids)>> \o ExtendedBytes(g, o)
      child == ToBuffer(g, o, Fresh(parent.ids))
      box == IF "bbox" \in o.variant THEN BoxBytes(g, child) ELSE <<>>
  IN  IF IsEmpty(g) THEN Appended(parent, header \o (IF "size" \in o.variant THEN <<0>> ELSE <<>>))
      ELSE Appended(Widened(parent, child), header \o SizeBytes(o, box, child.buf) \o box \o child.buf)

NoStream == <<>>

\* lwgeom_to_twkb_with_idlist; only collections have IDs.
ToTwkb(g, o) ==
  IF Refused(g, o.prec) \/ (o.ids # NoIds /\ g.type \in SimpleTypes) THEN NoStream
  ELSE WriteToBuffer(g, o, Fresh(o.ids)).buf

=============================================================================
