----------------------------- MODULE SerialBody -----------------------------
(***************************************************************************)
(* Serialized geometries as PostGIS stores them: what the two versions of  *)
(* the format have in common.  A serialization is a header of eight bytes  *)
(* and words of four bytes each: an integer, a float, or half a double.    *)
(* A double that is read from anything but its two halves is garbled.      *)
(*                                                                         *)
(* Ordinates are integers that stand for doubles; the even ones are those  *)
(* that floats represent.                                                  *)
(***************************************************************************)
EXTENDS WkbFormat, SequencesExt, FiniteSetsExt

LwType ==
  [Point |-> 1, Line |-> 2, Polygon |-> 3, MultiPoint |-> 4, MultiLine |-> 5,
   MultiPolygon |-> 6, Collection |-> 7, CircString |-> 8, Compound |-> 9,
   CurvePoly |-> 10, MultiCurve |-> 11, MultiSurface |-> 12,
   PolyhedralSurface |-> 13, Triangle |-> 14, Tin |-> 15]

NoType == "none"
TypeOf(n) == IF \E t \in Types : LwType[t] = n THEN CHOOSE t \in Types : LwType[t] = n ELSE NoType

Collections == Types \ SimpleTypes

\* Bits of the flags byte in the header.
Z == 1
M == 2
BBOX == 4
GEODETIC == 8
EXTENDED == 16
SOLID == 32
VERSION == 64

When(condition, s) == IF condition THEN s ELSE <<>>
Total(s) == FoldSeq(LAMBDA n, sum : n + sum, 0, s)

-----------------------------------------------------------------------------
(* Words *)

Word(kind, value) == [kind |-> kind, value |-> value]
Int4(n) == <<Word("int", n)>>
Float(v) == <<Word("float", v)>>
Double(v) == <<Word("low", v), Word("high", v)>>

Garbled == -999

IntAt(data, i) == IF i \in DOMAIN data /\ data[i].kind = "int" THEN data[i].value ELSE Garbled
FloatAt(data, i) == IF i \in DOMAIN data /\ data[i].kind = "float" THEN data[i].value ELSE Garbled
DoubleAt(data, i) ==
  IF i \in DOMAIN data /\ i + 1 \in DOMAIN data
     /\ data[i] = Word("low", data[i].value) /\ data[i + 1] = Word("high", data[i].value)
  THEN data[i].value ELSE Garbled

-----------------------------------------------------------------------------
(* Geometries with what the library keeps beside them: the flags that are  *)
(* not about dimensions, and the box.  A box is a sequence of intervals.   *)

Lw(geom, geodetic, solid, box) == [geom |-> geom, geodetic |-> geodetic, solid |-> solid, box |-> box]

NoBox == <<>>

RECURSIVE PointsOf(_)
PointsOf(g) ==
  IF g.type \in Collections THEN FlattenSeq([i \in DOMAIN g.geoms |-> PointsOf(g.geoms[i])])
  ELSE FlattenSeq(g.rings)

RECURSIVE IsEmpty(_)

\* lwgeom_is_empty
IsEmpty(g) ==
  IF g.type \in Collections THEN \A i \in DOMAIN g.geoms : IsEmpty(g.geoms[i])
  ELSE g.rings = <<>> \/ g.rings[1] = <<>>

\* lwgeom_set_srid
RECURSIVE WithSrid(_, _)
WithSrid(g, srid) ==
  [g EXCEPT !.srid = srid, !.geoms = [i \in DOMAIN @ |-> WithSrid(@[i], srid)]]

\* lwgeom_needs_bbox
NeedsBox(g) ==
  CASE g.type = "Point" -> FALSE
    [] g.type = "Line" -> Len(PointsOf(g)) > 2
    [] g.type = "MultiPoint" -> Len(g.geoms) # 1
    [] g.type = "MultiLine" -> Len(g.geoms) # 1 \/ Len(PointsOf(g)) > 2
    [] OTHER -> TRUE

\* next_float_down, next_float_up, gbox_float_round
Down(v) == v - (v % 2)
Up(v) == v + (v % 2)
Rounded(box) == [k \in DOMAIN box |-> <<Down(box[k][1]), Up(box[k][2])>>]

\* A point of the sphere in three dimensions, in place of the trigonometry.
Geocentric(pt) == <<pt[1], pt[2], pt[1] + pt[2]>>

\* lwgeom_calculate_gbox; it fails for an empty geometry.
CalculatedBox(lw) ==
  LET points == PointsOf(lw.geom)
      placed == [i \in DOMAIN points |-> IF lw.geodetic THEN Geocentric(points[i]) ELSE points[i]]
      on(k) == {placed[i][k] : i \in DOMAIN placed}
  IN  IF points = <<>> THEN NoBox
      ELSE [k \in DOMAIN placed[1] |-> <<Min(on(k)), Max(on(k))>>]

\* Intervals in the box of a serialization.
NDimsBox(flags) == IF GEODETIC \in flags THEN 3 ELSE NDims(Z \in flags, M \in flags)

\* gserialized_box_size, gbox_serialized_size; in words.
BoxWords(flags) == IF GEODETIC \in flags THEN 6 ELSE 2 * NDims(Z \in flags, M \in flags)

-----------------------------------------------------------------------------
(* Sizes, in bytes *)

PointsSize(g, ring) == Len(ring) * NDims(g.z, g.m) * 8

RECURSIVE BodySize(_)

\* from_lwpoint_size and its siblings, from_any_size
BodySize(g) ==
  CASE g.type = "Polygon" ->
         8 + (IF Len(g.rings) % 2 = 1 THEN 4 ELSE 0)
           + Total([i \in DOMAIN g.rings |-> 4 + PointsSize(g, g.rings[i])])
    [] g.type \in Collections -> 8 + Total([i \in DOMAIN g.geoms |-> BodySize(g.geoms[i])])
    [] OTHER -> 8 + PointsSize(g, g.rings[1])

-----------------------------------------------------------------------------
(* Writing *)

Ordinates(ring) ==
  FlattenSeq([i \in DOMAIN ring |-> FlattenSeq([k \in DOMAIN ring[i] |-> Double(ring[i][k])])])

Counted(g, n) == Int4(LwType[g.type]) \o Int4(n)

\* from_lwpoint, from_lwline, from_lwtriangle, from_lwcircstring
PointsBody(g) == Counted(g, Len(g.rings[1])) \o Ordinates(g.rings[1])

\* Defect: the counts of an odd number of rings are not filled up.
PolygonBodyNoPadding(g) ==
  Counted(g, Len(g.rings)) \o FlattenSeq([i \in DOMAIN g.rings |-> Int4(Len(g.rings[i]))])
    \o FlattenSeq([i \in DOMAIN g.rings |-> Ordinates(g.rings[i])])

\* from_lwpoly; after an odd number of counts one word keeps the doubles aligned.
PolygonBody(g) ==
  Counted(g, Len(g.rings))
    \o FlattenSeq([i \in DOMAIN g.rings |-> Int4(Len(g.rings[i]))])
    \o When(Len(g.rings) % 2 = 1, Int4(0))
    \o FlattenSeq([i \in DOMAIN g.rings |-> Ordinates(g.rings[i])])

RECURSIVE Body(_)

\* from_lwcollection, from_lwgeom_any
Body(g) ==
  CASE g.type = "Polygon" -> PolygonBody(g)
    [] g.type \in Collections ->
         Counted(g, Len(g.geoms)) \o FlattenSeq([i \in DOMAIN g.geoms |-> Body(g.geoms[i])])
    [] OTHER -> PointsBody(g)

\* from_gbox
BoxBody(box) == FlattenSeq([k \in DOMAIN box |-> Float(Down(box[k][1])) \o Float(Up(box[k][2]))])

-----------------------------------------------------------------------------
(* Reading: the geometry and the word after it. *)

PointAt(data, i, ndims) == [k \in 1..ndims |-> DoubleAt(data, i + 2 * (k - 1))]
PointsAt(data, i, n, ndims) == [j \in 1..n |-> PointAt(data, i + 2 * ndims * (j - 1), ndims)]

NoGeometry == Empty(NoType, 0, FALSE, FALSE)
Made(g, next) == [geom |-> g, next |-> next]

\* lwpoint_from_buffer, lwline_from_buffer, lwtriangle_from_buffer,
\* lwcircstring_from_buffer
ReadPoints(data, p, type, srid, z, m) ==
  LET n == IntAt(data, p + 1)
      ring == PointsAt(data, p + 2, n, NDims(z, m))
  IN  Made(Geometry(type, srid, z, m, <<ring>>, <<>>), p + 2 + 2 * NDims(z, m) * n)

\* lwpoly_from_buffer
ReadPolygon(data, p, srid, z, m) ==
  LET nrings == IntAt(data, p + 1)
      size(i) == IntAt(data, p + 1 + i)
      start[i \in 1 .. nrings + 1] ==
        IF i = 1 THEN p + 2 + nrings + (nrings % 2)
        ELSE start[i - 1] + 2 * NDims(z, m) * size(i - 1)
      rings == [i \in 1..nrings |-> PointsAt(data, start[i], size(i), NDims(z, m))]
  IN  Made(Geometry("Polygon", srid, z, m, rings, <<>>), start[nrings + 1])

RECURSIVE ReadBody(_, _, _, _, _), ReadMembers(_, _, _, _, _, _, _)

\* The rest of a collection's members, n of them.
ReadMembers(data, p, n, type, srid, z, m) ==
  IF n = 0 THEN [geoms |-> <<>>, next |-> p]
  ELSE LET first == ReadBody(data, p, srid, z, m)
           rest == ReadMembers(data, first.next, n - 1, type, srid, z, m)
       IN  [geoms |-> <<first.geom>> \o rest.geoms, next |-> rest.next]

\* lwcollection_from_buffer, from_buffer; a member that its collection does not allow
\* ends the reading.
ReadBody(data, p, srid, z, m) ==
  LET type == TypeOf(IntAt(data, p))
  IN  CASE type = NoType -> Made(NoGeometry, p)
        [] type = "Polygon" -> ReadPolygon(data, p, srid, z, m)
        [] type \in Collections ->
             LET members == ReadMembers(data, p + 2, IntAt(data, p + 1), type, srid, z, m)
             IN  IF \A i \in DOMAIN members.geoms : Allows(type, members.geoms[i].type)
                 THEN Made(Geometry(type, srid, z, m, <<>>, members.geoms), members.next)
                 ELSE Made(NoGeometry, p)
        [] OTHER -> ReadPoints(data, p, type, srid, z, m)

\* read_gbox_p: n intervals from word i on.
BoxFrom(data, i, n) ==
  [k \in 1..n |-> <<FloatAt(data, i + 2 * (k - 1)), FloatAt(data, i + 2 * k - 1)>>]

-----------------------------------------------------------------------------
(* Looking without reading; p is the first word of the body. *)

RECURSIVE EmptyAt(_, _), EmptyFrom(_, _, _)

\* is_empty_recurse for the n members from p on; it stops at the first that has
\* points and goes over the others by eight bytes or by what their members take.
EmptyFrom(data, p, n) ==
  IF n = 0 THEN [empty |-> TRUE, next |-> p]
  ELSE LET first == EmptyAt(data, p)
       IN  IF first.empty THEN EmptyFrom(data, first.next, n - 1) ELSE first

EmptyAt(data, p) ==
  IF TypeOf(IntAt(data, p)) \in Collections THEN EmptyFrom(data, p + 2, IntAt(data, p + 1))
  ELSE [empty |-> IntAt(data, p + 1) = 0, next |-> p + 2]

\* Defect: the exact box, which is not the one that would be stored.
BoxAtExact(data, i, n, ndims) ==
  LET on(k) == {DoubleAt(data, i + 2 * (k - 1) + 2 * ndims * (j - 1)) : j \in 1..n}
  IN  [k \in 1..ndims |-> <<Min(on(k)), Max(on(k))>>]

\* The box of the n points of which the first is at word i, as floats.
BoxAt(data, i, n, ndims) ==
  LET on(k) == {DoubleAt(data, i + 2 * (k - 1) + 2 * ndims * (j - 1)) : j \in 1..n}
  IN  Rounded([k \in 1..ndims |-> <<Min(on(k)), Max(on(k))>>])

\* peek_gbox_p: of a point, a line of two points, or a collection that has just one
\* of them.
PeekBox(flags, data, p) ==
  LET type == TypeOf(IntAt(data, p))
      count == IntAt(data, p + 1)
      inner == IntAt(data, p + 3)
      ndims == NDims(Z \in flags, M \in flags)
  IN  CASE {GEODETIC, BBOX} \cap flags # {} -> NoBox
        [] type = "Point" /\ count # 0 -> BoxAt(data, p + 2, 1, ndims)
        [] type = "Line" /\ count = 2 -> BoxAt(data, p + 2, 2, ndims)
        [] type = "MultiPoint" /\ count = 1 /\ inner = 1 -> BoxAt(data, p + 4, 1, ndims)
        [] type = "MultiLine" /\ count = 1 /\ inner = 2 -> BoxAt(data, p + 4, 2, ndims)
        [] OTHER -> NoBox

\* peek_first_point; only points are implemented.
PeekFirst(flags, data, p) ==
  IF IntAt(data, p) = LwType["Point"] /\ IntAt(data, p + 1) # 0
  THEN PointAt(data, p + 2, NDims(Z \in flags, M \in flags)) ELSE <<>>

=============================================================================
