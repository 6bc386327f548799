----------------------------- MODULE WkbFormat -----------------------------
(***************************************************************************)
(* What the reader and the writer of well-known binary share: the types    *)
(* of geometries and their numbers, geometries as values, and the fields a *)
(* stream is made of.  A field is a byte-order mark, a type number, an     *)
(* SRID, a count or an ordinate; the bytes of one are never looked into.   *)
(* An ordinate is a number that stands for a double.                       *)
(***************************************************************************)
EXTENDS Integers, Sequences

TypeNumber ==
    [Point |-> 1, Line |-> 2, Polygon |-> 3, MultiPoint |-> 4, MultiLine |-> 5,
     MultiPolygon |-> 6, Collection |-> 7, CircString |-> 8, Compound |-> 9,
     CurvePoly |-> 10, MultiCurve |-> 11, MultiSurface |-> 12,
     PolyhedralSurface |-> 15, Tin |-> 16, Triangle |-> 17]

Types == DOMAIN TypeNumber

LineTypes == {"Line", "CircString"}
SimpleTypes == LineTypes \cup {"Point", "Polygon", "Triangle"}

\* lwcollection_allows_subtype
Allows(type, sub) ==
    CASE type = "Collection" -> TRUE
      [] type = "MultiPoint" -> sub = "Point"
      [] type = "MultiLine" -> sub = "Line"
      [] type \in {"MultiPolygon", "PolyhedralSurface"} -> sub = "Polygon"
      [] type = "Compound" -> sub \in LineTypes
      [] type \in {"CurvePoly", "MultiCurve"} -> sub \in LineTypes \cup {"Compound"}
      [] type = "MultiSurface" -> sub \in {"Polygon", "CurvePoly"}
      [] type = "Tin" -> sub = "Triangle"
      [] OTHER -> FALSE

\* Points are tuples of ordinates, in rings; a line, a triangle and a point have
\* one ring, with one point or none for a point.  Collections have geoms.
Geometry(type, srid, z, m, rings, geoms) ==
    [type |-> type, srid |-> srid, z |-> z, m |-> m, rings |-> rings, geoms |-> geoms]

\* The constructors of empty geometries: polygons have no ring at all.
Empty(type, srid, z, m) ==
    Geometry(type, srid, z, m, IF type \in SimpleTypes \ {"Polygon"} THEN << <<>> >> ELSE <<>>, <<>>)

NDims(z, m) == 2 + (IF z THEN 1 ELSE 0) + (IF m THEN 1 ELSE 0)

NaN == 0

-----------------------------------------------------------------------------
Width == [mark |-> 1, type |-> 4, srid |-> 4, count |-> 4, ordinate |-> 8]

Kinds == DOMAIN Width

NDR == 1
XDR == 0

Field(kind, order, value, flags) ==
    [kind |-> kind, order |-> order, value |-> value, flags |-> flags]

Fields == [kind : Kinds, order : {NDR, XDR}, value : Int, flags : SUBSET {"Z", "M", "SRID"}]

=============================================================================
