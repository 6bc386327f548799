----------------------------- MODULE MarkupOut -----------------------------
(***************************************************************************)
(* The writers of GeoJSON (lwout_geojson.c) and SVG (lwout_svg.c), in      *)
(* pairs of functions like those of GML, and of KML and X3D (lwout_kml.c,  *)
(* lwout_x3d.c).  The last two print into a buffer that grows, so there is *)
(* no room to compute; X3D lists the points of all lines or faces and says *)
(* by index which belong together.                                         *)
(***************************************************************************)
EXTENDS GmlOut

-----------------------------------------------------------------------------
(* GeoJSON *)

Object(text) == <<Open("{")>> \o text \o <<Close("}")>>
Array(text) == <<Open("[")>> \o text \o <<Close("]")>>
Listed(texts) == Joined(texts, <<Comma>>)

\* pointArray_geojson_size
JsonArrayRoom(g, ring, o) ==
  S(",[]") + (IF NDims(g.z, g.m) = 2
              THEN (OUT_MAX_DIGS_DOUBLE + o.precision + S(",")) * 2 * Len(ring)
              ELSE (OUT_MAX_DIGS_DOUBLE + o.precision + S(",,")) * 3 * Len(ring))

\* pointArray_to_geojson
JsonArray(g, ring) ==
  LET point(pt) == Array(Listed([k \in DOMAIN pt |-> <<Number(pt[k])>>]))
  IN  Listed([i \in DOMAIN ring |-> point(Shown(ring[i], g.z))])

\* asgeojson_srs_size
CrsRoom(o) ==
  IF o.srs = NoName THEN 0
  ELSE S("'crs':{'type':'name',") + S("'properties':{'name':''}},") + o.srs

\* asgeojson_bbox_size
JsonBoxRoom(g, o) ==
  IF ~ o.bbox THEN 0
  ELSE IF g.z THEN S("'bbox':[,,,,,],") + 6 * (OUT_MAX_DIGS_DOUBLE + o.precision)
              ELSE S("'bbox':[,,,],") + 4 * (OUT_MAX_DIGS_DOUBLE + o.precision)

\* asgeojson_bbox_buf
JsonBox(corners) ==
  <<Key("'bbox':")>>
    \o Array(Listed([i \in DOMAIN corners |-> Listed([k \in DOMAIN corners[i] |-> <<Raw(corners[i][k])>>])]))

\* The part every object begins with, up to what it holds.
Header(type, g, boxed, corners, o) ==
  <<Text("'type':''" \o type), Comma>>
    \o When(o.srs # NoName, <<Crs, Comma>>)
    \o When(o.bbox /\ boxed, Append(JsonBox(corners), Comma))

JsonType ==
  [Point |-> "Point", Line |-> "LineString", Triangle |-> "Polygon", Polygon |-> "Polygon",
   MultiPoint |-> "MultiPoint", MultiLine |-> "MultiLineString", MultiPolygon |-> "MultiPolygon"]

HeaderRoom(g, o) == S("{'type':'',") + Len(JsonType[g.type]) + CrsRoom(o) + JsonBoxRoom(g, o)

\* Room for the rings of a geometry, each in brackets of its own or not.
JsonRingsRoom(g, brackets, o) ==
  Total([i \in DOMAIN g.rings |-> JsonArrayRoom(g, g.rings[i], o) + brackets])

\* asgeojson_<type>_size
JsonRoom(g, o) ==
  LET n == Len(g.geoms)
      members(brackets) ==
        Total([i \in DOMAIN g.geoms |-> JsonRingsRoom(g.geoms[i], brackets, o)])
      inside ==
        CASE g.type = "Point" -> S("'coordinates':}") + JsonRingsRoom(g, 0, o)
                                   + (IF Ring(g) = <<>> THEN 2 ELSE 0)
          [] g.type = "Line" -> S("'coordinates':[]}") + JsonRingsRoom(g, 0, o)
          [] g.type = "Triangle" -> S("'coordinates':[[]]}") + JsonRingsRoom(g, 0, o)
          [] g.type = "Polygon" -> S("'coordinates':[") + JsonRingsRoom(g, S("[]"), o)
                                     + S(",") * Len(g.rings) + S("]}")
          [] g.type = "MultiPoint" -> S("'coordinates':[]}") + members(0) + S(",") * n
          [] g.type = "MultiLine" -> S("'coordinates':[]}") + members(S("[]")) + S(",") * n
          [] g.type = "MultiPolygon" -> S("'coordinates':[]}") + members(S("[]")) + S("[]") * n
                                          + S(",") * n + S("]}")
  IN  HeaderRoom(g, o) + inside

Rings(g) == Array(Listed([i \in DOMAIN g.rings |-> Array(JsonArray(g, g.rings[i]))]))

\* asgeojson_<type>_buf
JsonText(g, corners, o) ==
  LET members(Member(_)) == Array(Listed([i \in DOMAIN g.geoms |-> Member(g.geoms[i])]))
      bare(x) == JsonArray(x, Ring(x))
      bracketed(x) == Array(JsonArray(x, Ring(x)))
      inside ==
        CASE g.type = "Point" -> When(Ring(g) = <<>>, Array(<<>>)) \o bare(g)
          [] g.type = "Line" -> bracketed(g)
          [] g.type = "Triangle" -> Array(bracketed(g))
          [] g.type = "Polygon" -> Rings(g)
          [] g.type = "MultiPoint" -> members(bare)
          [] g.type = "MultiLine" -> members(bracketed)
          [] g.type = "MultiPolygon" -> members(Rings)
  IN  Object(Header(JsonType[g.type], g, TRUE, corners, o) \o <<Key("'coordinates':")>> \o inside)

\* Members say neither their reference system nor their box.
Member(o) == [o EXCEPT !.srs = NoName, !.bbox = FALSE]

\* asgeojson_collection_size
JsonCollectionRoom(g, o) ==
  S("{'type':'GeometryCollection',") + CrsRoom(o) + JsonBoxRoom(g, o) + S("'geometries':")
    + Total([i \in DOMAIN g.geoms |-> JsonRoom(g.geoms[i], Member(o))])
    + S(",") * Len(g.geoms) + S("]}")

\* asgeojson_collection_buf
JsonCollection(g, corners, o) ==
  Object(Header("GeometryCollection", g, g.geoms # <<>>, corners, o)
           \o <<Key("'geometries':")>>
           \o Array(Listed([i \in DOMAIN g.geoms |-> JsonText(g.geoms[i], corners, Member(o))])))

\* lwgeom_to_geojson
ToGeoJson(g, corners, given) ==
  LET o == IF given.precision > OUT_MAX_DOUBLE_PRECISION
           THEN [given EXCEPT !.precision = OUT_MAX_DOUBLE_PRECISION] ELSE given
  IN  CASE g.type \in DOMAIN JsonType -> Answer(JsonRoom(g, o), JsonText(g, corners, o))
        [] g.type \in {"Tin", "Collection"}
             /\ \A i \in DOMAIN g.geoms : g.geoms[i].type \in DOMAIN JsonType ->
             Answer(JsonCollectionRoom(g, o), JsonCollection(g, corners, o))
        [] OTHER -> Failure

-----------------------------------------------------------------------------
(* SVG: y grows downwards, a ring does not repeat its first point, and     *)
(* relative paths give the difference from the point before.               *)

\* pointArray_svg_size
SvgArrayRoom(ring, o) ==
  (OUT_MAX_DIGS_DOUBLE + o.precision + S(" ")) * 2 * Len(ring) + S(" L ")

SvgPair(x, y) == <<x, Text(" "), y>>

\* pointArray_svg_abs; closed: the last point is printed too.
SvgAbsolute(ring, closed) ==
  LET shown == IF closed THEN ring ELSE SubSeq(ring, 1, Len(ring) - 1)
      before(i) == CASE i = 1 -> <<>> [] i = 2 -> <<Text(" L ")>> [] OTHER -> <<Text(" ")>>
  IN  FlattenSeq([i \in DOMAIN shown |->
                    before(i) \o SvgPair(Number(shown[i][1]), Number(-shown[i][2]))])

\* pointArray_svg_rel
SvgRelative(ring, closed) ==
  LET shown == IF closed THEN ring ELSE SubSeq(ring, 1, Len(ring) - 1)
      step(i) == SvgPair(Difference(shown[i][1], shown[i - 1][1]),
                         Difference(shown[i - 1][2], shown[i][2]))
  IN  SvgPair(Number(ring[1][1]), Number(-ring[1][2])) \o <<Text(" l")>>
        \o FlattenSeq([i \in 1..(Len(shown) - 1) |-> <<Text(" ")>> \o step(i + 1)])

SvgPath(ring, closed, o) ==
  <<Text("M ")>> \o IF o.relative THEN SvgRelative(ring, closed) ELSE SvgAbsolute(ring, closed)

\* assvg_point_size, assvg_line_size, assvg_polygon_size
SvgRoom(g, o) ==
  CASE g.type = "Point" ->
         (OUT_MAX_DIGS_DOUBLE + o.precision) * 2
           + (IF o.relative THEN S("cx='' cy=''") ELSE S("x='' y=''"))
    [] g.type = "Line" -> S("M ") + SvgArrayRoom(Ring(g), o)
    [] g.type = "Polygon" ->
         Total([i \in DOMAIN g.rings |-> SvgArrayRoom(g.rings[i], o) + S(" ")])
           + S("M  Z") * Len(g.rings)

\* assvg_point_buf, assvg_line_buf, assvg_polygon_buf; for points "relative"
\* chooses the names of the attributes.
SvgText(g, o) ==
  LET attribute == IF o.relative THEN <<"x='", "' y='">> ELSE <<"cx='", "' cy='">>
  IN  CASE g.type = "Point" ->
             <<Text(attribute[1]), Number(Ring(g)[1][1]), Text(attribute[2]),
               Number(-Ring(g)[1][2]), Text("'")>>
        [] g.type = "Line" -> SvgPath(Ring(g), TRUE, o)
        [] g.type = "Polygon" ->
             Joined([i \in DOMAIN g.rings |->
                       SvgPath(g.rings[i], FALSE, o) \o <<Text(" Z")>>], <<Text(" ")>>)

SvgMulti == {"MultiPoint", "MultiLine", "MultiPolygon"}

\* assvg_multi<type>_size, assvg_collection_size, assvg_geom_size; without
\* members the first three take one separator off.
RECURSIVE SvgMembersRoom(_, _)
SvgMembersRoom(g, o) ==
  LET size == Total([i \in DOMAIN g.geoms |->
                IF g.geoms[i].type \in SvgMulti THEN SvgMembersRoom(g.geoms[i], o)
                ELSE SvgRoom(g.geoms[i], o)])
      separators == S(",") * (Len(g.geoms) - 1)
  IN  IF g.type = "Collection" /\ g.geoms = <<>> THEN 1 ELSE size + separators

\* assvg_multi<type>_buf, assvg_collection_buf, assvg_geom_buf
RECURSIVE SvgMembers(_, _)
SvgMembers(g, o) ==
  LET separator == CASE g.type = "MultiPoint" -> "," [] g.type = "Collection" -> ";"
                     [] OTHER -> " "
  IN  Joined([i \in DOMAIN g.geoms |->
                IF g.geoms[i].type \in SvgMulti THEN SvgMembers(g.geoms[i], o)
                ELSE SvgText(g.geoms[i], o)], <<Text(separator)>>)

\* lwgeom_to_svg
ToSvg(g, o) ==
  CASE IsEmpty(g) -> Answer(1, <<>>)
    [] g.type \in Plain -> Answer(SvgRoom(g, o), SvgText(g, o))
    [] g.type \in SvgMulti -> Answer(SvgMembersRoom(g, o), SvgMembers(g, o))
    [] g.type = "Collection"
         /\ \A i \in DOMAIN g.geoms : g.geoms[i].type \in Plain \cup SvgMulti ->
         Answer(SvgMembersRoom(g, o), SvgMembers(g, o))
    [] OTHER -> Failure

-----------------------------------------------------------------------------
(* KML *)

\* ptarray_to_kml2_sb; numbers are printed without lwprint_double.
KmlArray(g, ring) ==
  LET raw(p) == IF p.kind = "number" THEN Raw(p.s) ELSE p IN Mapped(raw, Array2(g, ring))

KmlBoundary(name, g, i) ==
  Element(name, Element("LinearRing", Element("coordinates", KmlArray(g, g.rings[i]))))

\* lwpoint_to_kml2_sb, lwline_to_kml2_sb
KmlSimple(g) ==
  Element(IF g.type = "Point" THEN "Point" ELSE "LineString",
          Element("coordinates", KmlArray(g, Ring(g))))

\* lwpoly_to_kml2_sb, lwtriangle_to_kml2_sb
KmlPoly(g) ==
  LET boundary(i) == KmlBoundary(IF i = 1 THEN "outerBoundaryIs" ELSE "innerBoundaryIs", g, i)
  IN  Element("Polygon", FlattenSeq([i \in DOMAIN g.rings |-> boundary(i)]))

KmlKnows(g) == g.type \in DOMAIN JsonType \cup {"Tin"}

\* lwcollection_to_kml2_sb
KmlText(g) ==
  LET simple(x) == IF x.type \in {"Polygon", "Triangle"} THEN KmlPoly(x) ELSE KmlSimple(x)
  IN  IF g.type \in SimpleTypes THEN simple(g)
      ELSE Element("MultiGeometry", FlattenSeq([i \in DOMAIN g.geoms |-> simple(g.geoms[i])]))

Unsized(text) == [room |-> NoName, text |-> text, result |-> "text"]

\* lwgeom_to_kml2
ToKml(g) ==
  CASE IsEmpty(g) -> NoText
    [] KmlKnows(g) -> Unsized(KmlText(g))
    [] OTHER -> Failure

-----------------------------------------------------------------------------
(* X3D *)

\* lwline_is_closed
IsClosed(g) == LET r == Ring(g) IN r # <<>> /\ Shown(r[1], g.z) = Shown(r[Len(r)], g.z)

\* ptarray_to_x3d3_sb; of a closed array the last point is left out.
X3dArray(g, ring, closed, o) ==
  Array3(g, IF closed THEN SubSeq(ring, 1, Len(ring) - 1) ELSE ring, o)

Apart == <<Text(" ")>>
Split == <<Text(" -1 ")>>

\* The indices of n points from first on.
Run(first, n) == Joined([k \in 1..n |-> <<Index(first + k - 1)>>], Apart)

\* Indices for parts with counts points each, one after the other; again says
\* of which parts the first point closes the list.
Indices(counts, again) ==
  LET first(i) == Total(SubSeq(counts, 1, i - 1))
  IN  Joined([i \in DOMAIN counts |->
                Run(first(i), counts[i]) \o When(again[i], Apart \o <<Index(first(i))>>)], Split)

\* asx3d3_mline_coordindex_sb
LineIndices(g) ==
  LET count(x) == Len(Ring(x)) - (IF IsClosed(x) THEN 1 ELSE 0)
  IN  Indices([i \in DOMAIN g.geoms |-> count(g.geoms[i])],
              [i \in DOMAIN g.geoms |-> IsClosed(g.geoms[i])])

AllRings(g) == FlattenSeq([i \in DOMAIN g.geoms |-> g.geoms[i].rings])

\* Defect: the numbering starts anew with every polygon.
PolyIndicesAnew(g) ==
  Joined([i \in DOMAIN g.geoms |->
            Indices([k \in DOMAIN g.geoms[i].rings |-> Len(g.geoms[i].rings[k]) - 1],
                    [k \in DOMAIN g.geoms[i].rings |-> FALSE])], Split)

\* asx3d3_mpoly_coordindex_sb
PolyIndices(g) ==
  Indices([k \in DOMAIN AllRings(g) |-> Len(AllRings(g)[k]) - 1],
          [k \in DOMAIN AllRings(g) |-> FALSE])

\* The loop over the patches of asx3d3_psurface_sb: outer rings only.
PatchIndices(g) ==
  Indices([i \in DOMAIN g.geoms |-> Len(Ring(g.geoms[i])) - 1],
          [i \in DOMAIN g.geoms |-> FALSE])

\* asx3d3_poly_sb
X3dPoly(g, o) ==
  Joined([i \in DOMAIN g.rings |-> X3dArray(g, g.rings[i], TRUE, o)], Apart)

Coordinates(text) == <<Start("Coordinate"), Text(" point='")>> \o text \o <<Text("' "), Done>>

\* The points of the members of a multi-geometry, each with a space after it.
X3dPoints(g, o) ==
  LET text(x) == CASE x.type = "Point" -> X3dArray(x, Ring(x), FALSE, o)
                   [] x.type = "Line" -> X3dArray(x, Ring(x), IsClosed(x), o)
                   [] OTHER -> X3dPoly(x, o)
  IN  FlattenSeq([i \in DOMAIN g.geoms |-> text(g.geoms[i]) \o Apart])

\* asx3d3_multi_sb; in two dimensions nothing opens the points of lines and
\* polygons.
X3dMulti(g, o) ==
  LET name == CASE g.type = "MultiLine" -> "IndexedLineSet"
                [] g.type = "MultiPolygon" -> "IndexedFaceSet"
                [] g.z -> "PointSet"
                [] OTHER -> "Polypoint2D"
      indices == CASE g.type = "MultiLine" -> LineIndices(g)
                   [] g.type = "MultiPolygon" -> PolyIndices(g)
                   [] OTHER -> <<>>
      indexed == When(g.type # "MultiPoint",
                      <<Text(" coordIndex='")>> \o indices \o <<Text("'")>>)
  IN  CASE g.z -> <<Start(name)>> \o indexed \o <<More>> \o Coordinates(X3dPoints(g, o))
                    \o <<Stop(name)>>
        [] ~ g.z /\ g.type = "MultiPoint" ->
             <<Start(name), Text(" point='")>> \o X3dPoints(g, o) \o <<Text("' "), Done>>
        [] OTHER -> <<Start(name)>> \o indexed \o <<More>> \o X3dPoints(g, o)
                      \o <<Text("' "), Done>>

\* Defect: the end of the points is taken for that of the surface.
X3dSurfaceOpen(g, o) ==
  <<Start("IndexedFaceSet"), Text(" coordIndex='")>> \o PatchIndices(g) \o <<Text("'"), More>>
    \o Coordinates(Joined([i \in DOMAIN g.geoms |-> X3dPoly(g.geoms[i], o)], Apart))

\* asx3d3_psurface_sb
X3dSurface(g, o) ==
  <<Start("IndexedFaceSet"), Text(" coordIndex='")>> \o PatchIndices(g) \o <<Text("'"), More>>
    \o Coordinates(Joined([i \in DOMAIN g.geoms |-> X3dPoly(g.geoms[i], o)], Apart))
    \o <<Stop("IndexedFaceSet")>>

\* asx3d3_tin_sb
X3dTin(g, o) ==
  <<Start("IndexedTriangleSet"), Text(" index='")>>
    \o Run(0, 3 * Len(g.geoms)) \o <<Text("'"), More>>
    \o Coordinates(Joined([i \in DOMAIN g.geoms |->
                             X3dArray(g.geoms[i], Ring(g.geoms[i]), TRUE, o)], Apart))
    \o <<Stop("IndexedTriangleSet")>>

\* asx3d3_line_sb; the count is that of all points.
X3dLine(g, o) ==
  <<Start("LineSet"), Text(" vertexCount='"), Index(Len(Ring(g))), Text("'"), More>>
    \o Coordinates(X3dArray(g, Ring(g), IsClosed(g), o)) \o <<Stop("LineSet")>>

RECURSIVE X3dMember(_, _)

\* asx3d3_collection_sb
X3dMember(g, o) ==
  CASE g.type = "Point" -> X3dArray(g, Ring(g), FALSE, o)
    [] g.type = "Line" -> X3dLine(g, o)
    [] g.type = "Polygon" -> X3dPoly(g, o)
    [] g.type = "Tin" -> X3dTin(g, o)
    [] g.type = "PolyhedralSurface" -> X3dSurface(g, o)
    [] g.type = "Collection" ->
         FlattenSeq([i \in DOMAIN g.geoms |-> Element("Shape", X3dMember(g.geoms[i], o))])
    [] OTHER -> X3dMulti(g, o)

RECURSIVE X3dKnows(_)
X3dKnows(g) ==
  CASE g.type = "Collection" -> \A i \in DOMAIN g.geoms : X3dKnows(g.geoms[i])
    [] OTHER -> g.type \in Plain \cup SvgMulti \cup {"Tin", "PolyhedralSurface"}

\* lwgeom_to_x3d3; a polygon is written as a multi-polygon.
ToX3d(g, o) ==
  CASE IsEmpty(g) -> Unsized(<<>>)
    [] g.type = "Triangle" -> Unsized(X3dArray(g, Ring(g), TRUE, o))
    [] g.type = "Polygon" ->
         Unsized(X3dMulti(Geometry("MultiPolygon", g.srid, g.z, g.m, <<>>, <<g>>), o))
    [] X3dKnows(g) -> Unsized(X3dMember(g, o))
    [] OTHER -> Failure

=============================================================================
