------------------------------- MODULE GmlOut -------------------------------
(***************************************************************************)
(* The writers of GML 2 and 3 (lwout_gml.c).  Every geometry has two       *)
(* functions: one that adds up the room its text may take, one that prints *)
(* it into a block of that size.  o holds what a caller chooses: the       *)
(* lengths of the namespace prefix, the name of the reference system and   *)
(* the id, the precision, and the options.                                 *)
(***************************************************************************)
EXTENDS TextPieces

S(s) == Len(s) + 1     \* sizeof of a string

SrsRoom(o) == IF o.srs = NoName THEN 0 ELSE o.srs + S(" srsName=..")
IdRoom(o) == IF o.id = NoName THEN 0 ELSE o.id + o.prefix + S(" id=..")
DimsRoom(o) == IF o.dims THEN S(" srsDimension='x'") ELSE 0

\* A size that counts an opening and a closing element by twice one of them.
Twice(s, names, o) == (S(s) + names * o.prefix) * 2

SrsText(o) == When(o.srs # NoName, <<Srs>>)
IdText(o) == When(o.id # NoName, <<Id>>)
DimsText(o) == When(o.dims, <<Dimension>>)

NoSrs(o) == [o EXCEPT !.srs = NoName]

Opened(name) == <<Start(name), More>>
Element(name, text) == Opened(name) \o text \o <<Stop(name)>>

-----------------------------------------------------------------------------
(* Arrays of points *)

\* Defect: the third ordinate is not counted.
ArrayRoomFlat(g, ring, o) ==
  (OUT_MAX_DIGS_DOUBLE + o.precision + S(", ")) * 2 * Len(ring)

\* pointArray_GMLsize
ArrayRoom(g, ring, o) ==
  (OUT_MAX_DIGS_DOUBLE + o.precision + S(", "))
    * (IF NDims(g.z, g.m) = 2 THEN 2 ELSE 3) * Len(ring)

\* pointArray_toGML2
Array2(g, ring) ==
  Joined([i \in DOMAIN ring |->
            Joined([k \in DOMAIN Shown(ring[i], g.z) |-> <<Number(ring[i][k])>>], <<Text(",")>>)],
         <<Text(" ")>>)

\* In GML 3 the first two ordinates may change places.
Swapped(pt) == <<pt[2], pt[1]>> \o SubSeq(pt, 3, Len(pt))

\* pointArray_toGML3
Array3(g, ring, o) ==
  LET shown(pt) == Shown(IF o.degree THEN Swapped(pt) ELSE pt, g.z)
  IN  Joined([i \in DOMAIN ring |->
                Joined([k \in DOMAIN shown(ring[i]) |-> <<Number(shown(ring[i])[k])>>],
                       <<Text(" ")>>)],
             <<Text(" ")>>)

RingsRoom(g, o) == Total([i \in DOMAIN g.rings |-> ArrayRoom(g, g.rings[i], o)])

Ring(g) == g.rings[1]

-----------------------------------------------------------------------------
(* GML 2 *)

\* asgml2_point_size, asgml2_line_size
Gml2SimpleRoom(g, o) ==
  ArrayRoom(g, Ring(g), o) + SrsRoom(o)
    + (IF g.type = "Point" THEN Twice("<point><coordinates>/", 2, o)
                           ELSE Twice("<linestring><coordinates>/", 2, o))

\* asgml2_point_buf, asgml2_line_buf
Gml2Simple(g, o) ==
  LET name == IF g.type = "Point" THEN "Point" ELSE "LineString"
      open == <<Start(name)>> \o SrsText(o)
  IN  IF Ring(g) = <<>> THEN Append(open, Done)
      ELSE open \o <<More>> \o Element("coordinates", Array2(g, Ring(g))) \o <<Stop(name)>>

Gml2PolyRoom(g, o) ==
  S("<polygon></polygon>") + 2 * o.prefix + SrsRoom(o)
    + IF IsEmpty(g) THEN 0
      ELSE Twice("<outerboundaryis><linearring><coordinates>/", 3, o)
             + Twice("<innerboundaryis><linearring><coordinates>/", 2, o) * Len(g.rings)
             + RingsRoom(g, o)

Gml2Boundary(name, g, i) ==
  Element(name, Element("LinearRing", Element("coordinates", Array2(g, g.rings[i]))))

\* Defect: the inner rings are left out.
Gml2PolyOuter(g, o) ==
  LET open == <<Start("Polygon")>> \o SrsText(o)
  IN  IF IsEmpty(g) THEN Append(open, Done)
      ELSE open \o <<More>> \o Gml2Boundary("outerBoundaryIs", g, 1) \o <<Stop("Polygon")>>

\* asgml2_poly_buf
Gml2Poly(g, o) ==
  LET open == <<Start("Polygon")>> \o SrsText(o)
      inner == [i \in 1..(Len(g.rings) - 1) |-> Gml2Boundary("innerBoundaryIs", g, i + 1)]
  IN  IF IsEmpty(g) THEN Append(open, Done)
      ELSE open \o <<More>> \o Gml2Boundary("outerBoundaryIs", g, 1)
                \o FlattenSeq(inner) \o <<Stop("Polygon")>>

Gml2Member == [Point |-> "pointMember", Line |-> "lineStringMember", Polygon |-> "polygonMember"]
Gml2Multi ==
  [MultiPoint |-> "MultiPoint", MultiLine |-> "MultiLineString", MultiPolygon |-> "MultiPolygon"]

Gml2Room(g, o) ==
  IF g.type = "Polygon" THEN Gml2PolyRoom(g, o) ELSE Gml2SimpleRoom(g, o)
Gml2Text(g, o) ==
  IF g.type = "Polygon" THEN Gml2Poly(g, o) ELSE Gml2Simple(g, o)

\* Types both versions write as members of what has no curves.
Plain == {"Point", "Line", "Polygon"}

Name(names, type) == IF type \in DOMAIN names THEN names[type] ELSE ""

\* asgml2_multi_size
Gml2MultiRoom(g, o) ==
  S("<MultiLineString></MultiLineString>") + 2 * o.prefix + SrsRoom(o)
    + Total([i \in DOMAIN g.geoms |->
               IF g.geoms[i].type \in Plain
               THEN Twice("</>", 1, o) + 2 * Len(Gml2Member[g.geoms[i].type])
                      + Gml2Room(g.geoms[i], NoSrs(o))
               ELSE 0])

\* asgml2_multi_buf
Gml2MultiText(g, o) ==
  LET name == Name(Gml2Multi, g.type)
      open == <<Start(name)>> \o SrsText(o)
      member(x) == When(x.type \in Plain,
                        Element(Gml2Member[x.type], Gml2Text(x, NoSrs(o))))
  IN  IF g.geoms = <<>> THEN Append(open, Done)
      ELSE open \o <<More>> \o FlattenSeq([i \in DOMAIN g.geoms |-> member(g.geoms[i])])
                \o <<Stop(name)>>

RECURSIVE Gml2CollectionRoom(_, _)
RECURSIVE Gml2CollectionText(_, _)

\* asgml2_collection_size
Gml2CollectionRoom(g, o) ==
  S("<MultiGeometry></MultiGeometry>") + 2 * o.prefix + SrsRoom(o)
    + Total([i \in DOMAIN g.geoms |->
               Twice("<geometryMember>/", 1, o)
                 + IF g.geoms[i].type \in Plain THEN Gml2Room(g.geoms[i], NoSrs(o))
                   ELSE Gml2CollectionRoom(g.geoms[i], NoSrs(o))])

\* asgml2_collection_buf
Gml2CollectionText(g, o) ==
  LET open == <<Start("MultiGeometry")>> \o SrsText(o)
      text(x) == CASE x.type \in Plain -> Gml2Text(x, NoSrs(o))
                   [] x.type = "Collection" -> Gml2CollectionText(x, NoSrs(o))
                   [] OTHER -> Gml2MultiText(x, NoSrs(o))
  IN  IF g.geoms = <<>> THEN Append(open, Done)
      ELSE open \o <<More>>
             \o FlattenSeq([i \in DOMAIN g.geoms |-> Element("geometryMember", text(g.geoms[i]))])
             \o <<Stop("MultiGeometry")>>

\* The types the collection functions know, at any depth.
RECURSIVE Gml2Knows(_)
Gml2Knows(g) ==
  CASE g.type \in Plain \cup DOMAIN Gml2Multi -> TRUE
    [] g.type \in SimpleTypes -> FALSE
    [] OTHER -> \A i \in DOMAIN g.geoms : Gml2Knows(g.geoms[i])

-----------------------------------------------------------------------------
(* GML 3 *)

\* asgml3_point_size, asgml3_line_size, asgml3_circstring_size
Gml3SimpleRoom(g, o) ==
  LET tags == CASE g.type = "Point" -> Twice("<point><pos>/", 2, o)
                [] g.type = "Line" /\ o.short -> Twice("<LineString><posList>/", 2, o)
                [] g.type = "Line" ->
                     Twice("<Curve><segments><LineStringSegment><posList>/", 4, o)
                [] OTHER -> Twice("<Curve><segments>/", 2, o) + Twice("<ArcString><posList>/", 2, o)
  IN  ArrayRoom(g, Ring(g), o) + tags + SrsRoom(o) + IdRoom(o) + DimsRoom(o)

\* The element that holds the points, which may name their dimension.
Positions(name, g, ring, o) ==
  <<Start(name)>> \o DimsText(o) \o <<More>> \o Array3(g, ring, o) \o <<Stop(name)>>

Segment(g, o) ==
  Element(IF g.type = "Line" THEN "LineStringSegment" ELSE "ArcString",
          Positions("posList", g, Ring(g), o))

\* asgml3_point_buf, asgml3_line_buf, asgml3_circstring_buf; the last does not
\* look whether there are points.
Gml3Simple(g, o) ==
  LET name == CASE g.type = "Point" -> "Point"
                [] g.type = "Line" /\ o.short -> "LineString"
                [] OTHER -> "Curve"
      open == <<Start(name)>> \o SrsText(o) \o IdText(o)
      inside == CASE name = "Point" -> Positions("pos", g, Ring(g), o)
                  [] name = "LineString" -> Positions("posList", g, Ring(g), o)
                  [] OTHER -> Element("segments", Segment(g, o))
  IN  IF Ring(g) = <<>> /\ g.type # "CircString" THEN Append(open, Done)
      ELSE open \o <<More>> \o inside \o <<Stop(name)>>

\* asgml3_poly_size; with no ring the count of the inner ones wraps.
Gml3PolyRoom(g, o) ==
  Twice("<PolygonPatch><exterior><LinearRing>///", 3, o)
    + Twice("<interior><LinearRing>//", 2, o) * (Len(g.rings) - 1)
    + (S("<posList></posList>") + 2 * o.prefix + DimsRoom(o)) * Len(g.rings)
    + SrsRoom(o) + IdRoom(o) + RingsRoom(g, o)

Gml3Boundary(name, g, i, o) ==
  Element(name, Element("LinearRing", Positions("posList", g, g.rings[i], o)))

\* asgml3_poly_buf
Gml3Poly(g, patch, o) ==
  LET name == IF patch THEN "PolygonPatch" ELSE "Polygon"
      open == <<Start(name)>> \o SrsText(o) \o IdText(o)
      inner == [i \in 1..(Len(g.rings) - 1) |-> Gml3Boundary("interior", g, i + 1, o)]
  IN  IF IsEmpty(g) THEN Append(open, Done)
      ELSE open \o <<More>> \o Gml3Boundary("exterior", g, 1, o)
                \o FlattenSeq(inner) \o <<Stop(name)>>

\* asgml3_triangle_size
Gml3TriangleRoom(g, o) ==
  Twice("<Triangle><exterior><LinearRing>///", 3, o) + S("<posList></posList>") + 2 * o.prefix
    + SrsRoom(o) + IdRoom(o) + DimsRoom(o) + ArrayRoom(g, Ring(g), o)

\* asgml3_triangle_buf
Gml3Triangle(g, o) ==
  <<Start("Triangle")>> \o SrsText(o) \o IdText(o) \o <<More>>
    \o Gml3Boundary("exterior", g, 1, o) \o <<Stop("Triangle")>>

\* asgml3_compound_size; what is neither a line nor an arc is passed over.
Gml3CompoundRoom(g, o) ==
  LET room(x) ==
        CASE x.type = "Line" -> S("<LineStringSegment></LineStringSegment") + S("<posList></posList")
                                + 4 * o.prefix + ArrayRoom(x, Ring(x), o) + DimsRoom(o)
          [] x.type = "CircString" -> S("<ArcString><posList></ArcString></posList>")
                                + 4 * o.prefix + ArrayRoom(x, Ring(x), o) + DimsRoom(o)
          [] OTHER -> 0
  IN  S("<Curve></Curve>") + S("<segments></segments>") + 4 * o.prefix + SrsRoom(o) + IdRoom(o)
        + Total([i \in DOMAIN g.geoms |-> room(g.geoms[i])])

\* asgml3_compound_buf
Gml3Compound(g, o) ==
  <<Start("Curve")>> \o SrsText(o) \o IdText(o) \o <<More>>
    \o Element("segments", FlattenSeq([i \in DOMAIN g.geoms |->
                             When(g.geoms[i].type \in LineTypes, Segment(g.geoms[i], o))]))
    \o <<Stop("Curve")>>

\* asgml3_curvepoly_size
Gml3CurvePolyRoom(g, o) ==
  LET side == S("<exterior></exterior>") + 2 * o.prefix
      ringed == S("<Ring></Ring>") + S("<curveMember></curveMember>") + 4 * o.prefix
      room(x) ==
        CASE x.type = "Line" -> S("<LinearRing></LinearRing>") + S("<posList></posList")
                                + 4 * o.prefix + DimsRoom(o) + ArrayRoom(x, Ring(x), o)
          [] x.type = "CircString" -> ringed + Gml3SimpleRoom(x, o)
          [] x.type = "Compound" -> ringed + Gml3CompoundRoom(x, o)
  IN  S("<Polygon></Polygon") + 2 * o.prefix + SrsRoom(o) + IdRoom(o)
        + Total([i \in DOMAIN g.geoms |-> side + room(g.geoms[i])])

\* asgml3_curvepoly_buf
Gml3CurvePoly(g, o) ==
  LET text(x) ==
        CASE x.type = "Line" -> Element("LinearRing", Positions("posList", x, Ring(x), o))
          [] x.type = "CircString" -> Element("Ring", Element("curveMember", Gml3Simple(x, o)))
          [] x.type = "Compound" -> Element("Ring", Element("curveMember", Gml3Compound(x, o)))
      side(i) == Element(IF i = 1 THEN "exterior" ELSE "interior", text(g.geoms[i]))
  IN  <<Start("Polygon")>> \o SrsText(o) \o IdText(o) \o <<More>>
        \o FlattenSeq([i \in DOMAIN g.geoms |-> side(i)]) \o <<Stop("Polygon")>>

-----------------------------------------------------------------------------
(* Collections of GML 3 *)

Gml3Member == [Point |-> "pointMember", Line |-> "curveMember", Polygon |-> "surfaceMember"]
Gml3Multi ==
  [MultiPoint |-> "MultiPoint", MultiLine |-> "MultiCurve", MultiPolygon |-> "MultiSurface"]

Gml3Room(g, o) ==
  CASE g.type = "Polygon" -> Gml3PolyRoom(g, o)
    [] g.type = "Triangle" -> Gml3TriangleRoom(g, o)
    [] g.type = "Compound" -> Gml3CompoundRoom(g, o)
    [] g.type = "CurvePoly" -> Gml3CurvePolyRoom(g, o)
    [] OTHER -> Gml3SimpleRoom(g, o)

Gml3Text(g, o) ==
  CASE g.type = "Polygon" -> Gml3Poly(g, FALSE, o)
    [] g.type = "Triangle" -> Gml3Triangle(g, o)
    [] g.type = "Compound" -> Gml3Compound(g, o)
    [] g.type = "CurvePoly" -> Gml3CurvePoly(g, o)
    [] OTHER -> Gml3Simple(g, o)

\* asgml3_multi_size
Gml3MultiRoom(g, o) ==
  S("<MultiLineString></MultiLineString>") + 2 * o.prefix + SrsRoom(o) + IdRoom(o)
    + Total([i \in DOMAIN g.geoms |->
               IF g.geoms[i].type \in Plain
               THEN Twice("</>", 1, o) + 2 * Len(Gml3Member[g.geoms[i].type])
                      + Gml3Room(g.geoms[i], NoSrs(o))
               ELSE 0])

\* asgml3_multi_buf
Gml3MultiText(g, o) ==
  LET name == Name(Gml3Multi, g.type)
      open == <<Start(name)>> \o SrsText(o) \o IdText(o)
      member(x) == When(x.type \in Plain,
                        Element(Gml3Member[x.type], Gml3Text(x, NoSrs(o))))
  IN  IF g.geoms = <<>> THEN Append(open, Done)
      ELSE open \o <<More>> \o FlattenSeq([i \in DOMAIN g.geoms |-> member(g.geoms[i])])
                \o <<Stop(name)>>

\* asgml3_psurface_size, asgml3_tin_size
Gml3SurfaceRoom(g, o) ==
  SrsRoom(o) + IdRoom(o)
    + (IF g.type = "Tin" THEN Twice("<Tin><trianglePatches>/", 2, o)
                         ELSE Twice("<PolyhedralSurface><polygonPatches>/", 2, o))
    + Total([i \in DOMAIN g.geoms |-> Gml3Room(g.geoms[i], NoSrs(o))])

\* asgml3_psurface_buf
Gml3PSurface(g, o) ==
  <<Start("PolyhedralSurface")>> \o SrsText(o) \o IdText(o)
    \o <<More, Start("polygonPatches"), More>>
    \o FlattenSeq([i \in DOMAIN g.geoms |-> Gml3Poly(g.geoms[i], TRUE, NoSrs(o))])
    \o <<Stop("polygonPatches"), Stop("PolyhedralSurface")>>

\* asgml3_tin_buf; the patches are opened only if there is no id.
Gml3Tin(g, o) ==
  <<Start("Tin")>> \o SrsText(o)
    \o (IF o.id # NoName THEN <<Id>> ELSE <<More, Start("trianglePatches"), More>>)
    \o FlattenSeq([i \in DOMAIN g.geoms |-> Gml3Triangle(g.geoms[i], NoSrs(o))])
    \o <<Stop("trianglePatches"), Stop("Tin")>>

\* asgml3_collection_size; a collection in it is measured as if its members
\* were points, lines and polygons only.
Gml3CollectionRoom(g, o) ==
  S("<MultiGeometry></MultiGeometry>") + 2 * o.prefix + SrsRoom(o) + IdRoom(o)
    + Total([i \in DOMAIN g.geoms |->
               Twice("<geometryMember>/", 1, o)
                 + IF g.geoms[i].type \in Plain THEN Gml3Room(g.geoms[i], NoSrs(o))
                   ELSE Gml3MultiRoom(g.geoms[i], NoSrs(o))])

RECURSIVE Gml3CollectionText(_, _)

\* asgml3_collection_buf
Gml3CollectionText(g, o) ==
  LET open == <<Start("MultiGeometry")>> \o SrsText(o) \o IdText(o)
      text(x) == CASE x.type \in Plain -> Gml3Text(x, NoSrs(o))
                   [] x.type = "Collection" -> Gml3CollectionText(x, NoSrs(o))
                   [] OTHER -> Gml3MultiText(x, NoSrs(o))
  IN  IF g.geoms = <<>> THEN Append(open, Done)
      ELSE open \o <<More>>
             \o FlattenSeq([i \in DOMAIN g.geoms |-> Element("geometryMember", text(g.geoms[i]))])
             \o <<Stop("MultiGeometry")>>

\* The types the collection functions know, in collections at any depth.
RECURSIVE Gml3Knows(_)
Gml3Knows(g) ==
  CASE g.type = "Collection" -> \A i \in DOMAIN g.geoms : Gml3Knows(g.geoms[i])
    [] OTHER -> g.type \notin {"CircString", "Triangle"}

\* asgml3_multicurve_size, asgml3_multisurface_size
Gml3CurvedRoom(g, o) ==
  2 * o.prefix + SrsRoom(o) + IdRoom(o)
    + (IF g.type = "MultiCurve"
       THEN S("<MultiCurve></MultiCurve>")
              + (S("<curveMember></curveMember>") + 2 * o.prefix) * Len(g.geoms)
       ELSE S("<MultiSurface></MultiSurface>"))
    + Total([i \in DOMAIN g.geoms |-> Gml3Room(g.geoms[i], o)])

\* asgml3_multicurve_buf
Gml3MultiCurve(g, o) ==
  <<Start("MultiCurve")>> \o SrsText(o) \o IdText(o) \o <<More>>
    \o FlattenSeq([i \in DOMAIN g.geoms |-> Element("curveMember", Gml3Text(g.geoms[i], o))])
    \o <<Stop("MultiCurve")>>

\* asgml3_multisurface_buf
Gml3MultiSurface(g, o) ==
  <<Start("MultiSurface")>> \o SrsText(o) \o IdText(o) \o <<More>>
    \o FlattenSeq([i \in DOMAIN g.geoms |-> Gml3Text(g.geoms[i], o)]) \o <<Stop("MultiSurface")>>

-----------------------------------------------------------------------------
(* Boxes *)

\* gbox_to_gml2 of the box with corners low and high, none for an empty geometry.
Box2Room(g, o) ==
  SrsRoom(o) + IF IsEmpty(g) THEN Twice("<Box>/", 2, o)
               ELSE ArrayRoom([g EXCEPT !.m = FALSE], <<1, 2>>, o) + Twice("<Box><coordinates>/", 2, o)

Box2Text(g, corners, o) ==
  IF IsEmpty(g) THEN <<Start("Box")>> \o SrsText(o) \o <<Done>>
  ELSE <<Start("Box")>> \o SrsText(o) \o <<More>>
         \o Element("coordinates", Array2(g, corners)) \o <<Stop("Box")>>

\* gbox_to_gml3
Box3Room(g, o) ==
  SrsRoom(o) + IF IsEmpty(g) THEN Twice("<Envelope>/", 2, o)
               ELSE ArrayRoom([g EXCEPT !.m = FALSE], <<1>>, o) * 2
                      + Twice("<Envelope><lowerCorner><upperCorner>//", 3, o)
                      + (IF o.dims THEN S(" srsDimension=. .") ELSE 0)

Box3Text(g, corners, o) ==
  IF IsEmpty(g) THEN <<Start("Envelope")>> \o SrsText(o) \o <<Done>>
  ELSE <<Start("Envelope")>> \o SrsText(o) \o DimsText(o) \o <<More>>
         \o Element("lowerCorner", Array3(g, <<corners[1]>>, o))
         \o Element("upperCorner", Array3(g, <<corners[2]>>, o)) \o <<Stop("Envelope")>>

-----------------------------------------------------------------------------
(* A job is answered with a text and its room, with no text, or it fails. *)

Answer(room, text) == [room |-> room, text |-> text, result |-> "text"]
NoText == [room |-> 0, text |-> <<>>, result |-> "none"]
Failure == [room |-> 0, text |-> <<>>, result |-> "failed"]

\* lwgeom_to_gml2
ToGml2(g, o) ==
  CASE IsEmpty(g) -> NoText
    [] g.type \in Plain -> Answer(Gml2Room(g, o), Gml2Text(g, o))
    [] g.type \in DOMAIN Gml2Multi -> Answer(Gml2MultiRoom(g, o), Gml2MultiText(g, o))
    [] g.type = "Collection" /\ Gml2Knows(g) ->
         Answer(Gml2CollectionRoom(g, o), Gml2CollectionText(g, o))
    [] OTHER -> Failure

\* lwgeom_to_gml3
ToGml3(g, o) ==
  CASE IsEmpty(g) -> NoText
    [] g.type \in DOMAIN Gml3Multi -> Answer(Gml3MultiRoom(g, o), Gml3MultiText(g, o))
    [] g.type = "PolyhedralSurface" -> Answer(Gml3SurfaceRoom(g, o), Gml3PSurface(g, o))
    [] g.type = "Tin" -> Answer(Gml3SurfaceRoom(g, o), Gml3Tin(g, o))
    [] g.type = "MultiCurve" -> Answer(Gml3CurvedRoom(g, o), Gml3MultiCurve(g, o))
    [] g.type = "MultiSurface" -> Answer(Gml3CurvedRoom(g, o), Gml3MultiSurface(g, o))
    [] g.type = "Collection" /\ ~ Gml3Knows(g) -> Failure
    [] g.type = "Collection" -> Answer(Gml3CollectionRoom(g, o), Gml3CollectionText(g, o))
    [] OTHER -> Answer(Gml3Room(g, o), Gml3Text(g, o))

=============================================================================
