------------------------------ MODULE TextOut ------------------------------
(***************************************************************************)
(* Callers have geometries written as GML, KML, GeoJSON, SVG and X3D, one  *)
(* after the other.  The answer of a writer is the text it prints, piece   *)
(* by piece, and the size of the block it prints into; what the caller     *)
(* finds in the block is another matter.                                   *)
(***************************************************************************)
EXTENDS MarkupOut

CONSTANTS
  Geometries,  \* what callers have written
  Options      \* how they ask for it

VARIABLES
  job,    \* the format, geometry and options of the call, or Idle
  out,    \* its answer: text, room, result
  got     \* the text that the caller finds, which is a beginning of it

vars == <<job, out, got>>

Idle == [format |-> "idle", geom |-> Empty("Point", 0, FALSE, FALSE), options |-> <<>>]

Formats == {"gml2", "gml3", "extent2", "extent3", "geojson", "svg", "kml", "x3d"}

\* The corners of the cached or computed box, in the dimensions of the geometry.
Corners(g) ==
  LET pts == ToSet(PointsOf(g))
      values(k) == {pt[k] : pt \in pts}
      low(k) == CHOOSE v \in values(k) : \A w \in values(k) : v <= w
      high(k) == CHOOSE v \in values(k) : \A w \in values(k) : v >= w
      dims == IF g.z THEN 3 ELSE 2
  IN  IF pts = {} THEN <<>> ELSE <<[k \in 1..dims |-> low(k)], [k \in 1..dims |-> high(k)]>>

Answered(format, g, o) ==
  CASE format = "gml2" -> ToGml2(g, o)
    [] format = "gml3" -> ToGml3(g, o)
    [] format = "extent2" -> Answer(Box2Room(g, o), Box2Text(g, Corners(g), o))
    [] format = "extent3" -> Answer(Box3Room(g, o), Box3Text(g, Corners(g), o))
    [] format = "geojson" -> ToGeoJson(g, Corners(g), o)
    [] format = "svg" -> ToSvg(g, o)
    [] format = "kml" -> ToKml(g)
    [] format = "x3d" -> ToX3d(g, o)

RECURSIVE Filled(_)

\* Every member, at any depth, has a point.
Filled(g) ==
  IF g.type \in Collections
  THEN g.geoms # <<>> /\ \A i \in DOMAIN g.geoms : Filled(g.geoms[i])
  ELSE g.rings # <<>> /\ \A i \in DOMAIN g.rings : g.rings[i] # <<>>

\* SVG and X3D read the first point of every member and the last of every
\* ring, and the box of GeoJSON is only computed if there are points: without
\* one they go by what the memory holds.
Defined(format, g, o) ==
  /\ format \in {"svg", "x3d"} => Filled(g)
  /\ format = "geojson" /\ o.bbox => ~ IsEmpty(g)

RECURSIVE FirstLeaf(_)
FirstLeaf(g) == IF g.type \in Collections THEN FirstLeaf(g.geoms[1]) ELSE g

\* How many pieces the first call of snprintf prints.
FirstCall(format, g, o) ==
  CASE format \in {"gml2", "gml3", "extent3"} -> 1
    [] format = "extent2" -> IF IsEmpty(g) THEN 1 ELSE IF o.srs = NoName THEN 2 ELSE 3
    [] format = "geojson" -> 3
    [] format = "svg" -> IF FirstLeaf(g).type = "Point" THEN 5 ELSE 1

\* What may arrive of a text.  Each call of snprintf(ptr, strlen(ptr), ...) has for a
\* limit the length of what the fresh block happens to hold.  If the first call is
\* cut, it ends the text there; if it is not, the zero at its end is what the second
\* call finds and has for a limit, so that it prints nothing, and the calls after it
\* print behind that zero.  KML, X3D and the empty texts of SVG do arrive.
Arrivals(format, g, o, answer) ==
  IF answer.room = NoName \/ answer.text = <<>> THEN {answer.text}
  ELSE {SubSeq(answer.text, 1, k) : k \in 0..FirstCall(format, g, o)}

Write(format, g, o) ==
  /\ job = Idle
  /\ Defined(format, g, o)
  /\ job' = [format |-> format, geom |-> g, options |-> o]
  /\ out' = Answered(format, g, o)
  /\ got' \in Arrivals(format, g, o, out')

\* The caller frees the text.
Take ==
  /\ job # Idle
  /\ job' = Idle /\ out' = NoText /\ got' = <<>>

TextInit == job = Idle /\ out = NoText /\ got = <<>>

TextNext ==
  \/ \E f \in Formats, g \in Geometries, o \in Options : Write(f, g, o)
  \/ Take

TextSpec == TextInit /\ [][TextNext]_vars

-----------------------------------------------------------------------------
(* What is known not to work is excluded by name. *)

RECURSIVE Parts(_)

\* The geometry and its members at any depth.
Parts(g) == {g} \cup UNION {Parts(g.geoms[i]) : i \in DOMAIN g.geoms}

\* No number is spoilt by the trimming of an exponent's zeros.
Exponents(g) ==
  \A pt \in ToSet(PointsOf(g)) : \A k \in DOMAIN pt : Large(pt[k]) => TrimmedZeros(pt[k]) = 0

\* GML 3 measures a collection two levels down as if it held nothing, and
\* counts the inner rings of a polygon without rings.
Measured(g) ==
  /\ \A x \in Parts(g) : x.type = "Polygon" => x.rings # <<>>
  /\ g.type = "Collection" =>
       \A i \in DOMAIN g.geoms : g.geoms[i].type = "Collection" =>
         \A k \in DOMAIN g.geoms[i].geoms : g.geoms[i].geoms[k].type \notin Collections

\* In two dimensions X3D closes an element of points that it did not open.
Spatial(g) == \A x \in Parts(g) : x.z \/ x.type \notin {"Polygon", "MultiLine", "MultiPolygon"}

\* The indices of a surface only count outer rings.
Unpierced(g) == g.type = "PolyhedralSurface" => \A i \in DOMAIN g.geoms : Len(g.geoms[i].rings) = 1

Written == job # Idle /\ out.result = "text"
Arrived == Written /\ got = out.text

-----------------------------------------------------------------------------
(* Properties *)

\* The room a writer asks for is enough for what it prints and the zero after it
\* (asgml2_*, asgml3_*, asgeojson_*, assvg_*: two recursions each).  snprintf answers
\* with the length it would have printed, so the pointer runs through all of it, and
\* with too little room strlen and snprintf would leave the block.
TextFits ==
  Written /\ out.room # NoName
    /\ (job.format = "gml3" => Measured(job.geom))
    /\ (job.format = "geojson" /\ job.options.bbox =>
          \A pt \in ToSet(PointsOf(job.geom)) : \A k \in DOMAIN pt : ~ Large(pt[k]))
  => Length(out.text, job.options) < out.room

\* Elements and brackets that are open, and whether the last element still
\* takes attributes, after a piece; broken when it does not fit.
NestingAfter(s, p) ==
  CASE p.kind = "start" -> [open |-> Append(s.open, p.s), tag |-> TRUE, ok |-> s.ok /\ ~ s.tag]
    [] p.kind = "more" -> [s EXCEPT !.tag = FALSE, !.ok = @ /\ s.tag]
    [] p.kind = "done" -> [open |-> Front(s.open), tag |-> FALSE, ok |-> s.ok /\ s.tag]
    [] p.kind = "stop" -> [open |-> Front(s.open), tag |-> FALSE,
                           ok |-> s.ok /\ ~ s.tag /\ Last(s.open) = p.s]
    [] OTHER -> s

RECURSIVE NestingIn(_, _, _, _)

\* After the pieces from first to last, by halves.
NestingIn(s, text, first, last) ==
  LET middle == (first + last) \div 2
  IN  CASE ~ s.ok \/ first > last -> s
        [] s.ok /\ first = last -> NestingAfter(s, text[first])
        [] s.ok /\ first < last -> NestingIn(NestingIn(s, text, first, middle), text, middle + 1, last)

Nesting(text) == NestingIn([open |-> <<>>, tag |-> FALSE, ok |-> TRUE], text, 1, Len(text))

\* In a text that arrives, elements close what they opened and attributes stand in
\* an opening element (all *_sb).
WellFormed ==
  Arrived /\ (job.format = "x3d" => Spatial(job.geom))
  => LET end == Nesting(got) IN end.ok /\ ~ end.tag /\ end.open = <<>>

\* What a number is read back as: another one if its exponent lost a zero.
Misread == 1000
Meant(p) == IF p.kind = "number" /\ Large(p.s) /\ TrimmedZeros(p.s) > 0 THEN Misread ELSE p.s

\* The ordinates a reader gets from the numbers of a text.
Read(text) ==
  LET shown == SelectSeq(text, LAMBDA p : p.kind \in {"number", "raw"})
  IN  [i \in DOMAIN shown |-> Meant(shown[i])]

RECURSIVE Arrays(_)

\* The arrays of points of a geometry, each with the type it belongs to.
Arrays(g) ==
  IF g.type \in Collections THEN FlattenSeq([i \in DOMAIN g.geoms |-> Arrays(g.geoms[i])])
  ELSE [i \in DOMAIN g.rings |-> [type |-> g.type, z |-> g.z, ring |-> g.rings[i],
                                  closed |-> g.type # "Point" /\ IsClosed([g EXCEPT !.rings = <<g.rings[i]>>])]]

\* The ordinates a text in this format has to show of an array.
Due(a) ==
  LET open == IF a.closed THEN SubSeq(a.ring, 1, Len(a.ring) - 1) ELSE a.ring
      shown(pt) == Shown(IF job.options.degree THEN Swapped(pt) ELSE pt, a.z)
      down(pt) == <<pt[1], -pt[2]>>
      flat(pt) == Shown(pt, a.z)
  IN  FlattenSeq(CASE job.format = "svg" -> Mapped(down, a.ring)
                   [] job.format = "x3d" -> Mapped(shown, open)
                   [] job.format = "kml" -> Mapped(flat, a.ring))

\* Every ordinate of the geometry once, in order.
OrdinatesShown ==
  Arrived /\ (job.format # "kml" => Exponents(job.geom))
  => Read(got) = FlattenSeq(Mapped(Due, Arrays(job.geom)))

\* The points a list of indices refers to, list by list, are those of the lines
\* or rings.
IndicesMeanRings ==
  Arrived /\ job.format = "x3d" /\ Unpierced(job.geom)
    /\ job.geom.type \in {"MultiLine", "MultiPolygon", "PolyhedralSurface", "Polygon"}
  => LET text == got
         split(i) == Cardinality({j \in 1..i : text[j].kind = "text" /\ text[j].s = " -1 "})
         listed == {i \in DOMAIN text : text[i].kind = "index"}
         dims == IF job.geom.z THEN 3 ELSE 2
         value == Read(text)
         point(n) == [k \in 1..dims |-> value[dims * n + k]]
         list(k) == LET mine == SetToSortSeq({i \in listed : split(i) = k - 1}, <)
                    IN  [i \in DOMAIN mine |-> point(text[mine[i]].s)]
         shown(pt) == Shown(IF job.options.degree THEN Swapped(pt) ELSE pt, job.geom.z)
         wanted(a) == LET pts == Mapped(shown, a.ring)
                      IN  IF a.type = "Polygon" THEN Front(pts) ELSE pts
         arrays == Arrays(job.geom)
     IN  \A k \in DOMAIN arrays : list(k) = wanted(arrays[k])

\* A text that arrives shows every ordinate of the geometry once, in order, and the
\* indices of X3D refer to the points of their line or ring (ptarray_to_*_sb,
\* asx3d3_mline_coordindex_sb, asx3d3_mpoly_coordindex_sb, assvg_point_buf).
ShowsPoints == OrdinatesShown /\ IndicesMeanRings

=============================================================================
