------------------------------ MODULE TopoBulk ------------------------------
(***************************************************************************)
(* Loading a topology with whole points, lines and polygons, naming its    *)
(* faces afterwards, and asking it about places (lwgeom_topo.c:2635-3160   *)
(* and from 4637).  A call draws a line piece by piece, each piece by the  *)
(* operations of Topo.tla; a state of this module lies between two of      *)
(* those, in the middle of a call.                                         *)
(*                                                                         *)
(* Lines are parallel to the axes and bend at points whose coordinates are *)
(* multiples of Step, where arithmetic is exact and nothing is snapped     *)
(* unless a point is added with a tolerance.                               *)
(***************************************************************************)
EXTENDS Topo

CONSTANTS
  Lines,       \* lines the callers add
  Polygons,    \* polygons they add: sequences of rings, the outer one first
  Spots,       \* points they add, each with a squared snapping distance
  Places,      \* points they ask about
  MaxCalls     \* number of calls that add something

Step == 2

VARIABLES
  rings,    \* lines the call has still to draw, the current one first
  pieces,   \* pieces of the current line that have not been added
  piece,    \* the piece being added
  ends,     \* its end nodes found so far
  ids,      \* edges the current line has become so far
  withFaces,\* handleFaceSplit of the call
  polygon,  \* the polygon of the call, <<>> when it adds none
  loading,  \* lines were added without faces since the last Polygonize
  answer,   \* what the last call returned
  calls

jobVars == <<rings, pieces, piece, ends, ids, withFaces, polygon>>
bulkVars == <<vars, jobVars, loading, answer, calls>>

Idle == rings = <<>>

-----------------------------------------------------------------------------
(* GEOS on such lines *)

\* The points of a line, none left out.
Dense(l) ==
  LET sign(x) == IF x > 0 THEN Step ELSE IF x < 0 THEN -Step ELSE 0
      way(i) == Direction(l[i], l[i + 1])
      steps(i) == (Abs(way(i)[1]) + Abs(way(i)[2])) \div Step
      run(i) == [k \in 1..steps(i) |-> <<l[i][1] + k * sign(way(i)[1]),
                                         l[i][2] + k * sign(way(i)[2])>>]
  IN  <<Head(l)>> \o FlattenSeq([i \in Segments(l) |-> run(i)])

\* The ends and bends of a line that leaves no point out.
Bends(x) ==
  LET kept == {i \in DOMAIN x : \/ i \in {1, Len(x)}
                                \/ Cross(x[i - 1], x[i], x[i + 1]) # 0}
  IN  [k \in 1..Cardinality(kept) |->
         x[CHOOSE i \in kept : Cardinality({j \in kept : j <= i}) = k]]

\* The strokes of the grid a line is drawn with.
Strokes(l) ==
  LET x == Dense(l) IN {{x[i], x[i + 1]} : i \in Segments(x)}

Drawn == UNION {Strokes(line[e]) : e \in edges}

\* The noded line, piece by piece: cut at its ends, at nodes, and where it
\* meets itself or an edge other than by running along with it.  The pieces
\* come in the order of the line; GEOS promises none.
Pieces(l) ==
  LET x == Dense(l)
      strokes == Strokes(x) \cup Drawn
      cut(i) == \/ x[i] \in Ends(x) \/ \E n \in nodes : pt[n] = x[i]
                \/ Cardinality({s \in strokes : x[i] \in s}) # 2
      cuts == {i \in DOMAIN x : cut(i)}
      nth(k) == CHOOSE i \in cuts : Cardinality({j \in cuts : j <= i}) = k
  IN  [k \in 1..(Cardinality(cuts) - 1) |-> Bends(SubSeq(x, nth(k), nth(k + 1)))]

-----------------------------------------------------------------------------
(* Adding points *)

Dist2(p, q) == (p[1] - q[1]) * (p[1] - q[1]) + (p[2] - q[2]) * (p[2] - q[2])

\* The point of line l closest to p.
ClosestPoint(l, p) ==
  LET clamp(v, a, b) == Max({Min({a, b}), Min({v, Max({a, b})})})
      near == {<<clamp(p[1], l[i][1], l[i + 1][1]), clamp(p[2], l[i][2], l[i + 1][2])>> :
                 i \in Segments(l)}
  IN  CHOOSE q \in near : \A r \in near : Dist2(p, q) <= Dist2(p, r)

\* Defect: the nearest edge is taken before the nodes are asked.
SnapNodesExact(p, tol) == {n \in nodes : pt[n] = p}

\* Nodes closer than the tolerance, or at p; of these the closest.
SnapNodes(p, tol) ==
  LET near == {n \in nodes : pt[n] = p \/ Dist2(pt[n], p) < tol}
  IN  {n \in near : \A m \in near : Dist2(pt[n], p) <= Dist2(pt[m], p)}

\* The edges within the tolerance that are closest.
SnapEdges(p, tol) ==
  LET away(e) == Dist2(ClosestPoint(line[e], p), p)
      near == {e \in edges : away(e) <= tol}
  IN  {e \in near : \A c \in near : away(e) <= away(c)}

\* _lwt_AddPoint makes, or finds, node n.
PutPoint(p, tol, findFace, n) ==
  \/ /\ n \in SnapNodes(p, tol)
     /\ UNCHANGED vars
  \/ /\ SnapNodes(p, tol) = {}
     /\ n = lastNode + 1
     /\ \E e \in SnapEdges(p, tol) : ModEdgeSplit(e, ClosestPoint(line[e], p))
  \/ /\ SnapNodes(p, tol) = {} /\ SnapEdges(p, tol) = {}
     /\ n = lastNode + 1
     /\ LinksAddIsoNode
     /\ pt' = WithRow(pt, n, p)
     /\ contFace' = WithRow(contFace, n, IF findFace THEN FaceAt(p) ELSE -1)
     /\ UNCHANGED <<line, faceVars>>

AddPoint(p, tol) ==
  /\ Idle /\ ~ loading /\ calls < MaxCalls
  /\ \E n \in nodes \cup {lastNode + 1} :
       /\ PutPoint(p, tol, TRUE, n)
       /\ answer' = [point |-> p, tol |-> tol, node |-> n]
  /\ calls' = calls + 1
  /\ UNCHANGED <<jobVars, loading>>

-----------------------------------------------------------------------------
(* Adding lines *)

\* The calls that draw: lwt_AddLine, lwt_AddLineNoFace, lwt_AddPolygon.
Draw(lines, faces, poly) ==
  /\ Idle /\ calls < MaxCalls
  /\ rings' = lines
  /\ pieces' = Pieces(Head(lines))
  /\ ends' = <<>> /\ ids' = <<>> /\ piece' = <<>>
  /\ withFaces' = faces /\ polygon' = poly
  /\ loading' = (loading \/ ~ faces)
  /\ answer' = <<>>
  /\ calls' = calls + 1
  /\ UNCHANGED vars

AddLine(l) == ~ loading /\ Draw(<<l>>, TRUE, <<>>)

AddLineNoFace(l) == DOMAIN mbr = {} /\ Draw(<<l>>, FALSE, <<>>)

AddPolygon(rs) == ~ loading /\ Draw(rs, TRUE, rs)

\* _lwt_AddLineEdge finds the start node of the next piece ...
StartPiece ==
  /\ ends = <<>> /\ pieces # <<>>
  /\ \E n \in nodes \cup {lastNode + 1} :
       /\ PutPoint(Head(Head(pieces)), 0, withFaces, n)
       /\ ends' = <<n>>
  /\ piece' = Head(pieces)
  /\ pieces' = Tail(pieces)
  /\ UNCHANGED <<rings, ids, withFaces, polygon, loading, answer, calls>>

\* ... and its end node ...
EndPiece ==
  /\ Len(ends) = 1
  /\ \E n \in nodes \cup {lastNode + 1} :
       /\ PutPoint(Last(piece), 0, withFaces, n)
       /\ ends' = Append(ends, n)
  /\ UNCHANGED <<rings, pieces, piece, ids, withFaces, polygon, loading, answer, calls>>

\* Defect: an edge between the same nodes is taken for an equal one.
EqualEdgesByEnds(l) == {e \in edges : Ends(line[e]) = Ends(l)}

\* _lwt_GetEqualEdge
EqualEdges(l) == {e \in edges : Strokes(line[e]) = Strokes(l)}

\* _lwt_AddEdge with modFace -1: whatever faces the ends tell, no check that
\* they agree, no face split.
AddEdgeNoFace(a, b, l) ==
  LET k == lastEdge + 1
      adjacent == Adjacencies(a, b, l, 0)
      sides == SideFaces(a, b, adjacent[1], adjacent[2])
  IN  /\ EndpointsMatch(a, b, l)
      /\ IsSimple(l)
      /\ NoCrossing(a, b, l, 0)
      /\ sides[1] = sides[2]
      /\ LinksAddEdge(a, b, adjacent[1], adjacent[2])
      /\ line' = WithRow(line, k, l)
      /\ left' = WithRow(WithRow(left, k, sides[2]), -k, sides[1])
      /\ contFace' = Connected(a, b)
      /\ UNCHANGED <<pt, mbr, lastFace>>

\* ... and the edge between them, which may be there already.
JoinPiece ==
  /\ Len(ends) = 2
  /\ \/ \E e \in EqualEdges(piece) :
          /\ ids' = Append(ids, e)
          /\ UNCHANGED vars
     \/ /\ EqualEdges(piece) = {}
        /\ IF withFaces THEN AddEdge(ends[1], ends[2], piece, FALSE)
           ELSE AddEdgeNoFace(ends[1], ends[2], piece)
        /\ ids' = Append(ids, lastEdge')
  /\ ends' = <<>>
  /\ UNCHANGED <<rings, pieces, piece, withFaces, polygon, loading, answer, calls>>

NextRing ==
  /\ Len(rings) > 1 /\ pieces = <<>> /\ ends = <<>>
  /\ rings' = Tail(rings)
  /\ pieces' = Pieces(rings[2])
  /\ ids' = <<>>
  /\ UNCHANGED <<vars, piece, ends, withFaces, polygon, loading, answer, calls>>

-----------------------------------------------------------------------------
(* The faces a polygon is made of *)

Odd(lo, hi) == {x \in lo..hi : x % Step = Step \div 2}

\* The cells of face f: where its border winds around.
FaceCells(f) ==
  {c \in Odd(mbr[f].xmin, mbr[f].xmax) \X Odd(mbr[f].ymin, mbr[f].ymax) :
     InShell(line, Border(f), c)}

InPolygon(rs, c) ==
  Winding(c, Head(rs)) # 0 /\ \A i \in 2..Len(rs) : Winding(c, rs[i]) = 0

BoxesMeet(b, c) ==
  /\ b.xmin <= c.xmax /\ c.xmin <= b.xmax
  /\ b.ymin <= c.ymax /\ c.ymin <= b.ymax

\* Defect: a face counts as covered when its box meets the polygon's.
CoveredFacesByBox(rs) == {f \in DOMAIN mbr : BoxesMeet(mbr[f], LineBox(Head(rs)))}

\* The faces in the box of the polygon of which a point on the surface,
\* whichever GEOS picks, is covered by the polygon.
CoveredFaces(rs) ==
  LET inBox == {f \in DOMAIN mbr : BoxesMeet(mbr[f], LineBox(Head(rs)))}
      pick == [f \in inBox |-> CHOOSE c \in FaceCells(f) : TRUE]
  IN  {f \in inBox : InPolygon(rs, pick[f])}

Return ==
  /\ Len(rings) = 1 /\ pieces = <<>> /\ ends = <<>>
  /\ rings' = <<>>
  /\ answer' = IF polygon = <<>> THEN [line |-> Head(rings), edges |-> ids]
               ELSE [polygon |-> polygon, faces |-> CoveredFaces(polygon)]
  /\ UNCHANGED <<vars, pieces, piece, ends, ids, withFaces, polygon, loading, calls>>

-----------------------------------------------------------------------------
(* Naming the faces of a topology drawn without *)

\* The order in which _lwt_FetchNextUnvisitedEdge comes to the sides.
Visit(d) == 2 * Abs(d) + (IF d < 0 THEN 1 ELSE 0)

\* The side from which the ring of each dart is walked first.
FirstSide(d) == CHOOSE c \in Ring(next, d) : \A b \in Ring(next, d) : Visit(c) <= Visit(b)

\* _lwt_EdgeRingIsCCW
EdgeRingIsCCW(ring) ==
  MapThenSumSet(LAMBDA d : SignedArea(Path(line, d)), ring) < 0

\* _lwt_EdgeRingContainsPoint: an odd number of crossings on the right.
EdgeRingContainsPoint(ring, p) ==
  MapThenSumSet(LAMBDA d : Cardinality(Rising(p, Path(line, d)))
                             + Cardinality(Falling(p, Path(line, d))), ring) % 2 = 1

BoxContains(b, c) ==
  b.xmin <= c.xmin /\ c.xmax <= b.xmax /\ b.ymin <= c.ymin /\ c.ymax <= b.ymax

\* Defect: every shell that contains the ring replaces the one before.
FaceContainingRingLast(order, face, hole) ==
  LET p == Head(line[Abs(hole)])
      box(d) == ShellBox(line, Ring(next, d))
      consider(found, s) ==
        IF /\ Abs(s) # Abs(hole) /\ box(s) # box(hole)
           /\ BoxContains(box(s), box(hole))
           /\ EdgeRingContainsPoint(Ring(next, s), p)
        THEN face[s] ELSE found
  IN  FoldLeft(consider, 0, order)

\* _lwt_FindFaceContainingRing, the shells asked in this order, face[s]
\* being the face of shell s.
FaceContainingRing(order, face, hole) ==
  LET p == Head(line[Abs(hole)])
      box(d) == ShellBox(line, Ring(next, d))
      consider(found, s) ==
        IF /\ Abs(s) # Abs(hole) /\ box(s) # box(hole)
           /\ BoxContains(box(s), box(hole))
           /\ found.shell = 0 \/ BoxContains(box(found.shell), box(s))
           /\ EdgeRingContainsPoint(Ring(next, s), p)
        THEN [shell |-> s, face |-> face[s]] ELSE found
  IN  FoldLeft(consider, [shell |-> 0, face |-> 0], order).face

\* The faces a ring may be found in: the index gives the shells whose box
\* has its first point in any order.
FacesAround(shells, face, hole) ==
  LET p == Head(line[Abs(hole)])
      candidates == {s \in shells : BoxContains(ShellBox(line, Ring(next, s)), Box({p}))}
  IN  {FaceContainingRing(order, face, hole) : order \in SetToSeqs(candidates)}

\* _lwt_CheckFacesExist
NoFaces == DOMAIN mbr = {}

\* _lwt_RegisterFaceOnEdgeSide: a row for each shell.
ShellFaces(shells, face) ==
  [f \in {face[s] : s \in shells} |->
     ShellBox(line, Ring(next, CHOOSE s \in shells : face[s] = f))]

\* _lwt_UpdateEdgeRingSideFace, for all rings: the sides of a shell get its
\* face, those of another ring the face found around it.
RingSides(first, face, found) ==
  [d \in Darts(edges) |-> IF first[d] \in DOMAIN face THEN face[first[d]] ELSE found[first[d]]]

\* A face for each counterclockwise ring, in the order of the edges; then
\* each other ring gets the face around it.
Polygonize ==
  /\ Idle /\ NoFaces /\ edges # {}
  /\ LET first == [d \in Darts(edges) |-> FirstSide(d)]
         shells == {s \in Range(first) : EdgeRingIsCCW(Ring(next, s))}
         holes == Range(first) \ shells
         face == [s \in shells |-> lastFace + Cardinality({c \in shells : Visit(c) <= Visit(s)})]
         around == [h \in holes |-> FacesAround(shells, face, h)]
     IN  \E found \in {g \in [holes -> Range(face) \cup {0}] : \A h \in holes : g[h] \in around[h]} :
           /\ lastFace' = lastFace + Cardinality(shells)
           /\ lastFace' <= MaxFace
           /\ mbr' = ShellFaces(shells, face)
           /\ left' = RingSides(first, face, found)
  /\ loading' = FALSE
  /\ answer' = <<>>
  /\ UNCHANGED <<links, pt, contFace, line, jobVars, calls>>

\* Polygonize does not look at isolated nodes ("does not attempt to assign
\* isolated nodes to their containing faces", liblwgeom_topo.h:1050).
NoIsolatedNodes == \A n \in nodes : EndsAt(n) # {}

-----------------------------------------------------------------------------
(* Asking about places *)

\* Defect: the first edge found decides.
FaceByPointFirst(p) ==
  LET inside == FaceAt(p)
      here == {e \in edges : left[e] # left[-e] /\ OnLine(p, line[e])}
      bounded(e) == {left[e], left[-e]} \ {0}
  IN  CASE inside # 0 -> inside
        [] inside = 0 /\ here = {} -> 0
        [] OTHER -> Max(bounded(CHOOSE e \in here : TRUE))

\* lwt_GetFaceByPoint without tolerance: -1 when two faces meet here.
FaceByPoint(p) ==
  LET inside == FaceAt(p)
      here == {e \in edges : left[e] # left[-e] /\ OnLine(p, line[e])}
      sides == {{left[e], left[-e]} \ {0} : e \in here}
  IN  CASE inside # 0 -> inside
        [] inside = 0 /\ here = {} -> 0
        [] inside = 0 /\ Cardinality(sides) = 1 /\ \A s \in sides : Cardinality(s) = 1 ->
             CHOOSE f \in UNION sides : TRUE
        [] OTHER -> -1

\* The border of face f's geometry as lwgeom_buildarea makes it, in rings
\* that touch no node twice, with f on the left.
BorderNext(f, d) ==
  FindAdjacent({c \in Border(f) : org[c] = org[-d]}, Departure(Path(line, -d))).ccw

BorderRing(f, d) ==
  LET cycle[n \in 0..Cardinality(Border(f))] ==
        IF n = 0 THEN <<d>>
        ELSE LET l == cycle[n - 1]
                 c == BorderNext(f, Last(l))
             IN  IF c \in Range(l) THEN l ELSE Append(l, c)
  IN  cycle[Cardinality(Border(f))]

RingPoints(f, d) ==
  FoldLeft(LAMBDA l, c : Joined(l, Path(line, c)), Path(line, d), Tail(BorderRing(f, d)))

\* _lwt_FindNextRingEdge: an edge that continues the ring at its point i.
NextRingEdges(ring, i, es) ==
  {e \in es : \/ line[e][1] = ring[i] /\ line[e][2] = ring[i + 1]
              \/ /\ Last(line[e]) = ring[i]
                 /\ line[e][Len(line[e]) - 1] = ring[i + 1]}

\* Defect: the list starts one place after the smallest identifier.
ScrolledOne(s) ==
  LET least == CHOOSE i \in DOMAIN s : \A j \in DOMAIN s : Abs(s[i]) <= Abs(s[j])
  IN  SubSeq(s, least + 1, Len(s)) \o SubSeq(s, 1, least)

\* The list starts with the smallest identifier.
Scrolled(s) ==
  LET least == CHOOSE i \in DOMAIN s : \A j \in DOMAIN s : Abs(s[i]) <= Abs(s[j])
  IN  SubSeq(s, least, Len(s)) \o SubSeq(s, 1, least - 1)

\* lwt_GetFaceEdges for the ring of face f that starts with dart d.
RingEdges(f, d) ==
  LET ring == RingPoints(f, d)
      outline == {e \in edges : f \in {left[e], left[-e]} /\ left[e] # left[-e]}
      signed(e) == IF left[e] = f THEN e ELSE -e
      walk[n \in 0..Cardinality(outline)] ==
        IF n = 0 THEN [at |-> 1, out |-> <<>>]
        ELSE LET w == walk[n - 1]
                 e == CHOOSE c \in NextRingEdges(ring, w.at,
                                     outline \ {Abs(w.out[k]) : k \in DOMAIN w.out}) : TRUE
             IN  IF w.at >= Len(ring) THEN w
                 ELSE [at |-> w.at + Len(line[e]) - 1, out |-> Append(w.out, signed(e))]
  IN  Scrolled(walk[Cardinality(outline)].out)

-----------------------------------------------------------------------------

\* Nothing has a face yet: the ends of a line drawn without faces may lie
\* between labels that differ otherwise, which the code takes for damage.
Unlabelled == loading \/ nodes = {}

\* The program calls nothing more.  Stopping in the middle of a call is a
\* deadlock: no piece may be refused by the operations that draw it.
Rest == Idle /\ UNCHANGED bulkVars

BulkInit ==
  /\ Init
  /\ rings = <<>> /\ pieces = <<>> /\ piece = <<>> /\ ends = <<>> /\ ids = <<>>
  /\ withFaces = TRUE /\ polygon = <<>>
  /\ loading = FALSE /\ answer = <<>> /\ calls = 0

BulkNext ==
  \/ \E s \in Spots : AddPoint(s[1], s[2])
  \/ \E l \in Lines : AddLine(l)
  \/ \E l \in Lines : Unlabelled /\ AddLineNoFace(l)
  \/ \E rs \in Polygons : AddPolygon(rs)
  \/ StartPiece \/ EndPiece \/ JoinPiece \/ NextRing \/ Return
  \/ NoIsolatedNodes /\ Polygonize
  \/ Rest

BulkSpec == BulkInit /\ [][BulkNext]_bulkVars

-----------------------------------------------------------------------------
(* Properties *)

\* After each edge of a call that looks after faces, and after Polygonize,
\* every label names the region beside it and the face table fits.
Labelled == ~ loading /\ ends = <<>> => FacesOK /\ FaceTableOK

\* The edges AddLine returns "sewed together will build up the input
\* linestring" (liblwgeom_topo.h:1002): none of them was split by a later
\* piece, none is missing.
LinesSewn ==
  "line" \in DOMAIN answer =>
    LET made == Range(answer.edges)
    IN  /\ made \subseteq edges
        /\ UNION {Strokes(line[e]) : e \in made} = Strokes(answer.line)

\* A point is added where it is, or snapped to what is nearest to it.
PointsPlaced ==
  "point" \in DOMAIN answer =>
    LET away(p) == Dist2(p, answer.point)
    IN  /\ answer.node \in nodes
        /\ away(pt[answer.node]) <= answer.tol
        /\ \A n \in nodes : away(pt[answer.node]) <= away(pt[n])

\* AddPolygon returns faces that cover the polygon and nothing else.
PolygonsCovered ==
  "polygon" \in DOMAIN answer =>
    LET box == LineBox(Head(answer.polygon))
    IN  UNION {FaceCells(f) : f \in answer.faces}
          = {c \in Odd(box.xmin, box.xmax) \X Odd(box.ymin, box.ymax) :
               InPolygon(answer.polygon, c)}

\* The one bounded face whose closure has the place, none, or several.
FaceByPointOK ==
  Idle /\ ~ loading => \A p \in Places :
    LET near == {c \in {p[1] - 1, p[1], p[1] + 1} \X {p[2] - 1, p[2], p[2] + 1} :
                   c[1] % Step = 1 /\ c[2] % Step = 1}
        faces == {FaceAt(c) : c \in near} \ {0}
    IN  FaceByPoint(p) = CASE faces = {} -> 0
                           [] Cardinality(faces) = 1 -> CHOOSE f \in faces : TRUE
                           [] OTHER -> -1

\* The border ring by ring, from the smallest identifier on.
FaceEdgesOK ==
  Idle /\ ~ loading => \A f \in DOMAIN mbr : \A d \in Border(f) :
    LET out == RingEdges(f, d)
    IN  /\ Range(out) = Range(BorderRing(f, d))
        /\ Len(out) = Cardinality(Range(out))
        /\ \A i \in DOMAIN out : Abs(out[1]) <= Abs(out[i])
        /\ \A i \in DOMAIN out : org[-out[i]] = org[out[(i % Len(out)) + 1]]

\* GetFaceByPoint answers with the one bounded face whose closure has the
\* place, and fails where two of them meet; GetFaceEdges lists the border of a
\* face ring by ring, each edge once with the face on its left.
QueriesAgree == FaceByPointOK /\ FaceEdgesOK

=============================================================================
