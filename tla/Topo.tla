-------------------------------- MODULE Topo --------------------------------
(***************************************************************************)
(* A topology (src/src/liblwgeom/lwgeom_topo.c): nodes, edges and faces    *)
(* with their geometries.  TopoLinks.tla explains darts.                   *)
(*   left[e]  = face_left      left[-e] = face_right                       *)
(* The universal face is 0 and has no bounding box; -1 as containing_face  *)
(* stands for NULL, the face of a node that an edge ends at.               *)
(*                                                                         *)
(* The backend (LWT_BE_CALLBACKS) is a store that does what the callbacks  *)
(* say; a call that fails leaves no trace, its transaction is rolled back. *)
(***************************************************************************)
EXTENDS TopoGeom, TopoLinks

CONSTANTS
  MaxFace,     \* bound of the face identifier sequence of the backend
  Points,      \* points the callers pass
  Curves,      \* lines the callers pass
  LoadedNodes  \* points of the isolated nodes of the loaded topology

\* lwt_AddEdgeModFace and the others remove repeated points from the lines they
\* are given, and the nodes of a topology lie apart.
ASSUME GeometryAssumption ==
  /\ Points \subseteq Plane
  /\ Curves \subseteq Polylines
  /\ LoadedNodes \in Seq(Plane) /\ Len(LoadedNodes) <= MaxNode
  /\ \A i, j \in DOMAIN LoadedNodes : LoadedNodes[i] = LoadedNodes[j] => i = j
  /\ MaxFace \in Nat

VARIABLES
  pt,          \* node -> its point
  contFace,    \* node -> containing_face
  line,        \* edge -> its line
  left,        \* dart -> face on its left
  mbr,         \* face other than 0 -> its bounding box
  lastFace     \* last identifier drawn from the face sequence

faceVars == <<left, mbr, lastFace>>
vars == <<links, pt, contFace, line, faceVars>>

\* A table with the row of id, new or changed.
WithRow(table, id, row) ==
  [x \in DOMAIN table \cup {id} |-> IF x = id THEN row ELSE table[x]]

Abs(d) == IF d < 0 THEN -d ELSE d

\* The line of a dart, in the direction of the dart.
Path(lines, d) == IF d > 0 THEN lines[d] ELSE Reverse(lines[-d])

-----------------------------------------------------------------------------
(* Rings *)

\* lwt_be_getRingEdges: the darts on the walk along succ that starts with d.
Ring(succ, d) ==
  LET walked[n \in 0..Cardinality(DOMAIN succ)] ==
        IF n = 0 THEN {d}
        ELSE LET w == walked[n - 1] IN w \cup {succ[c] : c \in w}
  IN  walked[Cardinality(DOMAIN succ)]

\* The shell _lwt_MakeRingShell builds from a ring contains the point.
InShell(lines, ring, p) ==
  /\ \A d \in ring : ~ OnLine(p, lines[Abs(d)])
  /\ Cardinality(UNION {{d} \X Rising(p, Path(lines, d)) : d \in ring})
       # Cardinality(UNION {{d} \X Falling(p, Path(lines, d)) : d \in ring})

\* ptarray_isccw of that shell
IsCcw(lines, ring) ==
  MapThenSumSet(LAMBDA d : SignedArea(Path(lines, d)), ring) <= 0

ShellBox(lines, ring) ==
  Box(UNION {{lines[Abs(d)][i] : i \in DOMAIN lines[Abs(d)]} : d \in ring})

-----------------------------------------------------------------------------
(* Edge ends *)

\* _lwt_FindAdjacentEdges among the darts of ends, for an edge end that
\* leaves in direction u.
FindAdjacent(ends, u) ==
  IF ends = {} THEN NoEnd
  ELSE LET to(d) == Departure(Path(line, d))
       IN  [cw |-> CHOOSE d \in ends :
                     \A c \in ends \ {d} : ClockwiseBefore(u, to(d), to(c)),
            ccw |-> CHOOSE d \in ends :
                      \A c \in ends \ {d} : ClockwiseBefore(u, to(c), to(d))]

\* The same when the new edge's other end leaves the node in direction v.
FindAdjacentBut(ends, u, v) ==
  LET to(d) == Departure(Path(line, d))
      near == FindAdjacent({d \in ends : ClockwiseBefore(u, to(d), v)}, u)
      far == FindAdjacent({d \in ends : ClockwiseBefore(u, v, to(d))}, u)
  IN  [cw |-> near.cw, ccw |-> far.ccw]

\* Mutation: the ends of a closed edge do not see each other.
AdjacenciesNoOther(a, b, l, except) ==
  LET at(n) == EndsAt(n) \ {except, -except}
  IN  <<FindAdjacent(at(a), Departure(l)),
        FindAdjacent(at(b), Direction(Last(l), l[Len(l) - 1]))>>

\* What is next to the two ends of line l from node a to node b.
Adjacencies(a, b, l, except) ==
  LET u == Departure(l)
      v == Direction(Last(l), l[Len(l) - 1])
      at(n) == EndsAt(n) \ {except, -except}
  IN  IF a = b
      THEN <<FindAdjacentBut(at(a), u, v), FindAdjacentBut(at(a), v, u)>>
      ELSE <<FindAdjacent(at(a), u), FindAdjacent(at(b), v)>>

\* The faces an edge end meets on its two sides, -1 for none.
CwFace(end) == IF end.cw = 0 THEN -1 ELSE left[end.cw]

CcwFace(end) == IF end.ccw = 0 THEN -1 ELSE left[-end.ccw]

-----------------------------------------------------------------------------
(* Guards *)

\* lwt_be_ExistsCoincidentNode
CoincidentNode(p) == \E n \in nodes : pt[n] = p

\* lwt_be_ExistsEdgeIntersectingPoint
EdgeThrough(p) == \E e \in edges : OnLine(p, line[e])

\* Mutation: only the edges are looked at.
NoCrossingEdges(a, b, l, myself) ==
  \A e \in edges \ {myself} : ~ InteriorsMeet(line[e], l)

\* _lwt_CheckEdgeCrossing passes.
NoCrossing(a, b, l, myself) ==
  /\ \A n \in nodes \ {a, b} : ~ OnLine(pt[n], l)
  /\ \A e \in edges \ {myself} : ~ InteriorsMeet(line[e], l)

EndpointsMatch(a, b, l) == pt[a] = Head(l) /\ pt[b] = Last(l)

\* lwt_be_getFaceContainingPoint, 0 when it finds none: a face contains the
\* points its borders wind around.
Border(f) == {d \in Darts(edges) : left[d] = f /\ left[-d] # f}

FaceAt(p) ==
  LET found == {f \in DOMAIN mbr : InShell(line, Border(f), p)}
  IN  IF found = {} THEN 0 ELSE CHOOSE f \in found : TRUE

-----------------------------------------------------------------------------
(* Isolated nodes *)

AddIsoNode(p) ==
  /\ ~ CoincidentNode(p)
  /\ ~ EdgeThrough(p)
  /\ LinksAddIsoNode
  /\ pt' = WithRow(pt, lastNode', p)
  /\ contFace' = WithRow(contFace, lastNode', FaceAt(p))
  /\ UNCHANGED <<line, faceVars>>

\* _lwt_GetIsoNode accepts the node.
Isolated(n) == contFace[n] # -1

RemoveIsoNode(n) ==
  /\ Isolated(n)
  /\ nodes' = nodes \ {n}
  /\ pt' = Restrict(pt, nodes')
  /\ contFace' = Restrict(contFace, nodes')
  /\ UNCHANGED <<edges, org, next, lastNode, lastEdge, line, faceVars>>

\* The node keeps its containing_face, whatever face p is in.
MoveIsoNode(n, p) ==
  /\ Isolated(n)
  /\ ~ CoincidentNode(p)
  /\ ~ EdgeThrough(p)
  /\ pt' = [pt EXCEPT ![n] = p]
  /\ UNCHANGED <<links, contFace, line, faceVars>>

-----------------------------------------------------------------------------
(* Adding edges *)

AddIsoEdge(a, b, l) ==
  LET k == lastEdge + 1
  IN  /\ a # b /\ Isolated(a) /\ Isolated(b)
      /\ contFace[a] = contFace[b]
      /\ EndpointsMatch(a, b, l)
      /\ IsSimple(l)
      /\ NoCrossing(a, b, l, 0)
      /\ k <= MaxEdge
      /\ lastEdge' = k
      /\ InsertEdge(k, a, b, -k, k, next)
      /\ line' = WithRow(line, k, l)
      /\ left' = WithRow(WithRow(left, k, contFace[a]), -k, contFace[a])
      /\ contFace' = [contFace EXCEPT ![a] = -1, ![b] = -1]
      /\ UNCHANGED <<nodes, lastNode, pt, mbr, lastFace>>

(* _lwt_AddFaceSplit works on the labels t = [left, contFace, mbr, lastFace]
   of the topology that already holds the new edge, with links succ and
   lines ln.  It may give the part of face f on the left of dart d a face. *)

\* Mutation: the new face is always looked for inside of the ring.
TakeOverInside(t, ln, ring, f, g, outside) ==
  LET onRing(d) == d \in ring \/ -d \in ring
      moves(d) == IF onRing(d) THEN d \in ring
                  ELSE t.left[d] = f /\ InShell(ln, ring, InteriorPoint(ln[Abs(d)]))
  IN  [t EXCEPT
        !.left = [d \in DOMAIN t.left |-> IF moves(d) THEN g ELSE t.left[d]],
        !.contFace = [n \in DOMAIN t.contFace |->
                        IF t.contFace[n] = f /\ InShell(ln, ring, pt[n]) THEN g
                        ELSE t.contFace[n]]]

\* What face g takes over from f: everything of f inside the ring's shell
\* or, when the ring is a hole of f, everything of f outside of it.
TakeOver(t, ln, ring, f, g, outside) ==
  LET taken(p) == InShell(ln, ring, p) # outside
      onRing(d) == d \in ring \/ -d \in ring
      moves(d) == IF onRing(d) THEN d \in ring /\ f \in {t.left[d], t.left[-d]}
                  ELSE t.left[d] = f /\ taken(InteriorPoint(ln[Abs(d)]))
  IN  [t EXCEPT
        !.left = [d \in DOMAIN t.left |-> IF moves(d) THEN g ELSE t.left[d]],
        !.contFace = [n \in DOMAIN t.contFace |->
                        IF t.contFace[n] = f /\ taken(pt[n]) THEN g
                        ELSE t.contFace[n]]]

\* The result is as in the code: 0 no ring, -1 no face wanted on this side.
AddFaceSplit(t, succ, ln, d, f, mbrOnly) ==
  LET ring == Ring(succ, d)
      ccw == IsCcw(ln, ring)
      box == ShellBox(ln, ring)
      g == t.lastFace + 1
      hole == f # 0 /\ ~ ccw
  IN  CASE -d \in ring -> [result |-> 0, t |-> t]
        [] -d \notin ring /\ f = 0 /\ ~ ccw -> [result |-> -1, t |-> t]
        [] -d \notin ring /\ f # 0 /\ mbrOnly ->
             [result |-> -1,
              t |-> IF ccw THEN [t EXCEPT !.mbr[f] = box] ELSE t]
        [] OTHER ->
             [result |-> g,
              t |-> [TakeOver(t, ln, ring, f, g, hole) EXCEPT
                       !.lastFace = g,
                       !.mbr = WithRow(@, g, IF hole THEN t.mbr[f] ELSE box)]]

\* Mutation: the face that is kept keeps its box.
SplitModFaceNoShrink(t, succ, ln, k, f) ==
  LET leftSide == AddFaceSplit(t, succ, ln, k, f, FALSE)
  IN  IF leftSide.result < 0 THEN AddFaceSplit(t, succ, ln, -k, f, FALSE).t
      ELSE leftSide.t

\* Face f is split by edge k: AddEdgeModFace keeps f for one part.
SplitModFace(t, succ, ln, k, f) ==
  LET leftSide == AddFaceSplit(t, succ, ln, k, f, FALSE)
  IN  CASE leftSide.result = 0 -> t
        [] leftSide.result < 0 -> AddFaceSplit(t, succ, ln, -k, f, FALSE).t
        [] OTHER -> AddFaceSplit(leftSide.t, succ, ln, -k, f, TRUE).t

\* AddEdgeNewFaces makes a face of each part and drops f.
SplitNewFaces(t, succ, ln, k, f) ==
  LET rightSide == AddFaceSplit(t, succ, ln, -k, f, FALSE)
      leftSide == AddFaceSplit(rightSide.t, succ, ln, k, f, FALSE)
  IN  IF rightSide.result = 0 THEN t
      ELSE [leftSide.t EXCEPT !.mbr = Restrict(@, DOMAIN @ \ {f})]

Or(x, y) == IF x # -1 THEN x ELSE y

(* The faces on the right and on the left of a new edge from a to b whose  *)
(* ends' neighbours are s and t: of its isolated nodes, else of s, else as *)
(* in the code of the other side of s.  Those of t must agree.             *)
SideFaces(a, b, s, t) ==
  LET given == Or(contFace[a], contFace[b])
      right == Or(given, CwFace(s))
      leftOf == Or(given, CcwFace(s))
  IN  IF EndsAt(b) = {} THEN <<right, leftOf>>
      ELSE <<Or(right, CcwFace(s)), Or(leftOf, CwFace(s))>>

NoSideConflict(a, b, s, t) ==
  LET given == Or(contFace[a], contFace[b])
  IN  /\ -1 \in {contFace[a], contFace[b]} \/ contFace[a] = contFace[b]
      /\ EndsAt(b) # {} =>
           /\ Or(given, CwFace(s)) \in {-1, CcwFace(t)}
           /\ Or(given, CcwFace(s)) \in {-1, CwFace(t)}

\* Mutation: only the start node is looked at.
ConnectedStart(a, b) ==
  [n \in nodes |-> IF n = a /\ EndsAt(n) = {} THEN -1 ELSE contFace[n]]

\* containing_face when an edge comes to join a and b.
Connected(a, b) ==
  [n \in nodes |-> IF n \in {a, b} /\ EndsAt(n) = {} THEN -1 ELSE contFace[n]]

AddEdge(a, b, l, newFaces) ==
  LET k == lastEdge + 1
      adjacent == Adjacencies(a, b, l, 0)
      s == adjacent[1]
      e == adjacent[2]
      sides == SideFaces(a, b, s, e)
      f == sides[2]
      labels == [left |-> WithRow(WithRow(left, k, f), -k, f),
                 contFace |-> Connected(a, b),
                 mbr |-> mbr, lastFace |-> lastFace]
      open == a # b /\ (EndsAt(a) = {} \/ EndsAt(b) = {})
      split == CASE open -> labels
                 [] newFaces /\ ~ open ->
                      SplitNewFaces(labels, next', line', k, f)
                 [] OTHER -> SplitModFace(labels, next', line', k, f)
  IN  /\ EndpointsMatch(a, b, l)
      /\ IsSimple(l)
      /\ NoCrossing(a, b, l, 0)
      /\ NoSideConflict(a, b, s, e)
      /\ sides[1] = sides[2] /\ f # -1
      /\ LinksAddEdge(a, b, s, e)
      /\ line' = WithRow(line, k, l)
      /\ split.lastFace <= MaxFace
      /\ left' = split.left
      /\ contFace' = split.contFace
      /\ mbr' = split.mbr
      /\ lastFace' = split.lastFace
      /\ UNCHANGED pt

-----------------------------------------------------------------------------
(* Removing edges *)

\* Mutation: isolated nodes keep their face.
RemEdgeLabelsEdgesOnly(e, flood) ==
  /\ left' = [d \in Darts(edges \ {e}) |->
                IF left[d] \in {left[e], left[-e]} THEN flood ELSE left[d]]
  /\ contFace' = [n \in nodes |-> IF EndsAt(n) # {} /\ EndsAt(n) \subseteq {e, -e}
                                  THEN flood ELSE contFace[n]]

\* What is left of the two faces of edge e becomes face flood.
RemEdgeLabels(e, flood) ==
  LET gone == {left[e], left[-e]}
      healed == Cardinality(gone) = 2
      heal(f) == IF healed /\ f \in gone THEN flood ELSE f
      others == nodes \ {org[e], org[-e]}
      lonely(n) == EndsAt(n) \subseteq {e, -e}
  IN  /\ left' = [d \in Darts(edges \ {e}) |-> heal(left[d])]
      /\ contFace' = [n \in nodes |->
                        IF n \notin others /\ lonely(n) THEN flood
                        ELSE heal(contFace[n])]

RemEdge(e, newFaces) ==
  LET gone == {left[e], left[-e]}
      union == BoxUnion(mbr[left[e]], mbr[left[-e]])
      kept == Restrict(mbr, DOMAIN mbr \ gone)
  IN  /\ LinksRemEdge(e)
      /\ line' = Restrict(line, edges')
      /\ UNCHANGED pt
      /\ \/ /\ Cardinality(gone) = 1
            /\ RemEdgeLabels(e, left[e])
            /\ UNCHANGED <<mbr, lastFace>>
         \/ /\ Cardinality(gone) = 2 /\ 0 \in gone
            /\ RemEdgeLabels(e, 0)
            /\ mbr' = kept
            /\ UNCHANGED lastFace
         \/ /\ Cardinality(gone) = 2 /\ 0 \notin gone /\ ~ newFaces
            /\ RemEdgeLabels(e, left[-e])
            /\ mbr' = WithRow(kept, left[-e], union)
            /\ UNCHANGED lastFace
         \/ /\ Cardinality(gone) = 2 /\ 0 \notin gone /\ newFaces
            /\ lastFace < MaxFace
            /\ lastFace' = lastFace + 1
            /\ RemEdgeLabels(e, lastFace')
            /\ mbr' = WithRow(kept, lastFace', union)

RemIsoEdge(e) ==
  /\ left[e] = left[-e]
  /\ EndsAt(org[e]) \cup EndsAt(org[-e]) = {e, -e}
  /\ edges' = edges \ {e}
  /\ org' = Restrict(org, Darts(edges'))
  /\ next' = Restrict(next, Darts(edges'))
  /\ line' = Restrict(line, edges')
  /\ left' = Restrict(left, Darts(edges'))
  /\ contFace' = [contFace EXCEPT ![org[e]] = left[e], ![org[-e]] = left[e]]
  /\ UNCHANGED <<nodes, lastNode, lastEdge, pt, mbr, lastFace>>

-----------------------------------------------------------------------------
(* Splitting and healing edges *)

\* _lwt_EdgeSplit finds two parts.
SplitsAt(e, p) ==
  /\ ~ CoincidentNode(p)
  /\ p \notin Ends(line[e])
  /\ OnLine(p, line[e])

\* Edge e becomes the edges m, up to p, and k, from p.
SplitLabels(e, m, k, p) ==
  /\ pt' = WithRow(pt, lastNode', p)
  /\ contFace' = WithRow(contFace, lastNode', -1)
  /\ line' = [c \in edges' |-> CASE c = m -> HeadTo(line[e], p)
                                [] c = k -> TailFrom(line[e], p)
                                [] OTHER -> line[c]]
  /\ left' = [d \in Darts(edges') |-> CASE d \in {m, k} -> left[e]
                                        [] d \in {-m, -k} -> left[-e]
                                        [] OTHER -> left[d]]
  /\ UNCHANGED <<mbr, lastFace>>

ModEdgeSplit(e, p) ==
  /\ SplitsAt(e, p)
  /\ LinksModEdgeSplit(e)
  /\ SplitLabels(e, e, lastEdge + 1, p)

NewEdgesSplit(e, p) ==
  /\ SplitsAt(e, p)
  /\ LinksNewEdgesSplit(e)
  /\ SplitLabels(e, lastEdge + 1, lastEdge + 2, p)

HealLabels(f, l, k) ==
  /\ pt' = Restrict(pt, nodes')
  /\ contFace' = Restrict(contFace, nodes')
  /\ line' = [c \in edges' |-> IF c = k THEN Joined(Path(line, f), Path(line, l))
                               ELSE line[c]]
  /\ left' = [d \in Darts(edges') |-> IF d = k THEN left[f]
                                       ELSE IF d = -k THEN left[-f]
                                       ELSE left[d]]
  /\ UNCHANGED <<mbr, lastFace>>

ModEdgeHeal(e1, e2) ==
  /\ Healable(e1, e2)
  /\ \E p \in HealPaths(e1, e2) :
       /\ Heal(p[1], p[2], e1, e2, e1)
       /\ HealLabels(p[1], p[2], e1)
  /\ UNCHANGED lastEdge

NewEdgeHeal(e1, e2) ==
  /\ Healable(e1, e2)
  /\ lastEdge < MaxEdge
  /\ lastEdge' = lastEdge + 1
  /\ \E p \in HealPaths(e1, e2) :
       /\ Heal(p[1], p[2], e1, e2, lastEdge')
       /\ HealLabels(p[1], p[2], lastEdge')

-----------------------------------------------------------------------------
(* Changing the line of an edge *)

LineBox(l) == Box({l[i] : i \in DOMAIN l})

\* No other node is inside one of the lines and not inside the other.
NoCollision(a, b, old, l) ==
  \A n \in nodes \ {a, b} : Inside(old, pt[n]) = Inside(l, pt[n])

Twisted(old, l) == (SignedArea(old) <= 0) # (SignedArea(l) <= 0)

\* The faces beside e get the box of their geometry, made of lines ln.
ReboxedFaces(e, ln) ==
  [f \in DOMAIN mbr |->
     IF f \in {left[e], left[-e]} THEN ShellBox(ln, Border(f)) ELSE mbr[f]]

ChangeEdgeGeom(e, l) ==
  LET a == org[e]
      b == org[-e]
      old == line[e]
  IN  /\ IsSimple(l)
      /\ Head(l) = Head(old) /\ Last(l) = Last(old)
      /\ a = b => ~ Twisted(old, l)
      /\ NoCrossing(a, b, l, e)
      /\ NoCollision(a, b, old, l)
      /\ Adjacencies(a, b, old, e) = Adjacencies(a, b, l, e)
      /\ line' = [line EXCEPT ![e] = l]
      /\ mbr' = IF LineBox(l) = LineBox(old) THEN mbr
                ELSE ReboxedFaces(e, line')
      /\ UNCHANGED <<links, pt, contFace, left, lastFace>>

\* The walks on both sides of e keep their orientation: see FacesOK.
KeepsOrientation(e) ==
  \A d \in {e, -e} : IsCcw(line, Ring(next, d)) = IsCcw(line', Ring(next, d))

-----------------------------------------------------------------------------

\* A topology of isolated nodes, as lwt_LoadTopology may find it.
Init ==
  /\ lastNode = Len(LoadedNodes)
  /\ nodes = 1..lastNode
  /\ pt = [n \in nodes |-> LoadedNodes[n]]
  /\ contFace = [n \in nodes |-> 0]
  /\ edges = {} /\ lastEdge = 0
  /\ org = [d \in {} |-> 0] /\ next = org /\ line = org /\ left = org
  /\ mbr = [f \in {} |-> 0] /\ lastFace = 0

Next ==
  \/ \E p \in Points : AddIsoNode(p)
  \/ \E n \in nodes : RemoveIsoNode(n)
  \/ \E n \in nodes, p \in Points :
       FaceAt(p) = contFace[n] /\ MoveIsoNode(n, p)
  \/ \E a, b \in nodes, l \in Curves : AddIsoEdge(a, b, l)
  \/ \E a, b \in nodes, l \in Curves, newFaces \in BOOLEAN :
       AddEdge(a, b, l, newFaces)
  \/ \E e \in edges, newFaces \in BOOLEAN : RemEdge(e, newFaces)
  \/ \E e \in edges : RemIsoEdge(e)
  \/ \E e \in edges, p \in Points : ModEdgeSplit(e, p)
  \/ \E e \in edges, p \in Points :
       NoRightReference(e) /\ NewEdgesSplit(e, p)
  \/ \E e1, e2 \in edges : ModEdgeHeal(e1, e2)
  \/ \E e1, e2 \in edges : NewEdgeHeal(e1, e2)
  \/ \E e \in edges, l \in Curves : ChangeEdgeGeom(e, l) /\ KeepsOrientation(e)

Spec == Init /\ [][Next]_vars

\* Every change of a line that the code accepts.
NextAnyChange == Next \/ \E e \in edges, l \in Curves : ChangeEdgeGeom(e, l)

SpecAnyChange == Init /\ [][NextAnyChange]_vars

-----------------------------------------------------------------------------
(* Properties *)

\* The tables fit together: each row has its geometry, and each reference to a face
\* is one that was drawn from the sequence.
TypeOK ==
  /\ LinksTypeOK
  /\ pt \in [nodes -> Plane]
  /\ line \in [edges -> Polylines]
  /\ left \in [Darts(edges) -> 0..lastFace]
  /\ contFace \in [nodes -> -1..lastFace]
  /\ DOMAIN mbr \subseteq 1..lastFace
  /\ lastFace \in 0..MaxFace

\* Edges start and end at their nodes, meet only there, and no node lies on
\* another or on an edge, whatever sequence of calls drew them.
Planar ==
  /\ TypeOK
  /\ \A e \in edges : EndpointsMatch(org[e], org[-e], line[e])
  /\ \A e \in edges : IsSimple(line[e])
  /\ \A c, e \in edges : c < e => ~ InteriorsMeet(line[c], line[e])
  /\ \A m, n \in nodes : m < n => pt[m] # pt[n]
  /\ \A n \in nodes, e \in edges :
       OnLine(pt[n], line[e]) => n \in {org[e], org[-e]}

\* The dart after d is the first one clockwise of d's reverse in the plane:
\* the links agree with the geometry they are a cache of.
NextIsClockwise ==
  \A d \in Darts(edges) :
    LET others == EndsAt(org[-d]) \ {-d}
    IN  next[d] = IF others = {} THEN -d
                  ELSE FindAdjacent(others, Departure(Path(line, -d))).cw

\* The walks around something: each bounded face is inside one of them.
Outlines ==
  {R \in {Ring(next, d) : d \in Darts(edges)} :
     MapThenSumSet(LAMBDA d : SignedArea(Path(line, d)), R) < 0}

\* Those of outlines that have the left side of dart d, or point p, inside.
Around(outlines, d) ==
  {R \in outlines :
     \/ d \in R
     \/ -d \notin R /\ InShell(line, R, InteriorPoint(line[Abs(d)]))}

AroundPoint(outlines, p) == {R \in outlines : InShell(line, R, p)}

\* face_left and face_right name the region of the plane on that side: the
\* same face exactly when the same outlines are around, 0 outside of all;
\* so does the containing_face of an isolated node, which is NULL for a node
\* that an edge ends at.
FacesOK ==
  LET outlines == Outlines
      around == [d \in Darts(edges) |-> Around(outlines, d)]
      aroundNode == [n \in nodes |-> AroundPoint(outlines, pt[n])]
  IN  /\ \A c, d \in Darts(edges) : left[c] = left[d] <=> around[c] = around[d]
      /\ \A d \in Darts(edges) : left[d] = 0 <=> around[d] = {}
      /\ \A n \in nodes :
           IF EndsAt(n) # {} THEN contFace[n] = -1
           ELSE /\ contFace[n] = 0 <=> aroundNode[n] = {}
                /\ \A d \in Darts(edges) :
                     contFace[n] = left[d] <=> aroundNode[n] = around[d]

\* The face table has the faces that edges refer to and no other, each with
\* the bounding box of its outline; nodes refer to no other face either.
FaceTableOK ==
  /\ mbr \in [DOMAIN mbr -> [xmin : Int, ymin : Int, xmax : Int, ymax : Int]]
  /\ DOMAIN mbr = Range(left) \ {0}
  /\ Range(contFace) \subseteq DOMAIN mbr \cup {-1, 0}
  /\ \A R \in Outlines : \E b \in {ShellBox(line, R)} : \A d \in R : mbr[left[d]] = b

\* Drawing in the plane is linking edges at corners: the azimuths choose the
\* corner, the stored containing_face tells the isolated nodes.
ImplementsLinks == LinksSpec

=============================================================================
