----------------------------- MODULE TopoProofs -----------------------------
(***************************************************************************)
(* The drawing of a topology, for any number of nodes, edges and points of *)
(* any line: whatever sequence of calls made it, edges meet in their nodes *)
(* only, and the links turn around every node as the edges do in the       *)
(* plane.  So the azimuths choose a corner that TopoLinks allows, and a    *)
(* topology implements it.                                                 *)
(*                                                                         *)
(* TopoInv says of all points of the lines (TopoGeomProofs) what Planar    *)
(* says with the predicates of the code, and of all ends around a node     *)
(* what NextIsClockwise says of the one that _lwt_FindAdjacentEdges finds. *)
(* Each is needed for the other: that edges are apart makes them leave a   *)
(* node in different directions, which the order around it needs; that     *)
(* isolated nodes have no edges (IsolatedAlone) lets the calls for them    *)
(* look at no geometry.  Which face is where is no part of it: FacesOK.    *)
(***************************************************************************)
EXTENDS Topo, TopoLinksProofs, TopoGeomProofs

-----------------------------------------------------------------------------
(* The invariant *)

\* Where the darts leave to, and the dart that each turns to at its node.
Departs == [d \in Darts(edges) |-> Departure(Path(line, d))]

Turned == [d \in Darts(edges) |-> next[-d]]

\* Planar, in terms that tell of all points.
Drawn ==
  /\ \A e \in edges : Simple(line[e])
  /\ \A e \in edges : pt[org[e]] = Head(line[e]) /\ pt[org[-e]] = Last(line[e])
  /\ \A c, e \in edges : c # e => Apart(line[c], line[e])
  /\ \A m, n \in nodes : m # n => pt[m] # pt[n]
  /\ \A n \in nodes, e \in edges : OnLine(pt[n], line[e]) => n \in {org[e], org[-e]}

\* Around every node the links turn clockwise.
Clockwise == \A n \in nodes : Turns(EndsAt(n), Departs, Turned)

\* Only nodes without edges have a containing_face.
IsolatedAlone == \A n \in nodes : contFace[n] = -1 <=> EndsAt(n) # {}

LabelsTypeOK ==
  /\ left \in [Darts(edges) -> 0..lastFace]
  /\ contFace \in [nodes -> -1..lastFace]
  /\ DOMAIN mbr \subseteq 1..lastFace
  /\ lastFace \in 0..MaxFace

Tables == pt \in [nodes -> Plane] /\ line \in [edges -> Polylines]

TopoInv ==
  /\ LinksInv
  /\ Tables
  /\ LabelsTypeOK
  /\ Drawn
  /\ Clockwise
  /\ IsolatedAlone

-----------------------------------------------------------------------------
(* Lines of darts *)

\* The line of a dart is that of its edge, forwards or backwards.
LEMMA PathFacts ==
  ASSUME LinksTypeOK, line \in [edges -> Polylines], NEW d \in Darts(edges)
  PROVE  /\ Path(line, d) \in Polylines
         /\ Path(line, -d) = Reverse(Path(line, d))
         /\ d \in edges => Path(line, d) = line[d] /\ Path(line, -d) = Reverse(line[d])
         /\ d \notin edges => -d \in edges /\ Path(line, d) = Reverse(line[-d]) /\ Path(line, -d) = line[-d]
<1>1. CASE d \in edges
  <2>1. d > 0 /\ ~ (-d > 0) /\ -(-d) = d
    BY <1>1, DartFacts
  <2>2. Path(line, d) = line[d] /\ Path(line, -d) = Reverse(line[d])
    BY <2>1 DEF Path
  <2> QED BY <1>1, <2>2
<1>2. CASE d \notin edges
  <2>1. -d \in edges /\ -d > 0 /\ ~ (d > 0)
    BY <1>2, DartFacts
  <2>2. Path(line, d) = Reverse(line[-d]) /\ Path(line, -d) = line[-d]
    BY <2>1 DEF Path
  <2>3. line[-d] \in Polylines
    BY <2>1
  <2> QED BY <1>2, <2>1, <2>2, <2>3, Reversed
<1> QED BY <1>1, <1>2

\* What Drawn says of the darts.
LEMMA DartsDrawn ==
  ASSUME LinksTypeOK, Tables, Drawn, NEW d \in Darts(edges)
  PROVE  /\ Path(line, d) \in Polylines
         /\ Simple(Path(line, d))
         /\ Head(Path(line, d)) = pt[org[d]] /\ Last(Path(line, d)) = pt[org[-d]]
         /\ \A c \in Darts(edges) : c # d /\ c # -d => Apart(Path(line, d), Path(line, c))
         /\ \A n \in nodes : OnLine(pt[n], Path(line, d)) => n \in {org[d], org[-d]}
         /\ pt[org[d]] \in Plane
<1> USE DEF Tables
<1> DEFINE E(x) == IF x \in edges THEN x ELSE -x
<1>1. ASSUME NEW x \in Darts(edges)
      PROVE  /\ E(x) \in edges /\ line[E(x)] \in Polylines
             /\ Path(line, x) \in {line[E(x)], Reverse(line[E(x)])}
  BY PathFacts
<1>2. Path(line, d) \in Polylines /\ Simple(Path(line, d))
  BY <1>1, Reversed, ReversedSimple DEF Drawn
<1>3. Head(Path(line, d)) = pt[org[d]] /\ Last(Path(line, d)) = pt[org[-d]]
  <2>1. CASE d \in edges
    BY <2>1, PathFacts DEF Drawn
  <2>2. CASE d \notin edges
    <3>1. -d \in edges /\ -(-d) = d /\ Path(line, d) = Reverse(line[-d]) /\ line[-d] \in Polylines
      BY <2>2, PathFacts, DartFacts
    <3>2. pt[org[-d]] = Head(line[-d]) /\ pt[org[d]] = Last(line[-d])
      BY <3>1 DEF Drawn
    <3> QED BY <3>1, <3>2, Reversed
  <2> QED BY <2>1, <2>2
<1>4. ASSUME NEW c \in Darts(edges), c # d, c # -d PROVE Apart(Path(line, d), Path(line, c))
  <2>1. E(c) # E(d)
    BY <1>4, DartFacts
  <2>2. Apart(line[E(d)], line[E(c)])
    BY <1>1, <2>1 DEF Drawn
  <2>3. Apart(Path(line, d), line[E(c)])
    BY <1>1, <2>2, ReversedApart
  <2>4. Apart(line[E(c)], Path(line, d))
    BY <1>1, <1>2, <2>3, ApartSwap
  <2>5. Apart(Path(line, c), Path(line, d)) /\ Path(line, c) \in Polylines
    BY <1>1, <1>2, <2>4, ReversedApart, Reversed
  <2> QED BY <1>2, <2>5, ApartSwap
<1>5. ASSUME NEW n \in nodes, OnLine(pt[n], Path(line, d)) PROVE n \in {org[d], org[-d]}
  <2>1. OnLine(pt[n], line[E(d)]) /\ pt[n] \in Plane
    BY <1>1, <1>5, ReversedPoints
  <2>2. n \in {org[E(d)], org[-E(d)]}
    BY <1>1, <2>1 DEF Drawn
  <2> QED BY <2>2, DartFacts
<1>6. pt[org[d]] \in Plane
  BY DEF LinksTypeOK
<1> QED BY <1>2, <1>3, <1>4, <1>5, <1>6

\* The ends of a node are darts that leave it.
LEMMA EndsFacts ==
  ASSUME LinksTypeOK, NEW n, NEW d \in EndsAt(n)
  PROVE  d \in Darts(edges) /\ -d \in Darts(edges) /\ -(-d) = d /\ d # -d /\ org[d] = n
  BY DartFacts DEF EndsAt

LEMMA FewEnds ==
  ASSUME LinksTypeOK, NEW n
  PROVE  IsFiniteSet(EndsAt(n))
<1>1. lastEdge \in Int /\ -lastEdge \in Int
  BY DEF LinksTypeOK
<1>2. EndsAt(n) \subseteq (-lastEdge)..lastEdge
  BY <1>1, DartFacts DEF EndsAt
<1> QED BY <1>1, <1>2, FS_Interval, FS_Subset

\* No two darts leave a node in the same way.
LEMMA EndsSpread ==
  ASSUME LinksTypeOK, Tables, Drawn, NEW n
  PROVE  Spread(EndsAt(n), Departs)
<1>1. ASSUME NEW c \in EndsAt(n) PROVE Departs[c] = Departure(Path(line, c)) /\ Departs[c] \in Ways
  BY EndsFacts, DartsDrawn, DepartureWay DEF Departs
<1>2. ASSUME NEW c \in EndsAt(n), NEW d \in EndsAt(n), c # d PROVE ~ SameWay(Departs[c], Departs[d])
  <2>1. c \in Darts(edges) /\ d \in Darts(edges) /\ org[c] = n /\ org[d] = n
    BY EndsFacts
  <2>2. Head(Path(line, c)) = pt[n] /\ Head(Path(line, d)) = pt[n]
    BY <2>1, DartsDrawn
  <2>3. CASE d # -c
    <3>1. Apart(Path(line, c), Path(line, d))
      BY <1>2, <2>1, <2>3, DartsDrawn, DartFacts
    <3> QED BY <1>1, <2>1, <2>2, <3>1, DartsDrawn, ApartDepart
  <2>4. CASE d = -c
    <3>1. Path(line, d) = Reverse(Path(line, c)) /\ Path(line, c) \in Polylines
      BY <2>1, <2>4, PathFacts DEF Tables
    <3>2. Head(Path(line, c)) = Last(Path(line, c)) /\ Simple(Path(line, c))
      BY <2>1, <2>2, <3>1, DartsDrawn, Reversed
    <3> QED BY <1>1, <3>1, <3>2, ClosedDepart
  <2> QED BY <2>3, <2>4
<1> QED BY <1>1, <1>2 DEF Spread

LEMMA AllSpread == LinksTypeOK /\ Tables /\ Drawn => \A n : Spread(EndsAt(n), Departs)
  BY EndsSpread

LEMMA EndsSpreadNext == (LinksTypeOK /\ Tables /\ Drawn => \A n : Spread(EndsAt(n), Departs))'
  BY AllSpread, PTL

\* _lwt_FindAdjacentEdges finds the first and the last of the ends E clockwise
\* of an end a that leaves in direction u.
LEMMA Adjacents ==
  ASSUME NEW E, IsFiniteSet(E), E # {}, NEW D, NEW a, a \notin E, Spread(E \cup {a}, D),
         NEW u, D[a] = u, \A c \in E : D[c] = Departure(Path(line, c))
  PROVE  /\ FirstAfter(E, D, a, FindAdjacent(E, u).cw)
         /\ LastAfter(E, D, a, FindAdjacent(E, u).ccw)
<1> DEFINE F(d) == \A c \in E \ {d} : ClockwiseBefore(u, Departure(Path(line, d)), Departure(Path(line, c)))
           L(d) == \A c \in E \ {d} : ClockwiseBefore(u, Departure(Path(line, c)), Departure(Path(line, d)))
<1>1. FindAdjacent(E, u) = [cw |-> CHOOSE d \in E : F(d), ccw |-> CHOOSE d \in E : L(d)]
  BY DEF FindAdjacent
<1>2. \A d \in E : (F(d) <=> FirstAfter(E, D, a, d)) /\ (L(d) <=> LastAfter(E, D, a, d))
  BY DEF FirstAfter, LastAfter, Before
<1>3. (\E d \in E : FirstAfter(E, D, a, d)) /\ (\E d \in E : LastAfter(E, D, a, d))
  BY FirstAndLast
<1> HIDE DEF F, L
<1>4. FindAdjacent(E, u).cw = (CHOOSE d \in E : F(d)) /\ FindAdjacent(E, u).ccw = (CHOOSE d \in E : L(d))
  BY <1>1
<1>5. /\ (CHOOSE d \in E : F(d)) \in E /\ F(CHOOSE d \in E : F(d))
      /\ (CHOOSE d \in E : L(d)) \in E /\ L(CHOOSE d \in E : L(d))
  BY <1>2, <1>3
<1> QED BY <1>2, <1>4, <1>5

\* The invariant says what the properties say.
LEMMA ClockwiseMeaning ==
  ASSUME TopoInv
  PROVE  NextIsClockwise
<1> SUFFICES ASSUME NEW d \in Darts(edges)
             PROVE  LET others == EndsAt(org[-d]) \ {-d}
                    IN  next[d] = IF others = {} THEN -d
                                  ELSE FindAdjacent(others, Departure(Path(line, -d))).cw
  BY DEF NextIsClockwise
<1> DEFINE n == org[-d]
           E == EndsAt(n)
           others == E \ {-d}
           x == FindAdjacent(others, Departure(Path(line, -d))).cw
<1>0. LinksTypeOK /\ Tables /\ Drawn
  BY DEF TopoInv, LinksInv
<1>1. -d \in Darts(edges) /\ -(-d) = d /\ n \in nodes /\ -d \in E
  BY <1>0, DartFacts DEF EndsAt, LinksTypeOK
<1>2. Turns(E, Departs, Turned) /\ Turned[-d] = next[d]
  BY <1>1 DEF TopoInv, Clockwise, Turned
<1>3. CASE others = {}
  BY <1>1, <1>2, <1>3 DEF Turns
<1>4. CASE others # {}
  <2>1. E # {-d}
    BY <1>4
  <2>2. FirstAfter(others, Departs, -d, next[d])
    BY <1>1, <1>2, <2>1 DEF Turns
  <2>3. Spread(others \cup {-d}, Departs) /\ IsFiniteSet(others) /\ -d \notin others
    <3>1. others \cup {-d} = E
      BY <1>1
    <3>2. Spread(E, Departs) /\ IsFiniteSet(E)
      BY <1>0, EndsSpread, FewEnds
    <3> QED BY <3>1, <3>2, FS_Subset
  <2>4. Departs[-d] = Departure(Path(line, -d)) /\ \A c \in others : Departs[c] = Departure(Path(line, c))
    BY <1>1 DEF Departs, EndsAt
  <2> HIDE DEF others
  <2>5. FirstAfter(others, Departs, -d, x)
    BY <1>4, <2>3, <2>4, Adjacents
  <2>6. next[d] = x
    BY <2>2, <2>3, <2>5, OneFirst
  <2> QED BY <1>4, <2>6 DEF others
<1> QED BY <1>3, <1>4

\* Drawn says what Planar says, and more.
LEMMA PlanarMeaning ==
  ASSUME TopoInv
  PROVE  TypeOK /\ Planar
<1>1. TypeOK
  BY DEF TopoInv, LinksInv, Tables, LabelsTypeOK, TypeOK
<1>2. \A e \in edges : line[e] \in Polylines
  BY DEF TopoInv, Tables
<1>3. \A c, e \in edges : c # e => ~ InteriorsMeet(line[c], line[e])
  BY <1>2, ApartMeaning DEF TopoInv, Drawn
<1>4. \A e \in edges : e \in Nat
  BY DartFacts DEF TopoInv, LinksInv
<1>5. \A n \in nodes : n \in Nat
  BY DEF TopoInv, LinksInv, LinksTypeOK
<1>6. \A e \in edges : IsSimple(line[e])
  BY <1>2, SimpleMeaning DEF TopoInv, Drawn
<1>7. \A c, e \in edges : c < e => c # e
  BY <1>4
<1>8. \A m, n \in nodes : m < n => m # n
  BY <1>5
<1> QED BY <1>1, <1>3, <1>6, <1>7, <1>8 DEF Planar, TopoInv, Drawn, EndpointsMatch

-----------------------------------------------------------------------------
(* Tables with a row more or less *)

\* Restrict leaves rows out.
LEMMA RowsKept ==
  ASSUME NEW S, NEW f, NEW V, f \in [S -> V], NEW R, R \subseteq S
  PROVE  /\ Restrict(f, R) = [x \in R |-> f[x]]
         /\ Restrict(f, R) \in [R -> V]
  BY DEF Restrict

-----------------------------------------------------------------------------
(* Nodes *)

\* A step of the node table that leaves the edges alone.
LEMMA SameEdges ==
  ASSUME TopoInv, UNCHANGED <<edges, org, next, line>>
  PROVE  /\ Darts(edges)' = Darts(edges)
         /\ \A n : EndsAt(n)' = EndsAt(n)
         /\ Departs' = Departs /\ Turned' = Turned
  BY DEF EndsAt, Departs, Turned, Darts, Path

\* A node with a containing_face has no edges that would lose it.
LEMMA NodeGone ==
  ASSUME TopoInv, NEW n \in nodes, RemoveIsoNode(n)
  PROVE  LinksRemoveIsoNode(n)
  BY DEF TopoInv, IsolatedAlone, RemoveIsoNode, Isolated, LinksRemoveIsoNode, Lonely

LEMMA AddIsoNodeKeeps ==
  ASSUME TopoInv, NEW p \in Points, AddIsoNode(p)
  PROVE  Tables' /\ LabelsTypeOK' /\ Drawn' /\ Clockwise' /\ IsolatedAlone'
<1> DEFINE k == lastNode + 1
<1>1. /\ nodes' = nodes \cup {k} /\ lastNode' = k /\ k \notin nodes /\ p \in Plane
      /\ UNCHANGED <<edges, org, next, line, left, mbr, lastFace>>
  BY GeometryAssumption DEF AddIsoNode, LinksAddIsoNode, TopoInv, LinksInv, LinksTypeOK, faceVars
<1> HIDE DEF k
<1>2. pt' = [n \in nodes \cup {k} |-> IF n = k THEN p ELSE pt[n]]
  BY <1>1 DEF AddIsoNode, WithRow, TopoInv, Tables
<1>3. contFace' = [n \in nodes \cup {k} |-> IF n = k THEN FaceAt(p) ELSE contFace[n]]
  BY <1>1 DEF AddIsoNode, WithRow, TopoInv, LabelsTypeOK
<1>4. FaceAt(p) \in 0..lastFace
  <2>1. lastFace \in Nat /\ DOMAIN mbr \subseteq 1..lastFace
    BY DEF TopoInv, LabelsTypeOK
  <2> DEFINE found == {f \in DOMAIN mbr : InShell(line, Border(f), p)}
  <2>2. FaceAt(p) = IF found = {} THEN 0 ELSE CHOOSE f \in found : TRUE
    BY DEF FaceAt
  <2>3. found # {} => (CHOOSE f \in found : TRUE) \in found
    OBVIOUS
  <2>4. found \subseteq 1..lastFace
    BY <2>1
  <2> DEFINE x == CHOOSE f \in found : TRUE
  <2> HIDE DEF found
  <2>5. FaceAt(p) = IF found = {} THEN 0 ELSE x
    BY <2>2
  <2>6. found # {} => x \in 1..lastFace
    BY <2>3, <2>4
  <2> HIDE DEF x
  <2> QED BY <2>1, <2>5, <2>6
<1>5. Tables'
  BY <1>1, <1>2 DEF TopoInv, Tables
<1>6. LabelsTypeOK'
  <2>1. contFace' \in [nodes' -> -1..lastFace]
    BY <1>1, <1>3, <1>4 DEF TopoInv, LabelsTypeOK
  <2> QED BY <1>1, <2>1 DEF TopoInv, LabelsTypeOK, Darts
<1>7. \A n \in nodes : pt'[n] = pt[n] /\ contFace'[n] = contFace[n]
  BY <1>1, <1>2, <1>3
<1>8. /\ pt'[k] = p /\ contFace'[k] # -1
      /\ \A n \in nodes : pt[n] # p
      /\ \A e \in edges : ~ OnLine(p, line[e])
  BY <1>1, <1>2, <1>3, <1>4 DEF AddIsoNode, CoincidentNode, EdgeThrough
<1>9. \A e \in edges : org[e] \in nodes /\ org[-e] \in nodes /\ e \in Darts(edges) /\ -e \in Darts(edges)
  BY DartFacts DEF TopoInv, LinksInv, LinksTypeOK
<1>10. Drawn'
  <2>1. \A e \in edges : pt'[org[e]] = Head(line[e]) /\ pt'[org[-e]] = Last(line[e])
    BY <1>7, <1>9 DEF TopoInv, Drawn
  <2>2. \A m, n \in nodes' : m # n => pt'[m] # pt'[n]
    BY <1>1, <1>7, <1>8 DEF TopoInv, Drawn
  <2>3. \A n \in nodes', e \in edges : OnLine(pt'[n], line[e]) => n \in {org[e], org[-e]}
    BY <1>1, <1>7, <1>8 DEF TopoInv, Drawn
  <2> QED BY <1>1, <2>1, <2>2, <2>3 DEF TopoInv, Drawn
<1>11. EndsAt(k) = {}
  BY <1>1 DEF EndsAt, TopoInv, LinksInv, LinksTypeOK
<1>12. Clockwise'
  BY <1>1, <1>11, SameEdges DEF TopoInv, Clockwise, Turns
<1>13. IsolatedAlone'
  BY <1>1, <1>7, <1>8, <1>11, SameEdges DEF TopoInv, IsolatedAlone
<1> QED BY <1>5, <1>6, <1>10, <1>12, <1>13

LEMMA RemoveIsoNodeKeeps ==
  ASSUME TopoInv, NEW m \in nodes, RemoveIsoNode(m)
  PROVE  Tables' /\ LabelsTypeOK' /\ Drawn' /\ Clockwise' /\ IsolatedAlone'
<1>1. /\ nodes' = nodes \ {m}
      /\ UNCHANGED <<edges, org, next, line, left, mbr, lastFace>>
  BY DEF RemoveIsoNode, faceVars
<1>2. pt' = [n \in nodes' |-> pt[n]] /\ contFace' = [n \in nodes' |-> contFace[n]]
  <2>1. pt' = Restrict(pt, nodes') /\ contFace' = Restrict(contFace, nodes') /\ nodes' \subseteq nodes
    BY <1>1 DEF RemoveIsoNode
  <2>2. pt \in [nodes -> Plane] /\ contFace \in [nodes -> -1..lastFace]
    BY DEF TopoInv, Tables, LabelsTypeOK
  <2> QED BY <2>1, <2>2, RowsKept
<1>3. Tables' /\ LabelsTypeOK'
  BY <1>1, <1>2 DEF TopoInv, Tables, LabelsTypeOK, Darts
<1>4. EndsAt(m) = {}
  BY DEF TopoInv, IsolatedAlone, RemoveIsoNode, Isolated
<1>5. \A e \in edges : org[e] \in nodes' /\ org[-e] \in nodes'
  <2>1. \A d \in Darts(edges) : org[d] \in nodes /\ org[d] # m
    BY <1>4 DEF EndsAt, TopoInv, LinksInv, LinksTypeOK
  <2> QED BY <1>1, <2>1, DartFacts DEF TopoInv, LinksInv
<1>6. Drawn'
  BY <1>1, <1>2, <1>5 DEF TopoInv, Drawn
<1>7. Clockwise' /\ IsolatedAlone'
  BY <1>1, <1>2, SameEdges DEF TopoInv, Clockwise, IsolatedAlone
<1> QED BY <1>3, <1>6, <1>7

LEMMA MoveIsoNodeKeeps ==
  ASSUME TopoInv, NEW m \in nodes, NEW p \in Points, MoveIsoNode(m, p)
  PROVE  Tables' /\ LabelsTypeOK' /\ Drawn' /\ Clockwise' /\ IsolatedAlone'
<1>1. /\ UNCHANGED <<nodes, edges, org, next, contFace, line, left, mbr, lastFace>>
      /\ p \in Plane
  BY GeometryAssumption DEF MoveIsoNode, faceVars, links
<1>2. pt' = [n \in nodes |-> IF n = m THEN p ELSE pt[n]]
  BY DEF MoveIsoNode, TopoInv, Tables
<1>3. Tables' /\ LabelsTypeOK'
  BY <1>1, <1>2 DEF TopoInv, Tables, LabelsTypeOK, Darts
<1>4. EndsAt(m) = {}
  BY DEF TopoInv, IsolatedAlone, MoveIsoNode, Isolated
<1>5. \A e \in edges : org[e] \in nodes \ {m} /\ org[-e] \in nodes \ {m}
  <2>1. \A d \in Darts(edges) : org[d] \in nodes /\ org[d] # m
    BY <1>4 DEF EndsAt, TopoInv, LinksInv, LinksTypeOK
  <2> QED BY <1>1, <2>1, DartFacts DEF TopoInv, LinksInv
<1>6. \A n \in nodes : pt[n] # p
  BY DEF MoveIsoNode, CoincidentNode
<1>7. \A e \in edges : ~ OnLine(p, line[e])
  BY DEF MoveIsoNode, EdgeThrough
<1>8. Drawn'
  BY <1>1, <1>2, <1>5, <1>6, <1>7 DEF TopoInv, Drawn
<1>9. Clockwise' /\ IsolatedAlone'
  BY <1>1, <1>2, SameEdges DEF TopoInv, Clockwise, IsolatedAlone
<1> QED BY <1>3, <1>8, <1>9

-----------------------------------------------------------------------------
(* Edges drawn *)

\* Edge k is drawn from a to b along l, and the guards of AddIsoEdge and AddEdge hold.
DrawnAlong(k, a, b, l, nextLeft, nextRight, old) ==
  /\ k = lastEdge + 1 /\ a \in nodes /\ b \in nodes /\ l \in Polylines
  /\ EndpointsMatch(a, b, l) /\ IsSimple(l) /\ NoCrossing(a, b, l, 0)
  /\ InsertEdge(k, a, b, nextLeft, nextRight, old)
  /\ UNCHANGED <<nodes, pt>>
  /\ line' = WithRow(line, k, l)

\* The new edge has two darts of its own; the others are as they were.
LEMMA DrawnDarts ==
  ASSUME TopoInv, NEW k, NEW a, NEW b, NEW l, NEW nextLeft, NEW nextRight, NEW old,
         DrawnAlong(k, a, b, l, nextLeft, nextRight, old)
  PROVE  /\ k \in Nat /\ k > 0 /\ k > lastEdge /\ ~ (-k > 0)
         /\ k \notin Darts(edges) /\ -k \notin Darts(edges) /\ k # -k /\ -(-k) = k
         /\ edges' = edges \cup {k} /\ Darts(edges)' = Darts(edges) \cup {k, -k}
         /\ \A d \in Darts(edges) : org'[d] = org[d] /\ Path(line', d) = Path(line, d)
         /\ org'[k] = a /\ org'[-k] = b
         /\ line' = [e \in edges \cup {k} |-> IF e = k THEN l ELSE line[e]]
         /\ Path(line', k) = l /\ Path(line', -k) = Reverse(l)
         /\ \A d \in Darts(edges) : Departs'[d] = Departs[d]
         /\ Departs'[k] = Departure(l) /\ Departs'[-k] = Departure(Reverse(l))
<1>0. LinksTypeOK /\ Tables
  BY DEF TopoInv, LinksInv
<1>1. /\ k \in Nat /\ k > 0 /\ k > lastEdge /\ ~ (-k > 0)
  BY <1>0 DEF DrawnAlong, LinksTypeOK
<1>2. /\ k \notin Darts(edges) /\ -k \notin Darts(edges) /\ k # -k /\ -(-k) = k
      /\ Darts(edges \cup {k}) = Darts(edges) \cup {k, -k}
  BY <1>0, <1>1, NewDarts
<1>3. /\ edges' = edges \cup {k}
      /\ org' = [d \in Darts(edges \cup {k}) |-> IF d = k THEN a ELSE IF d = -k THEN b ELSE org[d]]
      /\ line' = WithRow(line, k, l)
  BY DEF DrawnAlong, InsertEdge
<1>4. Darts(edges)' = Darts(edges) \cup {k, -k}
  BY <1>2, <1>3 DEF Darts
<1>5. line' = [e \in edges \cup {k} |-> IF e = k THEN l ELSE line[e]]
  BY <1>0, <1>3 DEF WithRow, Tables
<1>6. ASSUME NEW d \in Darts(edges) PROVE org'[d] = org[d] /\ Path(line', d) = Path(line, d)
  <2>1. d # k /\ d # -k /\ -d # k /\ -d \in Darts(edges)
    BY <1>2, <1>0, DartFacts
  <2>2. org'[d] = org[d]
    BY <1>2, <1>3, <2>1
  <2>3. (d > 0 => d \in edges) /\ (~ (d > 0) => -d \in edges)
    BY <1>0, DartFacts
  <2> QED BY <1>5, <2>1, <2>2, <2>3 DEF Path
<1>7. org'[k] = a /\ org'[-k] = b
  BY <1>2, <1>3
<1>8. Path(line', k) = l /\ Path(line', -k) = Reverse(l)
  BY <1>1, <1>2, <1>5 DEF Path
<1>9. Departs' = [d \in Darts(edges) \cup {k, -k} |-> Departure(Path(line', d))]
  BY <1>4 DEF Departs
<1>10. \A d \in Darts(edges) : Departs'[d] = Departs[d]
  BY <1>6, <1>9 DEF Departs
<1>11. Departs'[k] = Departure(l) /\ Departs'[-k] = Departure(Reverse(l))
  BY <1>8, <1>9
<1> QED BY <1>1, <1>2, <1>3, <1>4, <1>5, <1>6, <1>7, <1>8, <1>10, <1>11

\* NoCrossing and IsSimple keep the drawing planar.
LEMMA DrawnKeeps ==
  ASSUME TopoInv, NEW k, NEW a, NEW b, NEW l, NEW nextLeft, NEW nextRight, NEW old,
         DrawnAlong(k, a, b, l, nextLeft, nextRight, old)
  PROVE  Tables' /\ Drawn'
<1> USE DEF TopoInv
<1>1. l \in Polylines /\ nodes' = nodes /\ pt' = pt
  BY DEF DrawnAlong
<1>2. /\ edges' = edges \cup {k} /\ k \notin edges
      /\ line' = [e \in edges \cup {k} |-> IF e = k THEN l ELSE line[e]]
      /\ org'[k] = a /\ org'[-k] = b
      /\ \A e \in edges : org'[e] = org[e] /\ org'[-e] = org[-e]
  BY DrawnDarts, DartFacts DEF LinksInv
<1>3. Tables'
  BY <1>1, <1>2 DEF Tables
<1>4. /\ pt[a] = Head(l) /\ pt[b] = Last(l) /\ Simple(l)
      /\ \A n \in nodes : OnLine(pt[n], l) => n \in {a, b}
  BY <1>1, SimpleMeaning DEF DrawnAlong, EndpointsMatch, NoCrossing
<1>5. ASSUME NEW e \in edges PROVE Apart(line[e], l) /\ Apart(l, line[e])
  <2>1. e # 0 /\ line[e] \in Polylines
    BY DartFacts DEF Tables, LinksInv
  <2>2. ~ InteriorsMeet(line[e], l)
    BY <2>1 DEF DrawnAlong, NoCrossing
  <2>3. Apart(line[e], l)
    BY <1>1, <2>1, <2>2, ApartMeaning
  <2> QED BY <1>1, <2>1, <2>3, ApartSwap
<1>6. Drawn'
  <2>1. \A e \in edges' : Simple(line'[e])
    BY <1>2, <1>4 DEF Drawn
  <2>2. \A e \in edges' : pt'[org'[e]] = Head(line'[e]) /\ pt'[org'[-e]] = Last(line'[e])
    BY <1>1, <1>2, <1>4 DEF Drawn
  <2>3. \A c, e \in edges' : c # e => Apart(line'[c], line'[e])
    BY <1>2, <1>5 DEF Drawn
  <2>4. \A m, n \in nodes' : m # n => pt'[m] # pt'[n]
    BY <1>1 DEF Drawn
  <2>5. \A n \in nodes', e \in edges' : OnLine(pt'[n], line'[e]) => n \in {org'[e], org'[-e]}
    BY <1>1, <1>2, <1>4 DEF Drawn
  <2> QED BY <2>1, <2>2, <2>3, <2>4, <2>5 DEF Drawn
<1> QED BY <1>3, <1>6

\* The new ends leave their nodes where no other does.
LEMMA DrawnSpread ==
  ASSUME TopoInv, NEW k, NEW a, NEW b, NEW l, NEW nextLeft, NEW nextRight, NEW old,
         DrawnAlong(k, a, b, l, nextLeft, nextRight, old), NEW n \in nodes
  PROVE  Spread(EndsAt(n) \cup (IF n = a THEN {k} ELSE {}) \cup (IF n = b THEN {-k} ELSE {}), Departs')
<1> DEFINE m == Reverse(l)
<1>0. LinksTypeOK /\ Tables /\ Drawn
  BY DEF TopoInv, LinksInv
<1>1. /\ l \in Polylines /\ m \in Polylines /\ Head(l) = pt[a] /\ Head(m) = pt[b]
      /\ Simple(l) /\ Last(l) = pt[b]
  BY Reversed, SimpleMeaning DEF DrawnAlong, EndpointsMatch
<1>2. /\ \A c \in EndsAt(n) : Departs'[c] = Departs[c]
      /\ Departs'[k] = Departure(l) /\ Departs'[-k] = Departure(m)
      /\ Departure(l) \in Ways /\ Departure(m) \in Ways
  <2>1. \A c \in EndsAt(n) : c \in Darts(edges)
    BY <1>0, EndsFacts
  <2>2. /\ \A c \in Darts(edges) : Departs'[c] = Departs[c]
        /\ Departs'[k] = Departure(l) /\ Departs'[-k] = Departure(m)
    BY DrawnDarts
  <2> QED BY <1>1, <2>1, <2>2, DepartureWay
<1>3. ASSUME NEW c \in EndsAt(n)
      PROVE  /\ Departs[c] \in Ways
             /\ n = a => ~ SameWay(Departs[c], Departure(l)) /\ ~ SameWay(Departure(l), Departs[c])
             /\ n = b => ~ SameWay(Departs[c], Departure(m)) /\ ~ SameWay(Departure(m), Departs[c])
  <2> DEFINE x == Path(line, c)
  <2>1. c \in Darts(edges) /\ org[c] = n /\ Departs[c] = Departure(x)
    BY <1>0, EndsFacts DEF Departs
  <2>2. x \in Polylines /\ Head(x) = pt[n]
    BY <1>0, <2>1, DartsDrawn
  <2>3. Apart(x, l)
    <3> DEFINE e == IF c \in edges THEN c ELSE -c
    <3>1. /\ e \in edges /\ e # 0 /\ line[e] \in Polylines
          /\ x \in {line[e], Reverse(line[e])}
      BY <1>0, <2>1, PathFacts, DartFacts DEF Tables
    <3>2. ~ InteriorsMeet(line[e], l)
      BY <3>1 DEF DrawnAlong, NoCrossing
    <3>3. Apart(line[e], l)
      BY <1>1, <3>1, <3>2, ApartMeaning
    <3> QED BY <1>1, <3>1, <3>3, ReversedApart
  <2>4. Apart(l, x) /\ Apart(m, x)
    BY <1>1, <2>2, <2>3, ApartSwap, ReversedApart
  <2>5. Departs[c] \in Ways
    BY <2>1, <2>2, DepartureWay
  <2>6. n = a => ~ SameWay(Departure(l), Departs[c])
    BY <1>1, <2>1, <2>2, <2>4, ApartDepart
  <2>7. n = b => ~ SameWay(Departure(m), Departs[c])
    BY <1>1, <2>1, <2>2, <2>4, ApartDepart
  <2> QED BY <1>2, <2>5, <2>6, <2>7, SameWaySwap
<1>4. a = b => ~ SameWay(Departure(l), Departure(m)) /\ ~ SameWay(Departure(m), Departure(l))
  BY <1>1, <1>2, ClosedDepart, SameWaySwap
<1>5. Spread(EndsAt(n), Departs)
  BY <1>0, EndsSpread
<1>6. \A c, d \in EndsAt(n) : c # d => ~ SameWay(Departs[c], Departs[d])
  BY <1>5 DEF Spread
<1> HIDE DEF m
<1> DEFINE E == EndsAt(n) \cup (IF n = a THEN {k} ELSE {}) \cup (IF n = b THEN {-k} ELSE {})
<1>7. \A c \in E : c \in EndsAt(n) \/ (c = k /\ n = a) \/ (c = -k /\ n = b)
  OBVIOUS
<1> HIDE DEF E
<1>8. \A c \in E : Departs'[c] \in Ways
  BY <1>2, <1>3, <1>7
<1>9. \A c, d \in E : c # d => ~ SameWay(Departs'[c], Departs'[d])
  <2> SUFFICES ASSUME NEW c \in E, NEW d \in E, c # d PROVE ~ SameWay(Departs'[c], Departs'[d])
    OBVIOUS
  <2> QED BY <1>2, <1>3, <1>4, <1>6, <1>7
<1> QED BY <1>8, <1>9 DEF Spread, E

\* What the new edge leaves of the rounds.
LEMMA DrawnEnds ==
  ASSUME TopoInv, NEW k, NEW a, NEW b, NEW l, NEW nextLeft, NEW nextRight, NEW old,
         DrawnAlong(k, a, b, l, nextLeft, nextRight, old), NEW n \in nodes
  PROVE  /\ EndsAt(n)' = EndsAt(n) \cup (IF n = a THEN {k} ELSE {}) \cup (IF n = b THEN {-k} ELSE {})
         /\ Spread(EndsAt(n)', Departs')
         /\ Turns(EndsAt(n), Departs', Turned)
         /\ Turned'[k] = nextRight /\ Turned'[-k] = nextLeft
         /\ \A d \in Darts(edges) : Turned'[d] = old[-d] /\ Turned[d] = next[-d]
<1>0. LinksTypeOK /\ Tables /\ Drawn /\ LinksInv
  BY DEF TopoInv, LinksInv
<1>1. EndsAt(n)' = EndsAt(n) \cup (IF n = a THEN {k} ELSE {}) \cup (IF n = b THEN {-k} ELSE {})
  BY <1>0, InsertEdgeEnds DEF DrawnAlong
<1>4. Spread(EndsAt(n)', Departs')
  BY <1>1, DrawnSpread
<1>5. \A c \in EndsAt(n) : Departs'[c] = Departs[c]
  BY <1>0, DrawnDarts, EndsFacts
<1>6. Spread(EndsAt(n), Departs) /\ Turns(EndsAt(n), Departs, Turned)
  BY <1>0, EndsSpread DEF TopoInv, Clockwise
<1>7. Turns(EndsAt(n), Departs', Turned)
  BY <1>5, <1>6, SpreadSame
<1>8. /\ next' = [d \in Darts(edges \cup {k}) |->
                    IF d = k THEN nextLeft ELSE IF d = -k THEN nextRight ELSE old[d]]
  BY DEF DrawnAlong, InsertEdge
<1>9. /\ k \notin Darts(edges) /\ -k \notin Darts(edges) /\ k # -k /\ -(-k) = k
      /\ Darts(edges)' = Darts(edges) \cup {k, -k} /\ edges' = edges \cup {k}
  BY DrawnDarts
<1>10. Turned' = [d \in Darts(edges) \cup {k, -k} |-> next'[-d]]
  BY <1>9 DEF Turned
<1>11. Darts(edges \cup {k}) = Darts(edges) \cup {k, -k}
  BY <1>9 DEF Darts
<1>12. Turned'[k] = nextRight /\ Turned'[-k] = nextLeft
  BY <1>8, <1>9, <1>10, <1>11
<1>13. \A d \in Darts(edges) : Turned'[d] = old[-d] /\ Turned[d] = next[-d]
  <2> SUFFICES ASSUME NEW d \in Darts(edges) PROVE Turned'[d] = old[-d] /\ Turned[d] = next[-d]
    OBVIOUS
  <2>1. -d \in Darts(edges) /\ -d # k /\ -d # -k
    BY <1>0, <1>9, DartFacts
  <2> QED BY <1>8, <1>9, <1>10, <1>11, <2>1 DEF Turned
<1> QED BY <1>1, <1>4, <1>7, <1>12, <1>13

\* D has the directions of the ends E as they are drawn, and u of a new one.
Leaving(E, a, D, u) ==
  /\ IsFiniteSet(E) /\ a \notin E /\ Spread(E \cup {a}, D)
  /\ D[a] = u /\ \A c \in E : D[c] = Departure(Path(line, c))

\* U is T with the new end x between its neighbours s.
OneMore(E, x, s, T, U) ==
  /\ U[x] = IF E = {} THEN x ELSE s.cw
  /\ \A c \in E : U[c] = IF c = s.ccw THEN x ELSE T[c]

\* One end x comes to the ends E of a node.
LEMMA EndAdded ==
  ASSUME NEW E, NEW x, NEW D, NEW u, Leaving(E, x, D, u), NEW T, Turns(E, D, T),
         NEW s, s = FindAdjacent(E, u), NEW U, OneMore(E, x, s, T, U)
  PROVE  /\ Turns(E \cup {x}, D, U)
         /\ s = [cw |-> s.cw, ccw |-> s.ccw]
         /\ E # {} => s.cw \in E /\ s.ccw \in E /\ T[s.ccw] = s.cw
<1> USE DEF Leaving, OneMore
<1>0. s = [cw |-> s.cw, ccw |-> s.ccw]
  BY DEF FindAdjacent, NoEnd
<1>1. CASE E = {}
  BY <1>0, <1>1 DEF Turns
<1>2. CASE E # {}
  <2>1. FirstAfter(E, D, x, s.cw) /\ LastAfter(E, D, x, s.ccw)
    BY <1>2, Adjacents
  <2>2. s.cw \in E /\ s.ccw \in E
    BY <2>1 DEF FirstAfter, LastAfter
  <2>3. U[x] = s.cw /\ U[s.ccw] = x /\ \A c \in E \ {s.ccw} : U[c] = T[c]
    BY <1>2, <2>2
  <2> QED BY <1>0, <2>1, <2>2, <2>3, TurnsInserted
<1> QED BY <1>1, <1>2

\* U is T with the new ends k and j between their neighbours s and t.
TwoMore(E, k, j, s, t, T, U) ==
  /\ U[k] = IF s.cw # 0 THEN s.cw ELSE j
  /\ U[j] = IF t.cw # 0 THEN t.cw ELSE k
  /\ \A c \in E : U[c] = IF c = t.ccw THEN j ELSE IF c = s.ccw THEN k ELSE T[c]

\* The ends k and j of a closed line leave in directions u and v.
LeavingTwice(E, k, j, D, u, v) ==
  /\ IsFiniteSet(E) /\ E # {} /\ k \notin E /\ j \notin E /\ k # j /\ 0 \notin E
  /\ Spread(E \cup {k, j}, D)
  /\ D[k] = u /\ D[j] = v /\ \A c \in E : D[c] = Departure(Path(line, c))

\* What the two ends of a closed line see of the other ends E of its node.
LEMMA EndsSeen ==
  ASSUME NEW E, NEW k, NEW j, NEW D, NEW u, NEW v, LeavingTwice(E, k, j, D, u, v),
         NEW s, NEW t, s = FindAdjacentBut(E, u, v), t = FindAdjacentBut(E, v, u),
         NEW N, N = Nearer(E, D, k, j), NEW M, M = Nearer(E, D, j, k)
  PROVE  /\ N \cup M = E /\ N \cap M = {} /\ N \subseteq E /\ M \subseteq E
         /\ s = [cw |-> s.cw, ccw |-> s.ccw] /\ t = [cw |-> t.cw, ccw |-> t.ccw]
         /\ N # {} => s.cw \in N /\ t.ccw \in N
         /\ M # {} => t.cw \in M /\ s.ccw \in M
         /\ N = {} => s.cw = 0 /\ t.ccw = 0
         /\ M = {} => t.cw = 0 /\ s.ccw = 0
         /\ Sees(E, D, k, j, s.cw, t.ccw) /\ Sees(E, D, j, k, t.cw, s.ccw)
         /\ s.cw = 0 <=> N = {}
         /\ t.cw = 0 <=> M = {}
         /\ \A c \in E : c = t.ccw => N # {}
         /\ \A c \in E : c = s.ccw => M # {}
<1> USE DEF LeavingTwice
<1>1. N \cup M = E /\ N \cap M = {} /\ M = {c \in E : Before(D, k, j, c)}
  BY NearOrFar
<1>2. N = {c \in E : Before(D, j, k, c)}
  <2>1. Spread(E \cup {j, k}, D)
    <3>1. E \cup {j, k} = E \cup {k, j}
      OBVIOUS
    <3> QED BY <3>1
  <2> QED BY <2>1, NearOrFar
<1>3. /\ N = {d \in E : ClockwiseBefore(u, Departure(Path(line, d)), v)}
      /\ N = {d \in E : ClockwiseBefore(v, u, Departure(Path(line, d)))}
      /\ M = {d \in E : ClockwiseBefore(v, Departure(Path(line, d)), u)}
      /\ M = {d \in E : ClockwiseBefore(u, v, Departure(Path(line, d)))}
  BY <1>1, <1>2 DEF Nearer, Before
<1>4. /\ s = [cw |-> FindAdjacent(N, u).cw, ccw |-> FindAdjacent(M, u).ccw]
      /\ t = [cw |-> FindAdjacent(M, v).cw, ccw |-> FindAdjacent(N, v).ccw]
  BY <1>3 DEF FindAdjacentBut
<1>5. /\ IsFiniteSet(N) /\ IsFiniteSet(M) /\ N \subseteq E /\ M \subseteq E
      /\ Spread(N \cup {k}, D) /\ Spread(N \cup {j}, D) /\ Spread(M \cup {k}, D) /\ Spread(M \cup {j}, D)
      /\ k \notin N /\ k \notin M /\ j \notin N /\ j \notin M
  <2>1. N \subseteq E /\ M \subseteq E
    BY <1>1
  <2>2. N \cup {k} \subseteq E \cup {k, j} /\ N \cup {j} \subseteq E \cup {k, j}
        /\ M \cup {k} \subseteq E \cup {k, j} /\ M \cup {j} \subseteq E \cup {k, j}
    BY <2>1
  <2> QED BY <2>1, <2>2, FS_Subset, SpreadPart
<1>6. N # {} => /\ FirstAfter(N, D, k, s.cw) /\ LastAfter(N, D, j, t.ccw)
                /\ s.cw \in N /\ t.ccw \in N
  <2> SUFFICES ASSUME N # {}
               PROVE  FirstAfter(N, D, k, s.cw) /\ LastAfter(N, D, j, t.ccw)
    BY DEF FirstAfter, LastAfter
  <2>1. \A c \in N : D[c] = Departure(Path(line, c))
    BY <1>5
  <2>2. FirstAfter(N, D, k, FindAdjacent(N, u).cw)
    BY <1>5, <2>1, Adjacents
  <2>3. LastAfter(N, D, j, FindAdjacent(N, v).ccw)
    BY <1>5, <2>1, Adjacents
  <2> QED BY <1>4, <2>2, <2>3
<1>7. M # {} => /\ FirstAfter(M, D, j, t.cw) /\ LastAfter(M, D, k, s.ccw)
                /\ t.cw \in M /\ s.ccw \in M
  <2> SUFFICES ASSUME M # {}
               PROVE  FirstAfter(M, D, j, t.cw) /\ LastAfter(M, D, k, s.ccw)
    BY DEF FirstAfter, LastAfter
  <2>1. \A c \in M : D[c] = Departure(Path(line, c))
    BY <1>5
  <2>2. FirstAfter(M, D, j, FindAdjacent(M, v).cw)
    BY <1>5, <2>1, Adjacents
  <2>3. LastAfter(M, D, k, FindAdjacent(M, u).ccw)
    BY <1>5, <2>1, Adjacents
  <2> QED BY <1>4, <2>2, <2>3
<1>8. /\ N = {} => s.cw = 0 /\ t.ccw = 0
      /\ M = {} => t.cw = 0 /\ s.ccw = 0
  BY <1>4 DEF FindAdjacent, NoEnd
<1>9. Sees(E, D, k, j, s.cw, t.ccw) /\ Sees(E, D, j, k, t.cw, s.ccw)
  BY <1>6, <1>7 DEF Sees
<1>10. /\ s.cw = 0 <=> N = {}
       /\ t.cw = 0 <=> M = {}
       /\ \A c \in E : c = t.ccw => N # {}
       /\ \A c \in E : c = s.ccw => M # {}
  BY <1>5, <1>6, <1>7, <1>8
<1>11. s = [cw |-> s.cw, ccw |-> s.ccw] /\ t = [cw |-> t.cw, ccw |-> t.ccw]
  BY <1>4
<1> QED BY <1>1, <1>5, <1>6, <1>7, <1>8, <1>9, <1>10, <1>11

\* Both ends of a closed line come to the ends E of a node.
LEMMA EndsAdded ==
  ASSUME NEW E, NEW k, NEW j, NEW D, NEW u, NEW v, LeavingTwice(E, k, j, D, u, v),
         NEW T, Turns(E, D, T),
         NEW s, NEW t, s = FindAdjacentBut(E, u, v), t = FindAdjacentBut(E, v, u),
         NEW U, TwoMore(E, k, j, s, t, T, U)
  PROVE  /\ Turns(E \cup {k, j}, D, U)
         /\ s = [cw |-> s.cw, ccw |-> s.ccw] /\ t = [cw |-> t.cw, ccw |-> t.ccw]
         /\ \/ /\ s.cw \in E /\ s.ccw \in E /\ t.cw \in E /\ t.ccw \in E
               /\ s.ccw # t.ccw /\ T[s.ccw] = s.cw /\ T[t.ccw] = t.cw
            \/ s.cw = 0 /\ t.ccw = 0 /\ s.ccw \in E /\ t.cw \in E /\ T[s.ccw] = t.cw
            \/ s.ccw = 0 /\ t.cw = 0 /\ s.cw \in E /\ t.ccw \in E /\ T[t.ccw] = s.cw
<1> USE DEF LeavingTwice, TwoMore
<1> DEFINE N == Nearer(E, D, k, j)
           M == Nearer(E, D, j, k)
<1>0. N = Nearer(E, D, k, j) /\ M = Nearer(E, D, j, k)
  OBVIOUS
<1> HIDE DEF N, M
<1>1. /\ N \cup M = E /\ N \cap M = {} /\ N \subseteq E /\ M \subseteq E
      /\ s = [cw |-> s.cw, ccw |-> s.ccw] /\ t = [cw |-> t.cw, ccw |-> t.ccw]
      /\ N # {} => s.cw \in N /\ t.ccw \in N
      /\ M # {} => t.cw \in M /\ s.ccw \in M
      /\ N = {} => s.cw = 0 /\ t.ccw = 0
      /\ M = {} => t.cw = 0 /\ s.ccw = 0
      /\ Sees(E, D, k, j, s.cw, t.ccw) /\ Sees(E, D, j, k, t.cw, s.ccw)
      /\ s.cw = 0 <=> N = {}
      /\ t.cw = 0 <=> M = {}
      /\ \A c \in E : c = t.ccw => N # {}
      /\ \A c \in E : c = s.ccw => M # {}
  <2>1. LeavingTwice(E, k, j, D, u, v) /\ s = FindAdjacentBut(E, u, v) /\ t = FindAdjacentBut(E, v, u)
    OBVIOUS
  <2> HIDE DEF LeavingTwice
  <2> QED BY ONLY <1>0, <2>1, EndsSeen
<1>2. InsertedTwice(E, D, k, j, s.cw, s.ccw, t.cw, t.ccw, T, U)
  <2>1. U[k] = IF N = {} THEN j ELSE s.cw
    BY <1>1
  <2>2. U[j] = IF M = {} THEN k ELSE t.cw
    BY <1>1
  <2>3. \A c \in E : U[c] = IF N # {} /\ c = t.ccw THEN j
                            ELSE IF M # {} /\ c = s.ccw THEN k ELSE T[c]
    BY <1>1
  <2> QED BY <2>1, <2>2, <2>3 DEF InsertedTwice, N, M
<1>3. /\ Turns(E \cup {k, j}, D, U)
      /\ N # {} /\ M # {} => T[s.ccw] = s.cw /\ T[t.ccw] = t.cw
      /\ N = {} => T[s.ccw] = t.cw
      /\ M = {} => T[t.ccw] = s.cw
  <2> DEFINE scw == s.cw
             sccw == s.ccw
             tcw == t.cw
             tccw == t.ccw
  <2>1. /\ Sees(E, D, k, j, scw, tccw) /\ Sees(E, D, j, k, tcw, sccw)
        /\ InsertedTwice(E, D, k, j, scw, sccw, tcw, tccw, T, U)
    BY <1>1, <1>2
  <2> HIDE DEF scw, sccw, tcw, tccw
  <2>2. /\ Turns(E \cup {k, j}, D, U)
        /\ Nearer(E, D, k, j) # {} /\ Nearer(E, D, j, k) # {} => T[sccw] = scw /\ T[tccw] = tcw
        /\ Nearer(E, D, k, j) = {} => T[sccw] = tcw
        /\ Nearer(E, D, j, k) = {} => T[tccw] = scw
    <3>1. E # {} /\ k \notin E /\ j \notin E /\ k # j /\ Spread(E \cup {k, j}, D) /\ Turns(E, D, T)
      OBVIOUS
    <3> QED BY ONLY <2>1, <3>1, TurnsInsertedTwice
  <2> QED BY <2>2 DEF N, M, scw, sccw, tcw, tccw
<1>4. s = [cw |-> s.cw, ccw |-> s.ccw] /\ t = [cw |-> t.cw, ccw |-> t.ccw]
  BY <1>1
<1>5. /\ N # {} => s.cw \in E /\ t.ccw \in E
      /\ M # {} => t.cw \in E /\ s.ccw \in E
      /\ N # {} /\ M # {} => s.ccw # t.ccw
      /\ N = {} => s.cw = 0 /\ t.ccw = 0 /\ M # {}
      /\ M = {} => t.cw = 0 /\ s.ccw = 0 /\ N # {}
  BY <1>1
<1>6. \/ /\ s.cw \in E /\ s.ccw \in E /\ t.cw \in E /\ t.ccw \in E
         /\ s.ccw # t.ccw /\ T[s.ccw] = s.cw /\ T[t.ccw] = t.cw
      \/ s.cw = 0 /\ t.ccw = 0 /\ s.ccw \in E /\ t.cw \in E /\ T[s.ccw] = t.cw
      \/ s.ccw = 0 /\ t.cw = 0 /\ s.cw \in E /\ t.ccw \in E /\ T[t.ccw] = s.cw
  BY ONLY <1>3, <1>5
<1> QED BY ONLY <1>3, <1>4, <1>6

-----------------------------------------------------------------------------
(* AddEdge *)

\* The corner that a dart turns over, as TopoLinks has it.
LEMMA CornerFacts ==
  ASSUME LinksTypeOK, NEW n, NEW c \in EndsAt(n)
  PROVE  /\ -c \in Corners(n) /\ Turned[c] = next[-c] /\ c # 0
         /\ InCorner(-c) = [cw |-> Turned[c], ccw |-> c]
         /\ CwOnly(-c) = [cw |-> Turned[c], ccw |-> 0]
         /\ CcwOnly(-c) = [cw |-> 0, ccw |-> c]
<1>1. c \in Darts(edges) /\ -c \in Darts(edges) /\ -(-c) = c /\ org[c] = n /\ c # 0
  BY EndsFacts, DartFacts
<1> QED BY <1>1 DEF Corners, Turned, InCorner, CwOnly, CcwOnly

\* Neighbours of which one turns to the other make a corner.
LEMMA AdjacentTo ==
  ASSUME LinksTypeOK, NEW n, EndsAt(n) # {}, NEW s, s = [cw |-> s.cw, ccw |-> s.ccw],
         s.ccw \in EndsAt(n), Turned[s.ccw] = s.cw
  PROVE  s \in Adjacent(n)
<1>1. -s.ccw \in Corners(n) /\ InCorner(-s.ccw) = s
  BY CornerFacts
<1> QED BY <1>1 DEF Adjacent, Lonely

\* AddEdge with s and t for the neighbours of its two ends.
Adding(k, a, b, l, s, t) ==
  /\ k = lastEdge + 1 /\ a \in nodes /\ b \in nodes /\ l \in Polylines
  /\ EndpointsMatch(a, b, l) /\ IsSimple(l) /\ NoCrossing(a, b, l, 0)
  /\ s = Adjacencies(a, b, l, 0)[1] /\ t = Adjacencies(a, b, l, 0)[2]
  /\ LinksAddEdge(a, b, s, t)
  /\ UNCHANGED pt
  /\ line' = WithRow(line, k, l)

NextRightOf(k, a, b, s) == IF s.cw # 0 THEN s.cw ELSE -(IF a = b THEN k ELSE -k)

NextLeftOf(k, a, b, t) == IF t.cw # 0 THEN t.cw ELSE IF a = b THEN k ELSE -k

Relinked(k, s, t) ==
  [d \in Darts(edges) |-> IF d = -t.ccw THEN -k ELSE IF d = -s.ccw THEN k ELSE next[d]]

\* AddEdge draws an edge; its successors are those of TopoLinks.
LEMMA AddingDraws ==
  ASSUME NEW k, NEW a, NEW b, NEW l, NEW s, NEW t, Adding(k, a, b, l, s, t)
  PROVE  DrawnAlong(k, a, b, l, NextLeftOf(k, a, b, t), NextRightOf(k, a, b, s), Relinked(k, s, t))
  BY DEF Adding, DrawnAlong, LinksAddEdge, NextLeftOf, NextRightOf, Relinked

\* What it leaves of the rounds.
LEMMA AddingTurns ==
  ASSUME TopoInv, NEW k, NEW a, NEW b, NEW l, NEW s, NEW t, Adding(k, a, b, l, s, t), NEW n \in nodes
  PROVE  /\ k \notin EndsAt(n) /\ -k \notin EndsAt(n) /\ k # -k /\ 0 \notin EndsAt(n)
         /\ IsFiniteSet(EndsAt(n))
         /\ EndsAt(n)' = EndsAt(n) \cup (IF n = a THEN {k} ELSE {}) \cup (IF n = b THEN {-k} ELSE {})
         /\ Spread(EndsAt(n)', Departs')
         /\ Turns(EndsAt(n), Departs', Turned)
         /\ Turned'[k] = NextRightOf(k, a, b, s) /\ Turned'[-k] = NextLeftOf(k, a, b, t)
         /\ \A c \in EndsAt(n) : /\ Turned'[c] = IF -c = -t.ccw THEN -k ELSE IF -c = -s.ccw THEN k ELSE Turned[c]
                                 /\ Departs'[c] = Departure(Path(line, c))
                                 /\ c \in Darts(edges) /\ c \in Int /\ c # 0
<1> DEFINE L == NextLeftOf(k, a, b, t)
           R == NextRightOf(k, a, b, s)
           O == Relinked(k, s, t)
<1>0. LinksTypeOK
  BY DEF TopoInv, LinksInv
<1>1. DrawnAlong(k, a, b, l, L, R, O)
  BY AddingDraws
<1> HIDE DEF L, R
<1>2. /\ EndsAt(n)' = EndsAt(n) \cup (IF n = a THEN {k} ELSE {}) \cup (IF n = b THEN {-k} ELSE {})
      /\ Spread(EndsAt(n)', Departs')
      /\ Turns(EndsAt(n), Departs', Turned)
      /\ Turned'[k] = R /\ Turned'[-k] = L
      /\ \A d \in Darts(edges) : Turned'[d] = O[-d] /\ Turned[d] = next[-d]
  BY <1>1, DrawnEnds
<1>3. /\ k \notin Darts(edges) /\ -k \notin Darts(edges) /\ k # -k
      /\ \A d \in Darts(edges) : Departs'[d] = Departs[d]
  BY <1>1, DrawnDarts
<1>4. ASSUME NEW c \in EndsAt(n)
      PROVE  /\ Turned'[c] = IF -c = -t.ccw THEN -k ELSE IF -c = -s.ccw THEN k ELSE Turned[c]
             /\ Departs'[c] = Departure(Path(line, c)) /\ c # 0 /\ c \in Int /\ c \in Darts(edges)
  <2>1. c \in Darts(edges) /\ -c \in Darts(edges) /\ c # 0 /\ c \in Int /\ -(-c) = c
    BY <1>0, EndsFacts, DartFacts
  <2>2. O[-c] = IF -c = -t.ccw THEN -k ELSE IF -c = -s.ccw THEN k ELSE next[-c]
    BY <2>1 DEF Relinked
  <2> QED BY <1>2, <1>3, <2>1, <2>2 DEF Departs
<1>5. k \notin EndsAt(n) /\ -k \notin EndsAt(n) /\ IsFiniteSet(EndsAt(n)) /\ 0 \notin EndsAt(n)
  BY <1>0, <1>3, <1>4, FewEnds DEF EndsAt
<1> QED BY <1>2, <1>3, <1>4, <1>5 DEF L, R

\* FindAdjacent finds ends it was given, or none.
LEMMA FoundAmong ==
  ASSUME NEW E, NEW a, NEW D, NEW u, Leaving(E, a, D, u), NEW F, F \subseteq E
  PROVE  FindAdjacent(F, u).cw \in F \cup {0} /\ FindAdjacent(F, u).ccw \in F \cup {0}
<1> USE DEF Leaving
<1>1. CASE F = {}
  BY <1>1 DEF FindAdjacent, NoEnd
<1>2. CASE F # {}
  <2>1. IsFiniteSet(F) /\ a \notin F /\ \A c \in F : D[c] = Departure(Path(line, c))
    BY FS_Subset
  <2>2. F \cup {a} \subseteq E \cup {a}
    OBVIOUS
  <2>3. Spread(F \cup {a}, D)
    BY <2>2, SpreadPart
  <2> QED BY <1>2, <2>1, <2>3, Adjacents DEF FirstAfter, LastAfter
<1> QED BY <1>1, <1>2

LEMMA FoundBut ==
  ASSUME NEW E, NEW a, NEW D, NEW u, Leaving(E, a, D, u), NEW v
  PROVE  FindAdjacentBut(E, u, v).cw \in E \cup {0} /\ FindAdjacentBut(E, u, v).ccw \in E \cup {0}
<1> DEFINE F == {d \in E : ClockwiseBefore(u, Departure(Path(line, d)), v)}
           G == {d \in E : ClockwiseBefore(u, v, Departure(Path(line, d)))}
<1>1. FindAdjacentBut(E, u, v) = [cw |-> FindAdjacent(F, u).cw, ccw |-> FindAdjacent(G, u).ccw]
  BY DEF FindAdjacentBut
<1>2. F \subseteq E /\ G \subseteq E
  OBVIOUS
<1> HIDE DEF F, G
<1>3. FindAdjacent(F, u).cw \in F \cup {0}
  BY <1>2, FoundAmong
<1>4. FindAdjacent(G, u).ccw \in G \cup {0}
  BY <1>2, FoundAmong
<1> QED BY <1>1, <1>2, <1>3, <1>4

\* What Adjacencies looks at when an edge is added.
LEMMA AddingAdjacent ==
  ASSUME TopoInv, NEW k, NEW a, NEW b, NEW l, NEW s, NEW t, Adding(k, a, b, l, s, t)
  PROVE  /\ Departs'[k] = Departure(l) /\ Departs'[-k] = Departure(Reverse(l))
         /\ IF a = b
            THEN /\ s = FindAdjacentBut(EndsAt(a), Departure(l), Departure(Reverse(l)))
                 /\ t = FindAdjacentBut(EndsAt(a), Departure(Reverse(l)), Departure(l))
            ELSE /\ s = FindAdjacent(EndsAt(a), Departure(l))
                 /\ t = FindAdjacent(EndsAt(b), Departure(Reverse(l)))
<1>1. a \in nodes /\ b \in nodes /\ l \in Polylines
  BY DEF Adding
<1>2. Departs'[k] = Departure(l) /\ Departs'[-k] = Departure(Reverse(l))
  <2>1. DrawnAlong(k, a, b, l, NextLeftOf(k, a, b, t), NextRightOf(k, a, b, s), Relinked(k, s, t))
    BY AddingDraws
  <2> QED BY <2>1, DrawnDarts
<1>3. Departure(Reverse(l)) = Direction(Last(l), l[Len(l) - 1])
  BY <1>1, DepartureWay
<1>4. EndsAt(a) \ {0, -0} = EndsAt(a) /\ EndsAt(b) \ {0, -0} = EndsAt(b)
  <2>1. ASSUME NEW c \in EndsAt(a) \cup EndsAt(b) PROVE c \in Int /\ c # 0 /\ c # -0
    <3>1. c \in Int /\ c # 0
      BY <1>1, AddingTurns
    <3> QED BY <3>1
  <2> QED BY <2>1
<1>5. /\ s = Adjacencies(a, b, l, 0)[1] /\ t = Adjacencies(a, b, l, 0)[2]
  BY DEF Adding
<1> QED BY <1>2, <1>3, <1>4, <1>5 DEF Adjacencies

\* The neighbours are ends of the nodes, or none.
LEMMA AddingNeighbours ==
  ASSUME TopoInv, NEW k, NEW a, NEW b, NEW l, NEW s, NEW t, Adding(k, a, b, l, s, t)
  PROVE  /\ s.cw \in EndsAt(a) \cup {0} /\ s.ccw \in EndsAt(a) \cup {0}
         /\ t.cw \in EndsAt(b) \cup {0} /\ t.ccw \in EndsAt(b) \cup {0}
<1> DEFINE u == Departure(l)
           v == Departure(Reverse(l))
           D == Departs'
<1>1. a \in nodes /\ b \in nodes
  BY DEF Adding
<1>2. /\ D[k] = u /\ D[-k] = v
      /\ a = b => s = FindAdjacentBut(EndsAt(a), u, v) /\ t = FindAdjacentBut(EndsAt(a), v, u)
      /\ a # b => s = FindAdjacent(EndsAt(a), u) /\ t = FindAdjacent(EndsAt(b), v)
  BY AddingAdjacent
<1>3. /\ IsFiniteSet(EndsAt(a)) /\ k \notin EndsAt(a) /\ Spread(EndsAt(a)', D)
      /\ EndsAt(a)' = EndsAt(a) \cup {k} \cup (IF a = b THEN {-k} ELSE {})
      /\ \A c \in EndsAt(a) : D[c] = Departure(Path(line, c))
  BY <1>1, AddingTurns
<1>4. /\ IsFiniteSet(EndsAt(b)) /\ -k \notin EndsAt(b) /\ Spread(EndsAt(b)', D)
      /\ EndsAt(b)' = EndsAt(b) \cup (IF b = a THEN {k} ELSE {}) \cup {-k}
      /\ \A c \in EndsAt(b) : D[c] = Departure(Path(line, c))
  BY <1>1, AddingTurns
<1>5. Spread(EndsAt(a) \cup {k}, D) /\ Spread(EndsAt(b) \cup {-k}, D)
  <2>1. EndsAt(a) \cup {k} \subseteq EndsAt(a)' /\ EndsAt(b) \cup {-k} \subseteq EndsAt(b)'
    BY <1>3, <1>4
  <2> QED BY <1>3, <1>4, <2>1, SpreadPart
<1>8. Leaving(EndsAt(a), k, D, u) /\ Leaving(EndsAt(b), -k, D, v)
  BY <1>2, <1>3, <1>4, <1>5 DEF Leaving
<1> HIDE DEF u, v, D
<1>6. CASE a = b
  <2>1. s.cw \in EndsAt(a) \cup {0} /\ s.ccw \in EndsAt(a) \cup {0}
    BY <1>2, <1>6, <1>8, FoundBut
  <2>2. t.cw \in EndsAt(b) \cup {0} /\ t.ccw \in EndsAt(b) \cup {0}
    BY <1>2, <1>6, <1>8, FoundBut
  <2> QED BY <2>1, <2>2
<1>7. CASE a # b
  <2>1. s.cw \in EndsAt(a) \cup {0} /\ s.ccw \in EndsAt(a) \cup {0}
    <3>1. EndsAt(a) \subseteq EndsAt(a)
      OBVIOUS
    <3> QED BY <1>2, <1>7, <1>8, <3>1, FoundAmong
  <2>2. t.cw \in EndsAt(b) \cup {0} /\ t.ccw \in EndsAt(b) \cup {0}
    <3>1. EndsAt(b) \subseteq EndsAt(b)
      OBVIOUS
    <3> QED BY <1>2, <1>7, <1>8, <3>1, FoundAmong
  <2> QED BY <2>1, <2>2
<1> QED BY <1>6, <1>7

\* Who turns to the new ends: their counterclockwise neighbours.
LEMMA AddingRelinked ==
  ASSUME TopoInv, NEW k, NEW a, NEW b, NEW l, NEW s, NEW t, Adding(k, a, b, l, s, t), NEW n \in nodes,
         NEW c \in EndsAt(n)
  PROVE  Turned'[c] = IF c = t.ccw THEN -k ELSE IF c = s.ccw THEN k ELSE Turned[c]
<1>1. a \in nodes /\ b \in nodes
  BY DEF Adding
<1>2. s.ccw \in Int /\ t.ccw \in Int
  <2>1. \A x \in EndsAt(a) \cup EndsAt(b) \cup {0} : x \in Int
    BY <1>1, AddingTurns
  <2> QED BY <2>1, AddingNeighbours
<1>3. /\ c \in Int
      /\ Turned'[c] = IF -c = -t.ccw THEN -k ELSE IF -c = -s.ccw THEN k ELSE Turned[c]
  BY AddingTurns
<1>4. (-c = -t.ccw <=> c = t.ccw) /\ (-c = -s.ccw <=> c = s.ccw)
  BY <1>2, <1>3
<1> QED BY <1>3, <1>4

\* At the nodes of the new edge the links still turn clockwise, and the azimuths
\* found corners that TopoLinks has.
LEMMA AddingRounds ==
  ASSUME TopoInv, NEW k, NEW a, NEW b, NEW l, NEW s, NEW t, Adding(k, a, b, l, s, t)
  PROVE  /\ <<s, t>> \in AdjacentPairs(a, b)
         /\ \A n \in {a, b} : Turns(EndsAt(n)', Departs', Turned')
<1> DEFINE u == Departure(l)
           v == Departure(Reverse(l))
           D == Departs'
           T == Turned
           U == Turned'
           A == EndsAt(a)
           B == EndsAt(b)
<1>0. LinksTypeOK
  BY DEF TopoInv, LinksInv
<1>1. a \in nodes /\ b \in nodes /\ k \in Nat /\ k > 0
  BY <1>0 DEF Adding, LinksTypeOK
<1>2. /\ D[k] = u /\ D[-k] = v
      /\ a = b => s = FindAdjacentBut(A, u, v) /\ t = FindAdjacentBut(A, v, u)
      /\ a # b => s = FindAdjacent(A, u) /\ t = FindAdjacent(B, v)
  BY AddingAdjacent
<1>3. /\ k \notin A /\ -k \notin A /\ k # -k /\ 0 \notin A /\ IsFiniteSet(A)
      /\ EndsAt(a)' = A \cup {k} \cup (IF a = b THEN {-k} ELSE {})
      /\ Spread(EndsAt(a)', D) /\ Turns(A, D, T)
      /\ U[k] = NextRightOf(k, a, b, s) /\ U[-k] = NextLeftOf(k, a, b, t)
      /\ \A c \in A : D[c] = Departure(Path(line, c))
  BY <1>1, AddingTurns
<1>4. /\ k \notin B /\ -k \notin B /\ 0 \notin B /\ IsFiniteSet(B)
      /\ EndsAt(b)' = B \cup (IF b = a THEN {k} ELSE {}) \cup {-k}
      /\ Spread(EndsAt(b)', D) /\ Turns(B, D, T)
      /\ \A c \in B : D[c] = Departure(Path(line, c))
  BY <1>1, AddingTurns
<1>5. \A c \in A \cup B : U[c] = IF c = t.ccw THEN -k ELSE IF c = s.ccw THEN k ELSE T[c]
  BY <1>1, AddingRelinked
<1>6. /\ s.cw \in A \cup {0} /\ s.ccw \in A \cup {0}
      /\ t.cw \in B \cup {0} /\ t.ccw \in B \cup {0}
  BY AddingNeighbours
<1>7. a # b => A \cap B = {}
  BY DEF EndsAt
<1>8. /\ U[k] = IF s.cw # 0 THEN s.cw ELSE IF a = b THEN -k ELSE k
      /\ U[-k] = IF t.cw # 0 THEN t.cw ELSE IF a = b THEN k ELSE -k
  <2>1. -(-k) = k
    BY <1>1
  <2> QED BY <1>3, <2>1 DEF NextRightOf, NextLeftOf
<1>9. /\ A # {} => Adjacent(a) = {InCorner(p) : p \in Corners(a)}
      /\ A = {} => Adjacent(a) = {NoEnd} /\ Lonely(a)
      /\ B # {} => Adjacent(b) = {InCorner(p) : p \in Corners(b)}
      /\ B = {} => Adjacent(b) = {NoEnd} /\ Lonely(b)
  BY DEF Adjacent, Lonely
<1> HIDE DEF u, v, D, U
<1>10. CASE a # b
  <2>1. /\ A = {} => s = NoEnd /\ s.cw = 0 /\ s.ccw = 0
        /\ B = {} => t = NoEnd /\ t.cw = 0 /\ t.ccw = 0
    BY <1>2, <1>10 DEF FindAdjacent, NoEnd
  <2>2. U[k] = IF A = {} THEN k ELSE s.cw
    <3>1. A # {} => s.cw # 0
      <4> SUFFICES ASSUME A # {} PROVE s.cw # 0
        OBVIOUS
      <4>1. FirstAfter(A, D, k, s.cw)
        <5>1. Spread(A \cup {k}, D)
          BY <1>3, <1>10
        <5> QED BY <1>2, <1>3, <1>10, <5>1, Adjacents
      <4> QED BY <1>3, <4>1 DEF FirstAfter
    <3> QED BY <1>8, <1>10, <2>1, <3>1
  <2>3. U[-k] = IF B = {} THEN -k ELSE t.cw
    <3>1. B # {} => t.cw # 0
      <4> SUFFICES ASSUME B # {} PROVE t.cw # 0
        OBVIOUS
      <4>1. FirstAfter(B, D, -k, t.cw)
        <5>1. Spread(B \cup {-k}, D)
          BY <1>4, <1>10
        <5> QED BY <1>2, <1>4, <1>10, <5>1, Adjacents
      <4> QED BY <1>4, <4>1 DEF FirstAfter
    <3> QED BY <1>8, <1>10, <2>1, <3>1
  <2>4. /\ \A c \in A : U[c] = IF c = s.ccw THEN k ELSE T[c]
        /\ \A c \in B : U[c] = IF c = t.ccw THEN -k ELSE T[c]
    BY <1>3, <1>4, <1>5, <1>6, <1>7, <1>10
  <2>5. /\ Turns(A \cup {k}, D, U) /\ s = [cw |-> s.cw, ccw |-> s.ccw]
        /\ A # {} => s.cw \in A /\ s.ccw \in A /\ T[s.ccw] = s.cw
    <3>1. Spread(A \cup {k}, D)
      BY <1>3, <1>10
    <3> HIDE DEF A, B
    <3>2. Leaving(A, k, D, u) /\ OneMore(A, k, s, T, U)
      BY <1>2, <1>3, <2>2, <2>4, <3>1 DEF Leaving, OneMore
    <3>3. Turns(A, D, T) /\ s = FindAdjacent(A, u)
      BY <1>2, <1>3, <1>10
    <3> QED BY ONLY <3>2, <3>3, EndAdded
  <2>6. /\ Turns(B \cup {-k}, D, U) /\ t = [cw |-> t.cw, ccw |-> t.ccw]
        /\ B # {} => t.cw \in B /\ t.ccw \in B /\ T[t.ccw] = t.cw
    <3>1. Spread(B \cup {-k}, D)
      BY <1>4, <1>10
    <3> HIDE DEF A, B
    <3>2. Leaving(B, -k, D, v) /\ OneMore(B, -k, t, T, U)
      BY <1>2, <1>4, <2>3, <2>4, <3>1 DEF Leaving, OneMore
    <3> QED BY <1>2, <1>4, <1>10, <3>2, EndAdded
  <2>7. s \in Adjacent(a) /\ t \in Adjacent(b)
    BY <1>0, <1>9, <2>1, <2>5, <2>6, AdjacentTo
  <2>8. EndsAt(a)' = A \cup {k} /\ EndsAt(b)' = B \cup {-k}
    BY <1>3, <1>4, <1>10
  <2>9. Turns(EndsAt(a)', D, U) /\ Turns(EndsAt(b)', D, U)
    BY <2>5, <2>6, <2>8
  <2> QED BY <1>10, <2>7, <2>9 DEF AdjacentPairs, D, U
<1>11. CASE a = b /\ A = {}
  <2>1. s.cw = 0 /\ t.cw = 0 /\ s = NoEnd /\ t = NoEnd
    BY <1>2, <1>11 DEF FindAdjacentBut, FindAdjacent, NoEnd
  <2>2. U[k] = -k /\ U[-k] = k
    BY <1>8, <1>11, <2>1
  <2>3. EndsAt(a)' = {k, -k}
    BY <1>3, <1>11
  <2>4. Turns({k, -k}, D, U)
    BY <1>3, <2>2 DEF Turns, FirstAfter
  <2>5. <<s, t>> \in AdjacentPairs(a, b)
    BY <1>9, <1>11, <2>1 DEF AdjacentPairs
  <2> QED BY <1>11, <2>3, <2>4, <2>5 DEF D, U
<1>12. CASE a = b /\ A # {}
  <2>1. Spread(A \cup {k, -k}, D)
    <3>1. EndsAt(a)' = A \cup {k, -k}
      BY <1>3, <1>12
    <3> QED BY <1>3, <3>1
  <2>2. /\ U[k] = (IF s.cw # 0 THEN s.cw ELSE -k) /\ U[-k] = (IF t.cw # 0 THEN t.cw ELSE k)
        /\ \A c \in A : U[c] = IF c = t.ccw THEN -k ELSE IF c = s.ccw THEN k ELSE T[c]
        /\ s = FindAdjacentBut(A, u, v) /\ t = FindAdjacentBut(A, v, u)
    BY <1>2, <1>5, <1>8, <1>12
  <2>3. /\ Turns(A \cup {k, -k}, D, U)
        /\ s = [cw |-> s.cw, ccw |-> s.ccw] /\ t = [cw |-> t.cw, ccw |-> t.ccw]
        /\ \/ /\ s.cw \in A /\ s.ccw \in A /\ t.cw \in A /\ t.ccw \in A
              /\ s.ccw # t.ccw /\ T[s.ccw] = s.cw /\ T[t.ccw] = t.cw
           \/ s.cw = 0 /\ t.ccw = 0 /\ s.ccw \in A /\ t.cw \in A /\ T[s.ccw] = t.cw
           \/ s.ccw = 0 /\ t.cw = 0 /\ s.cw \in A /\ t.ccw \in A /\ T[t.ccw] = s.cw
    <3>1. A # {}
      BY <1>12
    <3> HIDE DEF A, B
    <3>2. LeavingTwice(A, k, -k, D, u, v) /\ TwoMore(A, k, -k, s, t, T, U)
      BY <1>2, <1>3, <2>1, <2>2, <3>1 DEF LeavingTwice, TwoMore
    <3> QED BY <1>3, <2>2, <3>2, EndsAdded
  <2>4. Turns(EndsAt(a)', D, U)
    <3>1. EndsAt(a)' = A \cup {k, -k}
      BY <1>3, <1>12
    <3> QED BY <2>3, <3>1
  <2>5. ~ Lonely(a)
    BY <1>12 DEF Lonely
  <2>6. CASE /\ s.cw \in A /\ s.ccw \in A /\ t.cw \in A /\ t.ccw \in A
             /\ s.ccw # t.ccw /\ T[s.ccw] = s.cw /\ T[t.ccw] = t.cw
    <3>1. s \in Adjacent(a) /\ t \in Adjacent(a) /\ s # t
      BY <1>0, <1>12, <2>3, <2>6, AdjacentTo
    <3> QED BY <1>12, <2>4, <2>5, <3>1 DEF AdjacentPairs, D, U
  <2>7. CASE s.cw = 0 /\ t.ccw = 0 /\ s.ccw \in A /\ t.cw \in A /\ T[s.ccw] = t.cw
    <3>1. -s.ccw \in Corners(a) /\ s = CcwOnly(-s.ccw) /\ t = CwOnly(-s.ccw)
      BY <1>0, <2>3, <2>7, CornerFacts
    <3> QED BY <1>12, <2>4, <2>5, <3>1 DEF AdjacentPairs, D, U
  <2>8. CASE s.ccw = 0 /\ t.cw = 0 /\ s.cw \in A /\ t.ccw \in A /\ T[t.ccw] = s.cw
    <3>1. -t.ccw \in Corners(a) /\ s = CwOnly(-t.ccw) /\ t = CcwOnly(-t.ccw)
      BY <1>0, <2>3, <2>8, CornerFacts
    <3> QED BY <1>12, <2>4, <2>5, <3>1 DEF AdjacentPairs, D, U
  <2> QED BY <2>3, <2>6, <2>7, <2>8
<1> QED BY <1>10, <1>11, <1>12

\* And at all the others.
LEMMA AddingClockwise ==
  ASSUME TopoInv, NEW k, NEW a, NEW b, NEW l, NEW s, NEW t, Adding(k, a, b, l, s, t)
  PROVE  Clockwise'
<1> SUFFICES ASSUME NEW n \in nodes PROVE Turns(EndsAt(n)', Departs', Turned')
  BY DEF Clockwise, Adding, LinksAddEdge
<1>1. CASE n \in {a, b}
  BY <1>1, AddingRounds
<1>2. CASE n \notin {a, b}
  <2>1. EndsAt(n)' = EndsAt(n) /\ Turns(EndsAt(n), Departs', Turned)
    BY <1>2, AddingTurns
  <2>2. \A c \in EndsAt(n) : Turned'[c] = Turned[c]
    <3> SUFFICES ASSUME NEW c \in EndsAt(n) PROVE Turned'[c] = Turned[c]
      OBVIOUS
    <3>1. c \notin EndsAt(a) /\ c \notin EndsAt(b) /\ c # 0
      BY <1>2, AddingTurns DEF EndsAt
    <3>2. c # t.ccw /\ c # s.ccw
      BY <3>1, AddingNeighbours
    <3> QED BY <3>2, AddingRelinked
  <2>3. \A c \in EndsAt(n) : EndsAt(n) # {c} => Turned[c] \in EndsAt(n)
    BY <2>1 DEF Turns, FirstAfter
  <2> QED BY <2>1, <2>2 DEF Turns
<1> QED BY <1>1, <1>2

-----------------------------------------------------------------------------
(* AddIsoEdge *)

\* Both sides of a new edge have a label.
LEMMA SidesAdded ==
  ASSUME NEW S, NEW F, NEW f \in F, NEW t \in [S -> F], NEW k, NEW j
  PROVE  WithRow(WithRow(t, k, f), j, f) \in [S \cup {k, j} -> F]
<1> DEFINE u == WithRow(t, k, f)
<1>1. u \in [S \cup {k} -> F]
  BY DEF WithRow
<1> HIDE DEF u
<1>2. WithRow(u, j, f) \in [S \cup {k} \cup {j} -> F]
  BY <1>1 DEF WithRow
<1>3. S \cup {k} \cup {j} = S \cup {k, j}
  OBVIOUS
<1> QED BY <1>2, <1>3 DEF u

LEMMA AddIsoEdgeKeeps ==
  ASSUME TopoInv, NEW a \in nodes, NEW b \in nodes, NEW l \in Curves, AddIsoEdge(a, b, l)
  PROVE  /\ LinksAddIsoEdge(a, b)
         /\ Tables' /\ LabelsTypeOK' /\ Drawn' /\ Clockwise' /\ IsolatedAlone'
<1> DEFINE k == lastEdge + 1
           f == contFace[a]
<1>0. LinksTypeOK
  BY DEF TopoInv, LinksInv
<1>1. /\ a # b /\ f # -1 /\ contFace[b] # -1 /\ l \in Polylines
      /\ EndpointsMatch(a, b, l) /\ IsSimple(l) /\ NoCrossing(a, b, l, 0)
      /\ k <= MaxEdge /\ lastEdge' = k /\ InsertEdge(k, a, b, -k, k, next)
      /\ line' = WithRow(line, k, l)
      /\ left' = WithRow(WithRow(left, k, f), -k, f)
      /\ contFace' = [contFace EXCEPT ![a] = -1, ![b] = -1]
      /\ UNCHANGED <<nodes, lastNode, pt, mbr, lastFace>>
  BY GeometryAssumption DEF AddIsoEdge, Isolated
<1>2. k \in Nat /\ lastEdge < MaxEdge
  BY <1>0, <1>1, BoundsAssumption DEF LinksTypeOK
<1>3. EndsAt(a) = {} /\ EndsAt(b) = {}
  BY <1>1 DEF TopoInv, IsolatedAlone
<1>4. LinksAddIsoEdge(a, b)
  BY <1>1, <1>2, <1>3 DEF LinksAddIsoEdge, Lonely
<1>5. DrawnAlong(k, a, b, l, -k, k, next)
  BY <1>1 DEF DrawnAlong
<1> HIDE DEF k
<1>6. Tables' /\ Drawn'
  BY <1>5, DrawnKeeps
<1>7. /\ k \notin Darts(edges) /\ -k \notin Darts(edges) /\ k # -k
      /\ Darts(edges)' = Darts(edges) \cup {k, -k}
  BY <1>5, DrawnDarts
<1>8. ASSUME NEW n \in nodes
      PROVE  /\ EndsAt(n)' = EndsAt(n) \cup (IF n = a THEN {k} ELSE {}) \cup (IF n = b THEN {-k} ELSE {})
             /\ Turns(EndsAt(n), Departs', Turned)
             /\ Turned'[k] = k /\ Turned'[-k] = -k
             /\ \A d \in Darts(edges) : Turned'[d] = next[-d] /\ Turned[d] = next[-d]
  BY <1>5, DrawnEnds
<1>9. Clockwise'
  <2> SUFFICES ASSUME NEW n \in nodes PROVE Turns(EndsAt(n)', Departs', Turned')
    BY <1>1 DEF Clockwise
  <2>1. CASE n = a
    <3>1. EndsAt(n)' = {k}
      BY <1>1, <1>3, <1>8, <2>1
    <3> QED BY <1>8, <3>1 DEF Turns
  <2>2. CASE n = b
    <3>1. EndsAt(n)' = {-k}
      BY <1>1, <1>3, <1>8, <2>2
    <3> QED BY <1>8, <3>1 DEF Turns
  <2>3. CASE n \notin {a, b}
    <3>1. EndsAt(n)' = EndsAt(n) /\ EndsAt(n) \subseteq Darts(edges)
      BY <1>8, <2>3 DEF EndsAt
    <3>2. \A c \in EndsAt(n) : Turned'[c] = Turned[c]
      BY <1>8, <3>1
    <3> QED BY <1>8, <3>1, <3>2 DEF Turns
  <2> QED BY <2>1, <2>2, <2>3
<1>10. LabelsTypeOK'
  <2>1. f \in 0..lastFace /\ lastFace \in Nat
    BY <1>1 DEF TopoInv, LabelsTypeOK
  <2>2. left' \in [Darts(edges) \cup {k, -k} -> 0..lastFace]
    BY <1>1, <2>1, SidesAdded DEF TopoInv, LabelsTypeOK
  <2>3. contFace' \in [nodes -> -1..lastFace]
    BY <1>1, <2>1 DEF TopoInv, LabelsTypeOK
  <2> QED BY <1>1, <1>7, <2>2, <2>3 DEF TopoInv, LabelsTypeOK
<1>11. IsolatedAlone'
  <2> SUFFICES ASSUME NEW n \in nodes PROVE contFace'[n] = -1 <=> EndsAt(n)' # {}
    BY <1>1 DEF IsolatedAlone
  <2>1. contFace'[n] = IF n \in {a, b} THEN -1 ELSE contFace[n]
    BY <1>1 DEF TopoInv, LabelsTypeOK
  <2>2. contFace[n] = -1 <=> EndsAt(n) # {}
    BY DEF TopoInv, IsolatedAlone
  <2> QED BY <1>8, <2>1, <2>2
<1> QED BY <1>4, <1>6, <1>9, <1>10, <1>11

-----------------------------------------------------------------------------
(* The labels of AddEdge *)

\* The labels t of the darts D: the faces are drawn from the sequence, and the
\* nodes of S have none.
LabelsOK(t, D, S) ==
  /\ t = [left |-> t.left, contFace |-> t.contFace, mbr |-> t.mbr, lastFace |-> t.lastFace]
  /\ t.lastFace \in Nat
  /\ t.left \in [D -> 0..t.lastFace]
  /\ t.contFace \in [nodes -> -1..t.lastFace]
  /\ DOMAIN t.mbr \subseteq 1..t.lastFace
  /\ \A n \in nodes : t.contFace[n] = -1 <=> n \in S

\* A face split gives labels that were drawn from the sequence.
LEMMA AddFaceSplitLabels ==
  ASSUME NEW t, NEW D, NEW S, LabelsOK(t, D, S), NEW succ, NEW ln, NEW d, NEW f \in 0..t.lastFace,
         NEW mbrOnly \in BOOLEAN
  PROVE  /\ LabelsOK(AddFaceSplit(t, succ, ln, d, f, mbrOnly).t, D, S)
         /\ AddFaceSplit(t, succ, ln, d, f, mbrOnly).t.lastFace >= t.lastFace
<1> DEFINE ring == Ring(succ, d)
           ccw == IsCcw(ln, ring)
           box == ShellBox(ln, ring)
           g == t.lastFace + 1
           hole == f # 0 /\ ~ ccw
           A == AddFaceSplit(t, succ, ln, d, f, mbrOnly)
           o == TakeOver(t, ln, ring, f, g, hole)
<1>1. CASE -d \in ring
  <2>1. A.t = t
    BY <1>1 DEF AddFaceSplit
  <2> QED BY <2>1 DEF LabelsOK
<1>2. CASE -d \notin ring /\ f = 0 /\ ~ ccw
  <2>1. A.t = t
    BY <1>2 DEF AddFaceSplit
  <2> QED BY <2>1 DEF LabelsOK
<1>3. CASE -d \notin ring /\ f # 0 /\ mbrOnly
  <2>1. A.t = IF ccw THEN [t EXCEPT !.mbr[f] = box] ELSE t
    BY <1>3 DEF AddFaceSplit
  <2> HIDE DEF A
  <2> DEFINE w == [t EXCEPT !.mbr[f] = box]
  <2>2. LabelsOK(w, D, S) /\ w.lastFace = t.lastFace
    BY DEF LabelsOK
  <2> HIDE DEF w
  <2> QED BY <2>1, <2>2 DEF A, LabelsOK, w
<1>4. CASE -d \notin ring /\ ~ (f = 0 /\ ~ ccw) /\ ~ (f # 0 /\ mbrOnly)
  <2> DEFINE h == IF hole THEN t.mbr[f] ELSE box
             w == [o EXCEPT !.lastFace = g, !.mbr = WithRow(@, g, h)]
  <2>1. A.t = w
    BY <1>4 DEF AddFaceSplit
  <2>2. /\ t.lastFace \in Nat /\ g \in Nat /\ g > t.lastFace /\ f \in Nat
        /\ 0..t.lastFace \subseteq 0..g /\ -1..t.lastFace \subseteq -1..g /\ 1..t.lastFace \subseteq 1..g
        /\ g \in 0..g /\ g \in -1..g /\ g \in 1..g /\ g # -1 /\ f # -1
    BY DEF LabelsOK
  <2> HIDE DEF A, g, ring, hole, h
  <2>3. PICK L, C : /\ o = [left |-> L, contFace |-> C, mbr |-> t.mbr, lastFace |-> t.lastFace]
                    /\ L \in [D -> 0..g] /\ C \in [nodes -> -1..g]
                    /\ \A n \in nodes : C[n] = -1 <=> n \in S
    <3> DEFINE taken(p) == InShell(ln, ring, p) # hole
               onRing(c) == c \in ring \/ -c \in ring
               moves(c) == IF onRing(c) THEN c \in ring /\ f \in {t.left[c], t.left[-c]}
                           ELSE t.left[c] = f /\ taken(InteriorPoint(ln[Abs(c)]))
               L == [c \in DOMAIN t.left |-> IF moves(c) THEN g ELSE t.left[c]]
               C == [n \in DOMAIN t.contFace |-> IF t.contFace[n] = f /\ taken(pt[n]) THEN g
                                                 ELSE t.contFace[n]]
    <3>1. o = [t EXCEPT !.left = L, !.contFace = C]
      BY DEF TakeOver
    <3> HIDE DEF moves, taken
    <3>2. L \in [D -> 0..g] /\ C \in [nodes -> -1..g] /\ \A n \in nodes : C[n] = -1 <=> n \in S
      BY <2>2 DEF LabelsOK
    <3> HIDE DEF L, C, o
    <3>3. o = [left |-> L, contFace |-> C, mbr |-> t.mbr, lastFace |-> t.lastFace]
      BY <3>1 DEF LabelsOK
    <3> QED BY <3>2, <3>3
  <2> HIDE DEF o
  <2>4. w = [left |-> L, contFace |-> C, mbr |-> WithRow(t.mbr, g, h), lastFace |-> g]
    <3>1. o.mbr = t.mbr
      BY <2>3
    <3> DEFINE M == WithRow(t.mbr, g, h)
    <3>2. w = [o EXCEPT !.lastFace = g, !.mbr = M]
      <4>1. [o EXCEPT !.lastFace = g].mbr = t.mbr
        BY <2>3
      <4> QED BY <3>1, <4>1
    <3> HIDE DEF w, M
    <3>3. w = [left |-> L, contFace |-> C, mbr |-> M, lastFace |-> g]
      BY <2>3, <3>2
    <3> QED BY <3>3 DEF M
  <2>5. DOMAIN WithRow(t.mbr, g, h) \subseteq 1..g
    BY <2>2 DEF WithRow, LabelsOK
  <2> HIDE DEF w
  <2>6. LabelsOK(w, D, S) /\ w.lastFace = g
    BY <2>2, <2>3, <2>4, <2>5 DEF LabelsOK
  <2> QED BY <2>1, <2>2, <2>6 DEF A
<1> QED BY <1>1, <1>2, <1>3, <1>4

LEMMA SplitModFaceLabels ==
  ASSUME NEW t, NEW D, NEW S, LabelsOK(t, D, S), NEW succ, NEW ln, NEW k, NEW f \in 0..t.lastFace
  PROVE  LabelsOK(SplitModFace(t, succ, ln, k, f), D, S)
<1> DEFINE A == AddFaceSplit(t, succ, ln, k, f, FALSE)
           B == AddFaceSplit(t, succ, ln, -k, f, FALSE)
           C == AddFaceSplit(A.t, succ, ln, -k, f, TRUE)
<1>1. LabelsOK(A.t, D, S) /\ A.t.lastFace >= t.lastFace /\ LabelsOK(B.t, D, S)
  BY AddFaceSplitLabels
<1>2. f \in 0..A.t.lastFace
  <2> DEFINE x == A.t.lastFace
  <2>1. x \in Nat /\ t.lastFace \in Nat /\ x >= t.lastFace
    BY <1>1 DEF LabelsOK
  <2> HIDE DEF x, A
  <2>2. f \in 0..x
    BY <2>1
  <2> QED BY <2>2 DEF x
<1>3. LabelsOK(C.t, D, S)
  <2> HIDE DEF A
  <2> QED BY <1>1, <1>2, AddFaceSplitLabels
<1>4. SplitModFace(t, succ, ln, k, f) = CASE A.result = 0 -> t [] A.result < 0 -> B.t [] OTHER -> C.t
  BY DEF SplitModFace
<1> HIDE DEF A, B, C
<1>5. \/ SplitModFace(t, succ, ln, k, f) = t
      \/ SplitModFace(t, succ, ln, k, f) = B.t
      \/ SplitModFace(t, succ, ln, k, f) = C.t
  BY <1>4
<1> QED BY <1>1, <1>3, <1>5

LEMMA SplitNewFacesLabels ==
  ASSUME NEW t, NEW D, NEW S, LabelsOK(t, D, S), NEW succ, NEW ln, NEW k, NEW f \in 0..t.lastFace
  PROVE  LabelsOK(SplitNewFaces(t, succ, ln, k, f), D, S)
<1> DEFINE A == AddFaceSplit(t, succ, ln, -k, f, FALSE)
           B == AddFaceSplit(A.t, succ, ln, k, f, FALSE)
           w == [B.t EXCEPT !.mbr = Restrict(@, DOMAIN @ \ {f})]
<1>1. LabelsOK(A.t, D, S) /\ A.t.lastFace >= t.lastFace
  BY AddFaceSplitLabels
<1>2. f \in 0..A.t.lastFace
  <2> DEFINE x == A.t.lastFace
  <2>1. x \in Nat /\ t.lastFace \in Nat /\ x >= t.lastFace
    BY <1>1 DEF LabelsOK
  <2> HIDE DEF x, A
  <2>2. f \in 0..x
    BY <2>1
  <2> QED BY <2>2 DEF x
<1>3. LabelsOK(B.t, D, S)
  <2> HIDE DEF A
  <2> QED BY <1>1, <1>2, AddFaceSplitLabels
<1>4. SplitNewFaces(t, succ, ln, k, f) = IF A.result = 0 THEN t ELSE w
  BY DEF SplitNewFaces
<1> HIDE DEF A, B
<1>5. DOMAIN Restrict(B.t.mbr, DOMAIN B.t.mbr \ {f}) \subseteq DOMAIN B.t.mbr
  BY DEF Restrict
<1> DEFINE r == Restrict(B.t.mbr, DOMAIN B.t.mbr \ {f})
<1> HIDE DEF r
<1>6. w = [left |-> B.t.left, contFace |-> B.t.contFace, mbr |-> r, lastFace |-> B.t.lastFace]
  BY <1>3 DEF LabelsOK, r
<1>7. LabelsOK(w, D, S)
  <2> HIDE DEF w
  <2> QED BY <1>3, <1>5, <1>6 DEF LabelsOK, r
<1> QED BY <1>4, <1>7

LEMMA OrRange ==
  ASSUME NEW F, NEW x \in F, NEW y \in F
  PROVE  Or(x, y) \in F
  BY DEF Or

LEMMA AddEdgeKeeps ==
  ASSUME TopoInv, NEW a \in nodes, NEW b \in nodes, NEW l \in Curves, NEW newFaces \in BOOLEAN,
         AddEdge(a, b, l, newFaces)
  PROVE  /\ \E p \in AdjacentPairs(a, b) : LinksAddEdge(a, b, p[1], p[2])
         /\ Tables' /\ LabelsTypeOK' /\ Drawn' /\ Clockwise' /\ IsolatedAlone'
<1> DEFINE k == lastEdge + 1
           s == Adjacencies(a, b, l, 0)[1]
           t == Adjacencies(a, b, l, 0)[2]
           f == SideFaces(a, b, s, t)[2]
           labels == [left |-> WithRow(WithRow(left, k, f), -k, f),
                      contFace |-> Connected(a, b),
                      mbr |-> mbr, lastFace |-> lastFace]
           M == SplitModFace(labels, next', line', k, f)
           W == SplitNewFaces(labels, next', line', k, f)
           S == {n \in nodes : EndsAt(n)' # {}}
<1>0. LinksTypeOK /\ LabelsTypeOK
  BY DEF TopoInv, LinksInv
<1>1. PICK split \in {labels, M, W} :
        /\ EndpointsMatch(a, b, l) /\ IsSimple(l) /\ NoCrossing(a, b, l, 0)
        /\ f # -1
        /\ LinksAddEdge(a, b, s, t)
        /\ line' = WithRow(line, k, l)
        /\ split.lastFace <= MaxFace
        /\ left' = split.left /\ contFace' = split.contFace /\ mbr' = split.mbr
        /\ lastFace' = split.lastFace
        /\ UNCHANGED pt
  <2> DEFINE open == a # b /\ (EndsAt(a) = {} \/ EndsAt(b) = {})
             split == CASE open -> labels [] newFaces /\ ~ open -> W [] OTHER -> M
  <2>1. split \in {labels, M, W}
    OBVIOUS
  <2>2. /\ EndpointsMatch(a, b, l) /\ IsSimple(l) /\ NoCrossing(a, b, l, 0)
        /\ f # -1
        /\ LinksAddEdge(a, b, s, t)
        /\ line' = WithRow(line, k, l)
        /\ split.lastFace <= MaxFace
        /\ left' = split.left /\ contFace' = split.contFace /\ mbr' = split.mbr
        /\ lastFace' = split.lastFace
        /\ UNCHANGED pt
    BY DEF AddEdge
  <2> HIDE DEF split
  <2> QED BY <2>1, <2>2
<1> HIDE DEF M, W, f, s, t, S
<1>2. Adding(k, a, b, l, s, t)
  BY <1>1, GeometryAssumption DEF Adding, s, t
<1> HIDE DEF k
<1>3. <<s, t>> \in AdjacentPairs(a, b) /\ LinksAddEdge(a, b, s, t)
  BY <1>1, <1>2, AddingRounds
<1>4. \E p \in AdjacentPairs(a, b) : LinksAddEdge(a, b, p[1], p[2])
  <2>1. LinksAddEdge(a, b, <<s, t>>[1], <<s, t>>[2])
    BY <1>3
  <2> QED BY <1>3, <2>1
<1>5. Clockwise'
  BY <1>2, AddingClockwise
<1>6. DrawnAlong(k, a, b, l, NextLeftOf(k, a, b, t), NextRightOf(k, a, b, s), Relinked(k, s, t))
  BY <1>2, AddingDraws
<1>7. Tables' /\ Drawn'
  BY <1>6, DrawnKeeps
<1>8. /\ k \notin Darts(edges) /\ -k \notin Darts(edges) /\ nodes' = nodes
      /\ Darts(edges)' = Darts(edges) \cup {k, -k}
  BY <1>6, DrawnDarts DEF DrawnAlong
<1>9. f \in 0..lastFace
  <2> DEFINE F == -1..lastFace
  <2>1. /\ lastFace \in Nat /\ -1 \in F /\ 0..lastFace \subseteq F
        /\ \A x \in F : x # -1 => x \in 0..lastFace
    BY <1>0 DEF LabelsTypeOK
  <2>2. contFace[a] \in F /\ contFace[b] \in F /\ \A d \in Darts(edges) : left[d] \in F
    BY <1>0, <2>1 DEF LabelsTypeOK
  <2>3. s.cw \in Darts(edges) \cup {0} /\ s.ccw \in Darts(edges) \cup {0}
    BY <1>2, AddingNeighbours DEF EndsAt
  <2>4. CwFace(s) \in F
    BY <2>1, <2>2, <2>3 DEF CwFace
  <2>5. CcwFace(s) \in F
    <3>1. s.ccw # 0 => -s.ccw \in Darts(edges)
      BY <1>0, <2>3, DartFacts
    <3> QED BY <2>1, <2>2, <3>1 DEF CcwFace
  <2> HIDE DEF F
  <2> DEFINE given == Or(contFace[a], contFace[b])
             leftOf == Or(given, CcwFace(s))
  <2>6. given \in F
    BY <2>2, OrRange
  <2> HIDE DEF given
  <2>7. leftOf \in F
    BY <2>5, <2>6, OrRange
  <2>8. f = IF EndsAt(b) = {} THEN leftOf ELSE Or(leftOf, CwFace(s))
    BY DEF f, SideFaces, given
  <2> HIDE DEF leftOf
  <2>9. f \in F
    BY <2>4, <2>7, <2>8, OrRange
  <2> QED BY <1>1, <2>1, <2>9
<1>10. Connected(a, b) \in [nodes -> -1..lastFace] /\ \A n \in nodes : Connected(a, b)[n] = -1 <=> n \in S
  <2>1. \A n \in nodes :
          EndsAt(n)' = EndsAt(n) \cup (IF n = a THEN {k} ELSE {}) \cup (IF n = b THEN {-k} ELSE {})
    BY <1>2, AddingTurns
  <2>2. \A n \in nodes : contFace[n] = -1 <=> EndsAt(n) # {}
    BY DEF TopoInv, IsolatedAlone
  <2>3. lastFace \in Nat /\ -1 \in -1..lastFace /\ contFace \in [nodes -> -1..lastFace]
    BY <1>0 DEF LabelsTypeOK
  <2>4. Connected(a, b) \in [nodes -> -1..lastFace]
    BY <2>3 DEF Connected
  <2>5. ASSUME NEW n \in nodes PROVE Connected(a, b)[n] = -1 <=> n \in S
    <3>1. Connected(a, b)[n] = IF n \in {a, b} /\ EndsAt(n) = {} THEN -1 ELSE contFace[n]
      BY DEF Connected
    <3>2. n \in S <=> EndsAt(n) # {} \/ n \in {a, b}
      BY <2>1 DEF S
    <3> QED BY <2>2, <3>1, <3>2
  <2> QED BY <2>4, <2>5
<1>11. LabelsOK(labels, Darts(edges)', S)
  <2>1. WithRow(WithRow(left, k, f), -k, f) \in [Darts(edges) \cup {k, -k} -> 0..lastFace]
    BY <1>0, <1>9, SidesAdded DEF LabelsTypeOK
  <2>2. lastFace \in Nat /\ DOMAIN mbr \subseteq 1..lastFace
    BY <1>0 DEF LabelsTypeOK
  <2> QED BY <1>8, <1>10, <2>1, <2>2 DEF LabelsOK
<1>12. labels.lastFace = lastFace
  OBVIOUS
<1> HIDE DEF labels
<1>13. LabelsOK(split, Darts(edges)', S)
  <2>1. LabelsOK(M, Darts(edges)', S)
    BY <1>9, <1>11, <1>12, SplitModFaceLabels DEF M
  <2>2. LabelsOK(W, Darts(edges)', S)
    BY <1>9, <1>11, <1>12, SplitNewFacesLabels DEF W
  <2> QED BY <1>11, <2>1, <2>2
<1>14. LabelsTypeOK'
  BY <1>1, <1>8, <1>13, GeometryAssumption DEF LabelsOK, LabelsTypeOK
<1>15. IsolatedAlone'
  BY <1>1, <1>8, <1>13 DEF LabelsOK, IsolatedAlone, S
<1> QED BY <1>4, <1>5, <1>7, <1>14, <1>15

-----------------------------------------------------------------------------
(* Removing edges *)

\* Edge e is gone, and the other edges are where they were.
Erased(e) ==
  /\ edges' = edges \ {e}
  /\ org' = [d \in Darts(edges \ {e}) |-> org[d]]
  /\ DOMAIN next' = Darts(edges \ {e})
  /\ line' = [c \in edges \ {e} |-> line[c]]
  /\ UNCHANGED <<nodes, pt>>

\* Without an edge the drawing is as planar as it was.
LEMMA ErasedKeeps ==
  ASSUME TopoInv, NEW e \in edges, Erased(e)
  PROVE  /\ Tables' /\ Drawn'
         /\ Darts(edges)' = Darts(edges) \ {e, -e}
         /\ \A d \in Darts(edges) \ {e, -e} : Departs'[d] = Departs[d] /\ Turned'[d] = next'[-d]
         /\ \A n : EndsAt(n)' = EndsAt(n) \ {e, -e}
<1>0. LinksTypeOK
  BY DEF TopoInv, LinksInv
<1>1. Darts(edges \ {e}) = Darts(edges) \ {e, -e}
  BY <1>0, KeptDarts
<1>2. Darts(edges)' = Darts(edges) \ {e, -e}
  BY <1>1 DEF Erased, Darts
<1>3. \A n : EndsAt(n)' = EndsAt(n) \ {e, -e}
  BY <1>1, <1>2 DEF Erased, EndsAt
<1>4. Tables'
  BY DEF Erased, Tables, TopoInv
<1>5. \A c \in edges' : /\ c \in edges /\ line'[c] = line[c]
                        /\ org'[c] = org[c] /\ org'[-c] = org[-c]
  <2> SUFFICES ASSUME NEW c \in edges' PROVE org'[c] = org[c] /\ org'[-c] = org[-c]
    BY DEF Erased
  <2>1. c \in edges /\ c # e /\ -c # e /\ c # -e /\ -c # -e /\ c \in Darts(edges) /\ -c \in Darts(edges)
    <3>1. c \in edges /\ c # e
      BY DEF Erased
    <3>2. c \in Nat /\ e \in Nat /\ c > 0 /\ e > 0 /\ c \in Darts(edges) /\ -c \in Darts(edges)
      BY <1>0, <3>1, DartFacts
    <3> QED BY <3>1, <3>2
  <2> QED BY <1>1, <2>1 DEF Erased
<1>6. Drawn'
  <2>1. nodes' = nodes /\ pt' = pt
    BY DEF Erased
  <2> QED BY <1>5, <2>1 DEF TopoInv, Drawn
<1>7. ASSUME NEW d \in Darts(edges) \ {e, -e} PROVE Departs'[d] = Departs[d] /\ Turned'[d] = next'[-d]
  <2>1. (d > 0 => d \in edges /\ d # e) /\ (~ (d > 0) => -d \in edges /\ -d # e)
    BY <1>0, DartFacts
  <2>2. Path(line', d) = Path(line, d)
    BY <2>1 DEF Path, Erased
  <2> QED BY <1>2, <2>2 DEF Departs, Turned
<1> QED BY <1>2, <1>3, <1>4, <1>6, <1>7

\* Without both ends of a closed edge, x and y, T leads past them.
LEMMA TurnsWithout ==
  ASSUME NEW E, NEW D, Spread(E, D), NEW T, Turns(E, D, T), NEW x \in E, NEW y \in E, x # y,
         \A c, d \in E : T[c] = T[d] => c = d,
         NEW U, \A c \in E \ {x, y} :
                  U[c] = IF T[c] = y THEN IF T[y] # x THEN T[y] ELSE T[x]
                         ELSE IF T[c] = x THEN IF T[x] # y THEN T[x] ELSE T[y]
                         ELSE T[c]
  PROVE  Turns(E \ {x, y}, D, U)
<1>1. CASE E = {x, y}
  BY <1>1 DEF Turns
<1>2. CASE E # {x, y}
  <2> DEFINE V == [c \in E |-> IF T[c] = x THEN T[x] ELSE T[c]]
  <2>1. E # {x} /\ \A c \in E \ {x} : V[c] = IF T[c] = x THEN T[x] ELSE T[c]
    OBVIOUS
  <2> HIDE DEF V
  <2>2. Turns(E \ {x}, D, V)
    BY <2>1, TurnsRemoved
  <2>3. Spread(E \ {x}, D) /\ y \in E \ {x} /\ E \ {x} # {y}
    BY <1>2, SpreadPart
  <2>4. \A c \in (E \ {x}) \ {y} : U[c] = IF V[c] = y THEN V[y] ELSE V[c]
    <3> SUFFICES ASSUME NEW c \in E \ {x, y} PROVE U[c] = IF V[c] = y THEN V[y] ELSE V[c]
      OBVIOUS
    <3>1. /\ V[c] = IF T[c] = x THEN T[x] ELSE T[c]
          /\ V[y] = IF T[y] = x THEN T[x] ELSE T[y]
          /\ T[c] # T[y] /\ T[c] # T[x]
      BY <2>1
    <3> QED BY <3>1
  <2>5. Turns((E \ {x}) \ {y}, D, U)
    BY <2>2, <2>3, <2>4, TurnsRemoved
  <2>6. (E \ {x}) \ {y} = E \ {x, y}
    OBVIOUS
  <2> QED BY <2>5, <2>6
<1> QED BY <1>1, <1>2

\* RemEdge takes the ends of the edge out of the rounds.
LEMMA RemEdgeClockwise ==
  ASSUME TopoInv, NEW e \in edges, LinksRemEdge(e), Erased(e)
  PROVE  Clockwise'
<1> SUFFICES ASSUME NEW n \in nodes PROVE Turns(EndsAt(n)', Departs', Turned')
  BY DEF Clockwise, Erased
<1> DEFINE E == EndsAt(n)
           D == Departs
           T == Turned
           U == Turned'
<1>0. LinksInv /\ LinksTypeOK /\ Tables /\ Drawn
  BY DEF TopoInv, LinksInv
<1>1. /\ EndsAt(n)' = E \ {e, -e}
      /\ \A c \in E \ {e, -e} : Departs'[c] = D[c] /\ U[c] = next'[-c]
  BY ErasedKeeps DEF EndsAt
<1>2. \A c \in E : c \in Darts(edges) /\ -c \in Darts(edges) /\ T[c] = next[-c] /\ -(-c) = c /\ org[c] = n
  BY <1>0, EndsFacts DEF Turned
<1>3. e \in Darts(edges) /\ -e \in Darts(edges) /\ e # -e /\ -(-e) = e
  BY <1>0, DartFacts
<1>4. Spread(E, D) /\ Turns(E, D, T)
  BY <1>0, EndsSpread DEF TopoInv, Clockwise
<1>5. \A c, d \in E : T[c] = T[d] => c = d
  <2> SUFFICES ASSUME NEW c \in E, NEW d \in E, T[c] = T[d] PROVE c = d
    OBVIOUS
  <2>1. -c = -d
    BY <1>0, <1>2, LinkFacts
  <2> QED BY <1>2, <2>1
<1>6. T[e] = next[-e] /\ T[-e] = next[e]
  BY <1>3 DEF Turned
<1>7. ASSUME NEW c \in E \ {e, -e}
      PROVE  U[c] = IF T[c] = -e THEN IF T[-e] # e THEN T[-e] ELSE T[e]
                    ELSE IF T[c] = e THEN IF T[e] # -e THEN T[e] ELSE T[-e]
                    ELSE T[c]
  <2>1. -c \in Darts(edges) \ {e, -e}
    BY <1>2, <1>3
  <2>2. next'[-c] = Bypass(e, -c)
    BY <1>0, <2>1, RemEdgeNext
  <2>3. next[-c] = T[c]
    BY <1>2
  <2> QED BY <1>1, <1>3, <1>6, <2>2, <2>3 DEF Bypass
<1>8. \A c \in E : T[c] \in E
  <2> SUFFICES ASSUME NEW c \in E PROVE T[c] \in E
    OBVIOUS
  <2>1. org[next[-c]] = org[-(-c)] /\ next[-c] \in Darts(edges)
    BY <1>0, <1>2, LinkFacts
  <2> QED BY <1>2, <2>1 DEF EndsAt
<1>9. Turns(E \ {e, -e}, D, U)
  <2> HIDE DEF E, D, T, U
  <2>1. CASE e \in E /\ -e \in E
    <3>1. \A c \in E \ {e, -e} :
            U[c] = IF T[c] = -e THEN IF T[-e] # e THEN T[-e] ELSE T[e]
                   ELSE IF T[c] = e THEN IF T[e] # -e THEN T[e] ELSE T[-e]
                   ELSE T[c]
      BY <1>7
    <3> QED BY <1>3, <1>4, <1>5, <2>1, <3>1, TurnsWithout
  <2>2. ASSUME NEW x \in {e, -e}, x \in E, -x \notin E
        PROVE  Turns(E \ {e, -e}, D, U)
    <3>1. E \ {e, -e} = E \ {x}
      BY <1>3, <2>2
    <3>2. \A c \in E \ {x} : U[c] = IF T[c] = x THEN T[x] ELSE T[c]
      <4> SUFFICES ASSUME NEW c \in E \ {x} PROVE U[c] = IF T[c] = x THEN T[x] ELSE T[c]
        OBVIOUS
      <4>1. T[c] # -x /\ T[x] # -x
        BY <1>8, <2>2
      <4> QED BY <1>3, <1>7, <2>2, <3>1, <4>1
    <3>3. CASE E = {x}
      BY <3>1, <3>3 DEF Turns
    <3>4. CASE E # {x}
      BY <1>4, <2>2, <3>1, <3>2, <3>4, TurnsRemoved
    <3> QED BY <3>3, <3>4
  <2>3. CASE e \notin E /\ -e \notin E
    <3>1. E \ {e, -e} = E /\ \A c \in E : U[c] = T[c]
      BY <1>7, <1>8, <2>3
    <3> QED BY <1>4, <3>1 DEF Turns
  <2> QED BY <1>3, <2>1, <2>2, <2>3
<1>10. \A c \in E \ {e, -e} : Departs'[c] = D[c]
  BY <1>1
<1> HIDE DEF E, D, T, U
<1>11. Spread(E \ {e, -e}, D)
  BY <1>4, SpreadPart
<1>12. Turns(E \ {e, -e}, Departs', U)
  BY <1>9, <1>10, <1>11, SpreadSame
<1> QED BY <1>1, <1>12 DEF U

\* RemEdgeLabels with a face flood for the two that become one.
LEMMA RemEdgeLabelsKeep ==
  ASSUME TopoInv, NEW e \in edges, Erased(e), NEW flood, RemEdgeLabels(e, flood),
         lastFace' \in 0..MaxFace, lastFace' >= lastFace, flood \in 0..lastFace',
         DOMAIN mbr' \subseteq 1..lastFace'
  PROVE  LabelsTypeOK' /\ IsolatedAlone'
<1> DEFINE gone == {left[e], left[-e]}
           heal(f) == IF Cardinality(gone) = 2 /\ f \in gone THEN flood ELSE f
           lonely(n) == EndsAt(n) \subseteq {e, -e}
<1>0. LinksTypeOK /\ LabelsTypeOK
  BY DEF TopoInv, LinksInv
<1>1. e \in Darts(edges) /\ -e \in Darts(edges) /\ Darts(edges \ {e}) = Darts(edges) \ {e, -e}
  BY <1>0, DartFacts, KeptDarts
<1>2. /\ left' = [d \in Darts(edges) \ {e, -e} |-> heal(left[d])]
      /\ contFace' = [n \in nodes |-> IF n \notin nodes \ {org[e], org[-e]} /\ lonely(n) THEN flood
                                      ELSE heal(contFace[n])]
  BY <1>1 DEF RemEdgeLabels
<1>3. /\ lastFace \in Nat /\ lastFace' \in Nat /\ flood # -1
      /\ \A f : f \in 0..lastFace => f \in 0..lastFace' /\ f # -1
      /\ \A f : f \in -1..lastFace => f \in -1..lastFace'
      /\ flood \in -1..lastFace'
  BY <1>0 DEF LabelsTypeOK
<1>4. gone \subseteq 0..lastFace /\ \A d \in Darts(edges) : left[d] \in 0..lastFace
  BY <1>0, <1>1 DEF LabelsTypeOK
<1>5. \A f \in -1..lastFace : heal(f) \in -1..lastFace' /\ (heal(f) = -1 <=> f = -1)
  BY <1>3, <1>4
<1>6. \A f \in 0..lastFace : heal(f) \in 0..lastFace'
  BY <1>3
<1> HIDE DEF gone, heal
<1>7. Darts(edges)' = Darts(edges) \ {e, -e} /\ nodes' = nodes /\ \A n : EndsAt(n)' = EndsAt(n) \ {e, -e}
  BY ErasedKeeps DEF Erased
<1>8. left' \in [Darts(edges)' -> 0..lastFace']
  BY <1>2, <1>4, <1>6, <1>7
<1>9. \A n \in nodes : contFace[n] \in -1..lastFace
  BY <1>0 DEF LabelsTypeOK
<1>10. contFace' \in [nodes -> -1..lastFace']
  BY <1>2, <1>3, <1>5, <1>9
<1>11. ASSUME NEW n \in nodes PROVE contFace'[n] = -1 <=> EndsAt(n)' # {}
  <2>1. contFace[n] = -1 <=> EndsAt(n) # {}
    BY DEF TopoInv, IsolatedAlone
  <2>2. heal(contFace[n]) = -1 <=> contFace[n] = -1
    BY <1>5, <1>9
  <2>3. EndsAt(n)' = {} <=> lonely(n)
    BY <1>7
  <2>4. CASE n \in {org[e], org[-e]}
    <3>1. EndsAt(n) # {}
      BY <1>1, <2>4 DEF EndsAt
    <3>2. contFace'[n] = IF lonely(n) THEN flood ELSE heal(contFace[n])
      BY <1>2, <2>4
    <3> QED BY <1>3, <2>1, <2>2, <2>3, <3>1, <3>2
  <2>5. CASE n \notin {org[e], org[-e]}
    <3>1. EndsAt(n)' = EndsAt(n)
      BY <1>7, <2>5 DEF EndsAt
    <3>2. contFace'[n] = heal(contFace[n])
      BY <1>2, <2>5
    <3> QED BY <2>1, <2>2, <3>1, <3>2
  <2> QED BY <2>4, <2>5
<1> QED BY <1>7, <1>8, <1>10, <1>11 DEF LabelsTypeOK, IsolatedAlone

LEMMA RemEdgeKeeps ==
  ASSUME TopoInv, NEW e \in edges, NEW newFaces \in BOOLEAN, RemEdge(e, newFaces)
  PROVE  /\ LinksRemEdge(e)
         /\ Tables' /\ LabelsTypeOK' /\ Drawn' /\ Clockwise' /\ IsolatedAlone'
<1> DEFINE gone == {left[e], left[-e]}
           union == BoxUnion(mbr[left[e]], mbr[left[-e]])
           kept == Restrict(mbr, DOMAIN mbr \ gone)
<1>0. LinksTypeOK /\ LabelsTypeOK
  BY DEF TopoInv, LinksInv
<1>1. LinksRemEdge(e)
  BY DEF RemEdge
<1>2. Erased(e)
  <2>1. line' = Restrict(line, edges') /\ edges' = edges \ {e}
    BY DEF RemEdge, LinksRemEdge
  <2>2. line' = [c \in edges \ {e} |-> line[c]]
    <3>1. line \in [edges -> Polylines] /\ edges \ {e} \subseteq edges
      BY DEF TopoInv, Tables
    <3> QED BY <2>1, <3>1, RowsKept
  <2> QED BY <2>2 DEF Erased, RemEdge, LinksRemEdge
<1>3. Tables' /\ Drawn' /\ Clockwise'
  BY <1>1, <1>2, ErasedKeeps, RemEdgeClockwise
<1>4. /\ lastFace \in Nat /\ lastFace \in 0..MaxFace /\ MaxFace \in Nat /\ DOMAIN mbr \subseteq 1..lastFace
      /\ left[e] \in 0..lastFace /\ left[-e] \in 0..lastFace
  BY <1>0, DartFacts, GeometryAssumption DEF LabelsTypeOK
<1>5. DOMAIN kept \subseteq DOMAIN mbr
  BY DEF Restrict
<1> HIDE DEF kept, union
<1>6. \A f : DOMAIN WithRow(kept, f, union) = DOMAIN kept \cup {f}
  BY DEF WithRow
<1>7. LabelsTypeOK' /\ IsolatedAlone'
  <2>1. \/ /\ RemEdgeLabels(e, left[e]) /\ UNCHANGED <<mbr, lastFace>>
        \/ /\ RemEdgeLabels(e, 0) /\ mbr' = kept /\ UNCHANGED lastFace
        \/ /\ 0 \notin gone
           /\ RemEdgeLabels(e, left[-e])
           /\ mbr' = WithRow(kept, left[-e], union) /\ UNCHANGED lastFace
        \/ /\ lastFace < MaxFace /\ lastFace' = lastFace + 1
           /\ RemEdgeLabels(e, lastFace')
           /\ mbr' = WithRow(kept, lastFace', union)
    BY DEF RemEdge, kept, union
  <2>2. CASE RemEdgeLabels(e, left[e]) /\ UNCHANGED <<mbr, lastFace>>
    BY <1>2, <1>4, <2>2, RemEdgeLabelsKeep
  <2>3. CASE RemEdgeLabels(e, 0) /\ mbr' = kept /\ UNCHANGED lastFace
    <3>1. DOMAIN mbr' \subseteq 1..lastFace' /\ 0 \in 0..lastFace' /\ lastFace' >= lastFace
          /\ lastFace' \in 0..MaxFace
      BY <1>4, <1>5, <2>3
    <3> QED BY <1>2, <2>3, <3>1, RemEdgeLabelsKeep
  <2>4. CASE /\ 0 \notin gone
             /\ RemEdgeLabels(e, left[-e])
             /\ mbr' = WithRow(kept, left[-e], union) /\ UNCHANGED lastFace
    <3>1. left[-e] \in 1..lastFace
      BY <1>4, <2>4
    <3>2. lastFace' >= lastFace /\ lastFace' \in 0..MaxFace /\ left[-e] \in 0..lastFace'
      BY <1>4, <2>4
    <3>3. DOMAIN mbr' = DOMAIN kept \cup {left[-e]}
      BY <1>6, <2>4
    <3>4. DOMAIN mbr' \subseteq 1..lastFace'
      BY <1>4, <1>5, <2>4, <3>1, <3>3
    <3> QED BY <1>2, <2>4, <3>2, <3>4, RemEdgeLabelsKeep
  <2>5. CASE /\ lastFace < MaxFace /\ lastFace' = lastFace + 1
             /\ RemEdgeLabels(e, lastFace')
             /\ mbr' = WithRow(kept, lastFace', union)
    <3>1. lastFace' \in 0..MaxFace /\ lastFace' >= lastFace /\ lastFace' \in 0..lastFace'
          /\ lastFace' \in 1..lastFace' /\ 1..lastFace \subseteq 1..lastFace'
      BY <1>4, <2>5
    <3>2. DOMAIN mbr' \subseteq 1..lastFace'
      <4>1. DOMAIN mbr' = DOMAIN kept \cup {lastFace'}
        BY <1>6, <2>5
      <4> QED BY <1>4, <1>5, <3>1, <4>1
    <3> QED BY <1>2, <2>5, <3>1, <3>2, RemEdgeLabelsKeep
  <2> QED BY <2>1, <2>2, <2>3, <2>4, <2>5
<1> QED BY <1>1, <1>3, <1>7

LEMMA RemIsoEdgeKeeps ==
  ASSUME TopoInv, NEW e \in edges, RemIsoEdge(e)
  PROVE  /\ LinksRemIsoEdge(e) \/ LinksRemEdge(e)
         /\ Tables' /\ LabelsTypeOK' /\ Drawn' /\ Clockwise' /\ IsolatedAlone'
<1> DEFINE K == Darts(edges) \ {e, -e}
<1>0. LinksTypeOK /\ LabelsTypeOK /\ LinksInv
  BY DEF TopoInv, LinksInv
<1>1. /\ e \in Darts(edges) /\ -e \in Darts(edges) /\ Darts(edges \ {e}) = K
      /\ org[e] \in nodes /\ org[-e] \in nodes
  BY <1>0, DartFacts, KeptDarts DEF LinksTypeOK
<1>2. /\ edges' = edges \ {e}
      /\ org' = Restrict(org, K) /\ next' = Restrict(next, K)
      /\ line' = Restrict(line, edges \ {e}) /\ left' = Restrict(left, K)
      /\ contFace' = [contFace EXCEPT ![org[e]] = left[e], ![org[-e]] = left[e]]
      /\ EndsAt(org[e]) \cup EndsAt(org[-e]) = {e, -e}
      /\ UNCHANGED <<nodes, lastNode, lastEdge, pt, mbr, lastFace>>
  BY <1>1 DEF RemIsoEdge
<1>3. /\ org' = [d \in K |-> org[d]] /\ next' = [d \in K |-> next[d]]
      /\ line' = [c \in edges \ {e} |-> line[c]]
      /\ left' \in [K -> 0..lastFace]
  <2>1. K \subseteq Darts(edges) /\ edges \ {e} \subseteq edges
    OBVIOUS
  <2>2. /\ org \in [Darts(edges) -> nodes] /\ next \in [Darts(edges) -> Darts(edges)]
        /\ line \in [edges -> Polylines] /\ left \in [Darts(edges) -> 0..lastFace]
    BY <1>0 DEF TopoInv, Tables, LinksTypeOK, LabelsTypeOK
  <2> HIDE DEF K
  <2>3. org' = [d \in K |-> org[d]]
    BY <1>2 DEF Restrict
  <2>4. next' = [d \in K |-> next[d]]
    BY <1>2 DEF Restrict
  <2>5. line' = [c \in edges \ {e} |-> line[c]]
    BY <1>2 DEF Restrict
  <2>6. left' \in [K -> 0..lastFace]
    BY <1>2, <2>1, <2>2, RowsKept
  <2> QED BY <2>3, <2>4, <2>5, <2>6
<1>4. Erased(e)
  BY <1>1, <1>2, <1>3 DEF Erased
<1>5. /\ Tables' /\ Drawn' /\ Darts(edges)' = K
      /\ \A d \in K : Departs'[d] = Departs[d] /\ Turned'[d] = next'[-d]
      /\ \A n : EndsAt(n)' = EndsAt(n) \ {e, -e}
  BY <1>4, ErasedKeeps
<1>6. \A d \in K : org[d] \notin {org[e], org[-e]}
  BY <1>2 DEF EndsAt
<1>7. LinksRemIsoEdge(e) \/ LinksRemEdge(e)
  <2>1. CASE org[e] # org[-e]
    <3>1. EndsAt(org[e]) = {e} /\ EndsAt(org[-e]) = {-e}
      BY <1>1, <1>2, <2>1 DEF EndsAt
    <3> QED BY <1>1, <1>2, <1>3, <2>1, <3>1 DEF LinksRemIsoEdge
  <2>2. CASE org[e] = org[-e]
    <3>1. \A d \in K : {org[d], org[-d]} \cap {org[e], org[-e]} = {}
      <4> SUFFICES ASSUME NEW d \in K PROVE org[d] \notin {org[e], org[-e]} /\ org[-d] \notin {org[e], org[-e]}
        OBVIOUS
      <4>1. -d \in K
        BY <1>0, <1>1, DartFacts
      <4> QED BY <1>6, <4>1
    <3>2. next' = [d \in K |-> IF {org[d], org[-d]} \cap {org[e], org[-e]} = {} THEN next[d]
                               ELSE Bypass(e, d)]
      <4> HIDE DEF K
      <4> QED BY <1>3, <3>1
    <3> QED BY <1>1, <1>2, <1>3, <3>2 DEF LinksRemEdge
  <2> QED BY <2>1, <2>2
<1>8. Clockwise'
  <2> SUFFICES ASSUME NEW n \in nodes PROVE Turns(EndsAt(n)', Departs', Turned')
    BY <1>2 DEF Clockwise
  <2>1. CASE n \in {org[e], org[-e]}
    <3>1. EndsAt(n)' = {}
      BY <1>2, <1>5, <2>1
    <3> QED BY <3>1 DEF Turns
  <2>2. CASE n \notin {org[e], org[-e]}
    <3>1. EndsAt(n)' = EndsAt(n) /\ EndsAt(n) \subseteq K
      BY <1>5, <2>2 DEF EndsAt
    <3>2. ASSUME NEW c \in EndsAt(n) PROVE Departs'[c] = Departs[c] /\ Turned'[c] = Turned[c]
      <4>1. c \in K /\ -c \in K /\ c \in Darts(edges)
        BY <1>0, <1>1, <3>1, DartFacts
      <4> QED BY <1>3, <1>5, <4>1 DEF Turned
    <3>3. Spread(EndsAt(n), Departs) /\ Turns(EndsAt(n), Departs, Turned)
      BY <1>0, EndsSpread DEF TopoInv, Clockwise
    <3>4. Turns(EndsAt(n), Departs', Turned)
      BY <3>2, <3>3, SpreadSame
    <3>5. \A c \in EndsAt(n) : Turned'[c] = Turned[c]
      BY <3>2
    <3> QED BY <3>1, <3>4, <3>5 DEF Turns
  <2> QED BY <2>1, <2>2
<1>9. /\ lastFace \in Nat /\ left[e] \in 0..lastFace /\ left[e] # -1 /\ left[e] \in -1..lastFace
  BY <1>0, <1>1 DEF LabelsTypeOK
<1>10. LabelsTypeOK'
  <2>1. contFace' \in [nodes -> -1..lastFace]
    BY <1>0, <1>2, <1>9 DEF LabelsTypeOK
  <2> QED BY <1>0, <1>2, <1>3, <1>5, <2>1 DEF LabelsTypeOK
<1>11. IsolatedAlone'
  <2> SUFFICES ASSUME NEW n \in nodes PROVE contFace'[n] = -1 <=> EndsAt(n)' # {}
    BY <1>2 DEF IsolatedAlone
  <2>1. contFace'[n] = IF n \in {org[e], org[-e]} THEN left[e] ELSE contFace[n]
    BY <1>0, <1>1, <1>2 DEF LabelsTypeOK
  <2>2. contFace[n] = -1 <=> EndsAt(n) # {}
    BY DEF TopoInv, IsolatedAlone
  <2>3. n \in {org[e], org[-e]} => EndsAt(n)' = {}
    BY <1>2, <1>5
  <2>4. n \notin {org[e], org[-e]} => EndsAt(n)' = EndsAt(n)
    BY <1>5 DEF EndsAt
  <2> QED BY <1>9, <2>1, <2>2, <2>3, <2>4
<1> QED BY <1>5, <1>7, <1>8, <1>10, <1>11

-----------------------------------------------------------------------------
(* Splitting edges *)

\* Edge e became m, up to the new node n at p, and k.
SplitDone(e, m, k, n, p) ==
  LET O == Darts(edges) \ {e, -e}
      D == O \cup {m, -m, k, -k}
  IN  /\ m \in Nat /\ k \in Nat /\ m > 0 /\ k > 0
      /\ {m, -m, k, -k} \cap O = {}
      /\ m # -m /\ k # -k /\ m # k /\ m # -k /\ -m # k /\ -m # -k /\ -(-m) = m /\ -(-k) = k
      /\ n \notin nodes /\ nodes' = nodes \cup {n}
      /\ edges' = (edges \ {e}) \cup {m, k} /\ Darts(edges)' = D
      /\ org' = [d \in D |-> org'[d]]
      /\ org'[m] = org[e] /\ org'[-m] = n /\ org'[k] = n /\ org'[-k] = org[-e]
      /\ \A d \in O : org'[d] = org[d]
      /\ next'[-m] = SplitRef(e, m, k, next[-e]) /\ next'[k] = SplitRef(e, m, k, next[e])
      /\ next'[m] = k /\ next'[-k] = -m
      /\ \A d \in O : next'[d] = SplitRef(e, m, k, next[d])
      /\ SplitsAt(e, p) /\ SplitLabels(e, m, k, p) /\ lastNode' = n
      /\ p \in Plane

LEMMA ModEdgeSplitDone ==
  ASSUME TopoInv, NEW e \in edges, NEW p \in Points, ModEdgeSplit(e, p)
  PROVE  SplitDone(e, e, lastEdge + 1, lastNode + 1, p)
<1> DEFINE k == lastEdge + 1
           n == lastNode + 1
           O == Darts(edges) \ {e, -e}
           D == Darts(edges) \cup {k, -k}
<1>0. LinksInv /\ LinksTypeOK
  BY DEF TopoInv, LinksInv
<1>1. EdgeSplit(e, k, n, D)
  BY <1>0, ModEdgeSplitEffect DEF ModEdgeSplit
<1>2. /\ e \in Nat /\ e > 0 /\ e \in Darts(edges) /\ -e \in Darts(edges) /\ e # -e /\ -(-e) = e
  BY <1>0, DartFacts
<1> HIDE DEF k, n
<1>3. /\ k \in Nat /\ n \notin nodes /\ k \notin Darts(edges) /\ -k \notin Darts(edges)
      /\ k # -k /\ -(-k) = k /\ k > lastEdge
      /\ lastNode' = n /\ nodes' = nodes \cup {n} /\ edges' = edges \cup {k} /\ Darts(edges') = D
      /\ org' = [d \in D |-> IF d = k \/ d = -e THEN n
                             ELSE IF d = -k THEN org[-e] ELSE org[d]]
      /\ next' = [d \in D |-> IF d = k THEN IF next[e] = -e THEN -k ELSE next[e]
                              ELSE IF d = -k THEN -e
                              ELSE IF d = e THEN k
                              ELSE IF next[d] = -e THEN -k ELSE next[d]]
  BY <1>1 DEF EdgeSplit
<1>4. O \cup {e, -e, k, -k} = D
  BY <1>2
<1>5. k > 0
  BY <1>0, <1>3 DEF LinksTypeOK
<1>6. \A d : SplitRef(e, e, k, d) = IF d = -e THEN -k ELSE d
  BY <1>2 DEF SplitRef
<1>7. (edges \ {e}) \cup {e, k} = edges \cup {k}
  OBVIOUS
<1>8. SplitsAt(e, p) /\ SplitLabels(e, e, k, p) /\ p \in Plane
  BY GeometryAssumption DEF ModEdgeSplit, k
<1>9. Darts(edges)' = D
  BY <1>3 DEF Darts
<1>10. /\ org'[e] = org[e] /\ org'[-e] = n /\ org'[k] = n /\ org'[-k] = org[-e]
       /\ \A d \in O : org'[d] = org[d]
       /\ org' = [d \in D |-> org'[d]]
  BY <1>2, <1>3
<1>11. /\ next'[-e] = SplitRef(e, e, k, next[-e]) /\ next'[k] = SplitRef(e, e, k, next[e])
       /\ next'[e] = k /\ next'[-k] = -e
       /\ \A d \in O : next'[d] = SplitRef(e, e, k, next[d])
  BY <1>2, <1>3, <1>6
<1>12. {e, -e, k, -k} \cap O = {} /\ e # k /\ e # -k /\ -e # k /\ -e # -k
  BY <1>2, <1>3
<1> HIDE DEF D, O
<1>13. SplitDone(e, e, k, n, p)
  BY <1>2, <1>3, <1>4, <1>5, <1>7, <1>8, <1>9, <1>10, <1>11, <1>12 DEF SplitDone, O, D
<1> QED BY <1>13 DEF k, n

LEMMA NewEdgesSplitDone ==
  ASSUME TopoInv, NEW e \in edges, NEW p \in Points, NoRightReference(e), NewEdgesSplit(e, p)
  PROVE  SplitDone(e, lastEdge + 1, lastEdge + 2, lastNode + 1, p)
<1> DEFINE m == lastEdge + 1
           k == lastEdge + 2
           n == lastNode + 1
           O == Darts(edges) \ {e, -e}
           D == O \cup {m, -m, k, -k}
<1>0. LinksInv /\ LinksTypeOK
  BY DEF TopoInv, LinksInv
<1>1. EdgeReplaced(e, m, k, n, D)
  BY <1>0, NewEdgesSplitEffect DEF NewEdgesSplit
<1>2. e \in Darts(edges) /\ -e \in Darts(edges) /\ lastEdge \in Nat
  BY <1>0, DartFacts DEF LinksTypeOK
<1>3. SplitsAt(e, p) /\ SplitLabels(e, m, k, p) /\ p \in Plane
  BY GeometryAssumption DEF NewEdgesSplit
<1> HIDE DEF m, k, n
<1>4. m \in Nat /\ k \in Nat /\ m > 0 /\ k > 0 /\ -m # k /\ -m # -k
  BY <1>1, <1>2 DEF EdgeReplaced
<1>5. {m, -m, k, -k} \cap O = {} /\ m # -m /\ k # -k /\ m # k /\ m # -k /\ -(-m) = m /\ -(-k) = k
  BY <1>1 DEF EdgeReplaced
<1>6. /\ n \notin nodes /\ nodes' = nodes \cup {n} /\ lastNode' = n
      /\ edges' = (edges \ {e}) \cup {m, k} /\ Darts(edges') = D
      /\ org' = [d \in D |-> IF d = m THEN org[e]
                             ELSE IF d = -m \/ d = k THEN n
                             ELSE IF d = -k THEN org[-e] ELSE org[d]]
      /\ \A d \in D : next'[d] = IF d = m THEN k
                                 ELSE IF d = -m THEN SplitRef(e, m, k, next[-e])
                                 ELSE IF d = k THEN SplitRef(e, m, k, next[e])
                                 ELSE IF d = -k THEN -m
                                 ELSE SplitRef(e, m, k, next[d])
  BY <1>1 DEF EdgeReplaced
<1>7. Darts(edges)' = D
  BY <1>6 DEF Darts
<1>8. /\ org'[m] = org[e] /\ org'[-m] = n /\ org'[k] = n /\ org'[-k] = org[-e]
      /\ \A d \in O : org'[d] = org[d]
      /\ org' = [d \in D |-> org'[d]]
  BY <1>4, <1>5, <1>6
<1>9. /\ next'[-m] = SplitRef(e, m, k, next[-e]) /\ next'[k] = SplitRef(e, m, k, next[e])
      /\ next'[m] = k /\ next'[-k] = -m
      /\ \A d \in O : next'[d] = SplitRef(e, m, k, next[d])
  BY <1>4, <1>5, <1>6
<1> HIDE DEF D, O
<1>10. SplitDone(e, m, k, n, p)
  BY <1>3, <1>4, <1>5, <1>6, <1>7, <1>8, <1>9 DEF SplitDone, O, D
<1> QED BY <1>10 DEF m, k, n

\* The lines of the two parts.
LEMMA SplitLines ==
  ASSUME TopoInv, NEW e \in edges, NEW m, NEW k, NEW n, NEW p, SplitDone(e, m, k, n, p)
  PROVE  /\ line[e] \in Polylines /\ Simple(line[e]) /\ Cuts(line[e], p)
         /\ line' = [c \in edges' |-> line'[c]]
         /\ line'[m] = HeadTo(line[e], p) /\ line'[k] = TailFrom(line[e], p)
         /\ line'[m] \in Polylines /\ line'[k] \in Polylines
         /\ edges' = (edges \ {e}) \cup {m, k}
         /\ \A c \in edges \ {e} : c \notin {m, k} /\ line'[c] = line[c] /\ line[c] \in Polylines
         /\ pt' = WithRow(pt, n, p) /\ pt'[n] = p /\ p \in Plane
         /\ \A q \in nodes : pt'[q] = pt[q] /\ pt[q] \in Plane /\ pt[q] # p
<1>0. LinksTypeOK
  BY DEF TopoInv, LinksInv
<1>1. line[e] \in Polylines /\ Simple(line[e])
  BY DEF TopoInv, Tables, Drawn
<1>2. Cuts(line[e], p)
  BY DEF SplitDone, SplitsAt, Cuts
<1>3. HeadTo(line[e], p) \in Polylines /\ TailFrom(line[e], p) \in Polylines
  BY <1>1, <1>2, HeadSimple, TailSimple
<1>4. \A c \in edges \ {e} : c \in Darts(edges) /\ c \notin {e, -e}
  BY <1>0, DartFacts
<1>5. edges' = (edges \ {e}) \cup {m, k} /\ m # k /\ {m, -m, k, -k} \cap (Darts(edges) \ {e, -e}) = {}
  BY DEF SplitDone
<1>6. \A c \in edges \ {e} : c \notin {m, k}
  BY <1>4, <1>5
<1>7. /\ line' = [c \in edges' |-> CASE c = m -> HeadTo(line[e], p)
                                     [] c = k -> TailFrom(line[e], p)
                                     [] OTHER -> line[c]]
      /\ pt' = WithRow(pt, n, p) /\ p \in Plane
  BY DEF SplitDone, SplitLabels
<1>8. line'[m] = HeadTo(line[e], p) /\ line'[k] = TailFrom(line[e], p) /\ line' = [c \in edges' |-> line'[c]]
  BY <1>5, <1>7
<1>9. \A c \in edges \ {e} : line'[c] = line[c] /\ line[c] \in Polylines
  BY <1>5, <1>6, <1>7 DEF TopoInv, Tables
<1>10. pt'[n] = p /\ \A q \in nodes : pt'[q] = pt[q] /\ pt[q] \in Plane
  <2>1. pt \in [nodes -> Plane] /\ n \notin nodes
    BY DEF TopoInv, Tables, SplitDone
  <2> QED BY <1>7, <2>1 DEF WithRow
<1>11. \A q \in nodes : pt[q] # p
  BY DEF SplitDone, SplitsAt, CoincidentNode
<1> QED BY <1>1, <1>2, <1>3, <1>5, <1>6, <1>7, <1>8, <1>9, <1>10, <1>11

\* The parts of a line are drawn where the line was.
LEMMA SplitDraws ==
  ASSUME TopoInv, NEW e \in edges, NEW m, NEW k, NEW n, NEW p, SplitDone(e, m, k, n, p)
  PROVE  Tables' /\ Drawn'
<1> DEFINE l == line[e]
           h == HeadTo(l, p)
           t == TailFrom(l, p)
<1>0. LinksTypeOK
  BY DEF TopoInv, LinksInv
<1>1. /\ l \in Polylines /\ Simple(l) /\ Cuts(l, p)
      /\ line' = [c \in edges' |-> line'[c]]
      /\ line'[m] = h /\ line'[k] = t /\ h \in Polylines /\ t \in Polylines
      /\ edges' = (edges \ {e}) \cup {m, k}
      /\ \A c \in edges \ {e} : c \notin {m, k} /\ line'[c] = line[c] /\ line[c] \in Polylines
      /\ pt' = WithRow(pt, n, p) /\ pt'[n] = p /\ p \in Plane
      /\ \A q \in nodes : pt'[q] = pt[q] /\ pt[q] \in Plane /\ pt[q] # p
  BY SplitLines
<1>2. nodes' = nodes \cup {n} /\ n \notin nodes
  BY DEF SplitDone
<1>3. Tables'
  <2>1. line' \in [edges' -> Polylines]
    BY <1>1
  <2>2. pt' \in [nodes' -> Plane]
    <3>1. pt \in [nodes -> Plane]
      BY DEF TopoInv, Tables
    <3> QED BY <1>1, <1>2, <3>1 DEF WithRow
  <2> QED BY <2>1, <2>2 DEF Tables
<1>4. /\ org'[m] = org[e] /\ org'[-m] = n /\ org'[k] = n /\ org'[-k] = org[-e]
      /\ \A c \in edges \ {e} : org'[c] = org[c] /\ org'[-c] = org[-c]
  <2>1. \A c \in edges \ {e} : c \in Darts(edges) \ {e, -e} /\ -c \in Darts(edges) \ {e, -e}
    <3> SUFFICES ASSUME NEW c \in edges \ {e}
                 PROVE c \in Darts(edges) \ {e, -e} /\ -c \in Darts(edges) \ {e, -e}
      OBVIOUS
    <3>1. /\ c \in Nat /\ e \in Nat /\ c > 0 /\ e > 0 /\ c # e
          /\ c \in Darts(edges) /\ -c \in Darts(edges)
      BY <1>0, DartFacts
    <3> QED BY <3>1
  <2> QED BY <2>1 DEF SplitDone
<1>5. /\ pt[org[e]] = Head(l) /\ pt[org[-e]] = Last(l) /\ org[e] \in nodes /\ org[-e] \in nodes
      /\ \A q \in nodes : OnLine(pt[q], l) => q \in {org[e], org[-e]}
      /\ \A c \in edges \ {e} : Apart(l, line[c]) /\ Apart(line[c], l)
      /\ \A a, b \in nodes : a # b => pt[a] # pt[b]
  BY <1>0, DartFacts DEF TopoInv, Drawn, LinksTypeOK
<1>6. /\ \A q \in Plane : OnLine(q, h) => OnLine(q, l)
      /\ Head(h) = Head(l) /\ Last(h) = p
      /\ OnLine(Last(l), h) => Last(l) = Head(l)
  BY <1>1, HeadOn
<1>7. /\ \A q \in Plane : OnLine(q, t) => OnLine(q, l)
      /\ Head(t) = p /\ Last(t) = Last(l)
      /\ OnLine(Head(l), t) => Head(l) = Last(l)
  BY <1>1, TailOn
<1>8. /\ Simple(h) /\ Simple(t) /\ Apart(h, t) /\ Apart(t, h)
  BY <1>1, HeadSimple, TailSimple, PartsApart, ApartSwap
<1>9. ASSUME NEW c \in edges \ {e}
      PROVE  /\ Apart(h, line[c]) /\ Apart(line[c], h) /\ Apart(t, line[c]) /\ Apart(line[c], t)
             /\ ~ OnLine(p, line[c])
  <2>1. line[c] \in Polylines /\ Apart(l, line[c])
    BY <1>1, <1>5
  <2>2. Apart(h, line[c]) /\ Apart(t, line[c])
    BY <1>1, <2>1, HeadApart, TailApart
  <2>3. Apart(line[c], h) /\ Apart(line[c], t)
    BY <1>1, <2>1, <2>2, ApartSwap
  <2>4. ~ OnLine(p, line[c])
    <3> SUFFICES ASSUME OnLine(p, line[c]) PROVE FALSE
      OBVIOUS
    <3>1. p \in Ends(line[c])
      BY <1>1, <2>1 DEF Apart, Cuts
    <3>2. /\ pt[org[c]] = Head(line[c]) /\ pt[org[-c]] = Last(line[c])
          /\ org[c] \in nodes /\ org[-c] \in nodes
      BY <1>0, DartFacts DEF TopoInv, Drawn, LinksTypeOK
    <3> QED BY <1>1, <3>1, <3>2 DEF Ends
  <2> QED BY <2>2, <2>3, <2>4
<1> HIDE DEF h, t, l
<1>10. Drawn'
  <2>1. \A c \in edges' : Simple(line'[c])
    BY <1>1, <1>8 DEF TopoInv, Drawn
  <2>2. \A c \in edges' : pt'[org'[c]] = Head(line'[c]) /\ pt'[org'[-c]] = Last(line'[c])
    <3> SUFFICES ASSUME NEW c \in edges'
                 PROVE pt'[org'[c]] = Head(line'[c]) /\ pt'[org'[-c]] = Last(line'[c])
      OBVIOUS
    <3>1. CASE c \in {m, k}
      BY <1>1, <1>4, <1>5, <1>6, <1>7, <3>1
    <3>2. CASE c \in edges \ {e}
      <4>1. /\ pt[org[c]] = Head(line[c]) /\ pt[org[-c]] = Last(line[c])
            /\ org[c] \in nodes /\ org[-c] \in nodes
        BY <1>0, <3>2, DartFacts DEF TopoInv, Drawn, LinksTypeOK
      <4> QED BY <1>1, <1>4, <3>2, <4>1
    <3> QED BY <1>1, <3>1, <3>2
  <2>3. \A c, d \in edges' : c # d => Apart(line'[c], line'[d])
    <3> SUFFICES ASSUME NEW c \in edges', NEW d \in edges', c # d PROVE Apart(line'[c], line'[d])
      OBVIOUS
    <3>1. CASE c \in edges \ {e} /\ d \in edges \ {e}
      BY <1>1, <3>1 DEF TopoInv, Drawn
    <3>2. CASE c \in edges \ {e} /\ d \in {m, k}
      BY <1>1, <1>9, <3>2
    <3>3. CASE c \in {m, k} /\ d \in edges \ {e}
      BY <1>1, <1>9, <3>3
    <3>4. CASE c \in {m, k} /\ d \in {m, k}
      BY <1>1, <1>8, <3>4
    <3> QED BY <1>1, <3>1, <3>2, <3>3, <3>4
  <2>4. \A a, b \in nodes' : a # b => pt'[a] # pt'[b]
    BY <1>1, <1>2, <1>5
  <2>5. \A q \in nodes', c \in edges' : OnLine(pt'[q], line'[c]) => q \in {org'[c], org'[-c]}
    <3> SUFFICES ASSUME NEW q \in nodes', NEW c \in edges', OnLine(pt'[q], line'[c])
                 PROVE q \in {org'[c], org'[-c]}
      OBVIOUS
    <3>1. CASE q = n
      BY <1>1, <1>4, <1>9, <3>1
    <3>2. CASE q \in nodes
      <4>1. pt'[q] = pt[q] /\ pt[q] \in Plane /\ q # n
        BY <1>1, <1>2, <3>2
      <4>2. CASE c \in edges \ {e}
        <5>1. OnLine(pt[q], line[c])
          BY <1>1, <4>1, <4>2
        <5>2. q \in {org[c], org[-c]}
          BY <3>2, <4>2, <5>1 DEF TopoInv, Drawn
        <5> QED BY <1>4, <4>2, <5>2
      <4>3. CASE c = m
        <5>1. OnLine(pt[q], h) /\ OnLine(pt[q], l)
          BY <1>1, <1>6, <4>1, <4>3
        <5>2. q \in {org[e], org[-e]}
          BY <1>5, <3>2, <5>1
        <5>3. q = org[-e] => q = org[e]
          BY <1>5, <1>6, <5>1
        <5> QED BY <1>4, <4>3, <5>2, <5>3
      <4>4. CASE c = k
        <5>1. OnLine(pt[q], t) /\ OnLine(pt[q], l)
          BY <1>1, <1>7, <4>1, <4>4
        <5>2. q \in {org[e], org[-e]}
          BY <1>5, <3>2, <5>1
        <5>3. q = org[e] => q = org[-e]
          BY <1>5, <1>7, <5>1
        <5> QED BY <1>4, <4>4, <5>2, <5>3
      <4> QED BY <1>1, <4>2, <4>3, <4>4
    <3> QED BY <1>2, <3>1, <3>2
  <2> QED BY <2>1, <2>2, <2>3, <2>4, <2>5 DEF Drawn
<1> QED BY <1>3, <1>10

\* The far ends of the two parts leave as those of e did.
LEMMA SplitDepart ==
  ASSUME TopoInv, NEW e \in edges, NEW m, NEW k, NEW n, NEW p, SplitDone(e, m, k, n, p)
  PROVE  /\ Departs'[m] \in Ways /\ SameWay(Departs[e], Departs'[m])
         /\ Departs'[-k] \in Ways /\ SameWay(Departs[-e], Departs'[-k])
         /\ \A d \in Darts(edges) \ {e, -e} :
              Departs'[d] = Departs[d] /\ Departs[d] \in Ways /\ SameWay(Departs[d], Departs[d])
<1> DEFINE l == line[e]
           O == Darts(edges) \ {e, -e}
<1>0. LinksTypeOK
  BY DEF TopoInv, LinksInv
<1>1. /\ l \in Polylines /\ Simple(l) /\ Cuts(l, p)
      /\ line'[m] = HeadTo(l, p) /\ line'[k] = TailFrom(l, p)
      /\ \A c \in edges \ {e} : line'[c] = line[c]
  BY SplitLines
<1>2. /\ m > 0 /\ k > 0 /\ k \in Nat /\ -(-k) = k
      /\ Darts(edges)' = O \cup {m, -m, k, -k}
  BY DEF SplitDone
<1>3. ~ (-k > 0)
  BY <1>2
<1>4. Departs'[m] = Departure(HeadTo(l, p)) /\ Departs'[-k] = Departure(Reverse(TailFrom(l, p)))
  BY <1>1, <1>2, <1>3 DEF Departs, Path
<1>5. e \in Darts(edges) /\ -e \in Darts(edges)
  BY <1>0, DartFacts
<1>6. Departs[e] = Departure(l) /\ Departs[-e] = Departure(Reverse(l))
  <2>1. Path(line, e) = l /\ Path(line, -e) = Reverse(l)
    BY <1>0, <1>5, PathFacts DEF TopoInv, Tables
  <2> QED BY <1>5, <2>1 DEF Departs
<1>7. HeadTo(l, p) \in Polylines /\ SameWay(Departure(l), Departure(HeadTo(l, p)))
  BY <1>1, HeadSimple, HeadDepart
<1>8. /\ Reverse(TailFrom(l, p)) \in Polylines
      /\ SameWay(Departure(Reverse(l)), Departure(Reverse(TailFrom(l, p))))
  <2>1. Reverse(l) \in Polylines /\ Simple(Reverse(l)) /\ Cuts(Reverse(l), p)
    BY <1>1, Reversed, ReversedSimple, ReversedCuts
  <2>2. /\ HeadTo(Reverse(l), p) \in Polylines
        /\ SameWay(Departure(Reverse(l)), Departure(HeadTo(Reverse(l), p)))
    BY <2>1, HeadSimple, HeadDepart
  <2>3. Reverse(TailFrom(l, p)) = HeadTo(Reverse(l), p)
    BY <2>2, Reversed DEF TailFrom
  <2> QED BY <2>2, <2>3
<1>9. ASSUME NEW d \in O
      PROVE Departs'[d] = Departs[d] /\ Departs[d] \in Ways /\ SameWay(Departs[d], Departs[d])
  <2>1. (d > 0 => d \in edges /\ d # e) /\ (~ (d > 0) => -d \in edges /\ -d # e)
    BY <1>0, DartFacts
  <2>2. Path(line', d) = Path(line, d)
    BY <1>1, <2>1 DEF Path
  <2>3. Departs'[d] = Departs[d]
    BY <1>2, <2>2 DEF Departs
  <2>4. Path(line, d) \in Polylines
    BY <1>0, PathFacts DEF TopoInv, Tables
  <2>5. Departs[d] = Departure(Path(line, d))
    BY DEF Departs
  <2> QED BY <2>3, <2>4, <2>5, DepartureWay, SameWaySelf
<1>10. Departs'[m] \in Ways /\ Departs'[-k] \in Ways
  BY <1>4, <1>7, <1>8, DepartureWay
<1> QED BY <1>4, <1>6, <1>7, <1>8, <1>9, <1>10

\* They turn as the ends of the line did, and to each other at the new node.
LEMMA SplitClockwise ==
  ASSUME TopoInv, NEW e \in edges, NEW m, NEW k, NEW n, NEW p, SplitDone(e, m, k, n, p)
  PROVE  Clockwise' /\ \A q \in nodes : EndsAt(q)' = {} <=> EndsAt(q) = {}
<1> DEFINE O == Darts(edges) \ {e, -e}
           R == [c \in Darts(edges) |-> SplitRef(e, m, k, c)]
<1>0. LinksTypeOK /\ LinksInv
  BY DEF TopoInv, LinksInv
<1>1. /\ {m, -m, k, -k} \cap O = {}
      /\ m # -m /\ k # -k /\ m # k /\ m # -k /\ -m # k /\ -m # -k /\ -(-m) = m /\ -(-k) = k
      /\ n \notin nodes /\ nodes' = nodes \cup {n} /\ Darts(edges)' = O \cup {m, -m, k, -k}
      /\ org'[m] = org[e] /\ org'[-m] = n /\ org'[k] = n /\ org'[-k] = org[-e]
      /\ \A d \in O : org'[d] = org[d]
      /\ next'[-m] = SplitRef(e, m, k, next[-e]) /\ next'[k] = SplitRef(e, m, k, next[e])
      /\ next'[m] = k /\ next'[-k] = -m
      /\ \A d \in O : next'[d] = SplitRef(e, m, k, next[d])
  BY DEF SplitDone
<1>2. /\ e \in Darts(edges) /\ -e \in Darts(edges) /\ e # -e /\ -(-e) = e
      /\ org[e] \in nodes /\ org[-e] \in nodes
      /\ \A d \in Darts(edges) : next[d] \in Darts(edges) /\ org[d] \in nodes
  BY <1>0, DartFacts DEF LinksTypeOK
<1>3. ASSUME NEW d \in O PROVE -d \in O /\ d \in Darts(edges) /\ d \notin {m, -m, k, -k} /\ -d \in Darts(edges)
  BY <1>0, <1>1, DartFacts
<1>4. R[e] = m /\ R[-e] = -k /\ \A d \in O : R[d] = d
  BY <1>2 DEF SplitRef
<1>5. \A d \in Darts(edges) : SplitRef(e, m, k, d) = R[d]
  OBVIOUS
<1>6. \A d \in Darts(edges) : d = e \/ d = -e \/ d \in O
  OBVIOUS
<1> HIDE DEF O, R
<1>7. \A q \in nodes : EndsAt(q)' = {R[c] : c \in EndsAt(q)}
  <2> SUFFICES ASSUME NEW q \in nodes PROVE EndsAt(q)' = {R[c] : c \in EndsAt(q)}
    OBVIOUS
  <2>1. q # n
    BY <1>1
  <2>2. ASSUME NEW d \in EndsAt(q)' PROVE d \in {R[c] : c \in EndsAt(q)}
    <3>1. d \in O \cup {m, -m, k, -k} /\ org'[d] = q
      BY <1>1, <2>2 DEF EndsAt
    <3>2. \/ d \in O /\ org[d] = q
          \/ d = m /\ org[e] = q
          \/ d = -k /\ org[-e] = q
      BY <1>1, <2>1, <3>1
    <3> QED BY <1>2, <1>3, <1>4, <3>2 DEF EndsAt
  <2>3. ASSUME NEW c \in EndsAt(q) PROVE R[c] \in EndsAt(q)'
    <3>1. c \in Darts(edges) /\ org[c] = q
      BY DEF EndsAt
    <3>2. R[c] \in O \cup {m, -m, k, -k} /\ org'[R[c]] = q
      BY <1>1, <1>4, <1>6, <3>1
    <3> QED BY <1>1, <3>2 DEF EndsAt
  <2> QED BY <2>2, <2>3
<1>8. ASSUME NEW c \in Darts(edges) PROVE Turned'[R[c]] = R[Turned[c]]
  <2>1. -c \in Darts(edges) /\ Turned[c] = next[-c]
    BY <1>0, DartFacts DEF Turned
  <2>2. CASE c = e
    BY <1>1, <1>2, <1>4, <1>5, <2>1, <2>2 DEF Turned
  <2>3. CASE c = -e
    <3>1. Turned'[-k] = next'[k]
      BY <1>1 DEF Turned
    <3>2. Turned[c] = next[e] /\ next[e] \in Darts(edges)
      BY <1>2, <2>1, <2>3
    <3>3. Turned'[R[c]] = Turned'[-k]
      BY <1>4, <2>3
    <3>4. R[Turned[c]] = SplitRef(e, m, k, next[e])
      BY <1>5, <3>2
    <3> QED BY <1>1, <3>1, <3>3, <3>4
  <2>4. CASE c \in O
    <3>1. Turned'[c] = next'[-c]
      BY <1>1, <2>4 DEF Turned
    <3> QED BY <1>1, <1>2, <1>3, <1>4, <1>5, <2>1, <2>4, <3>1
  <2> QED BY <1>6, <2>2, <2>3, <2>4
<1>9. ASSUME NEW c \in Darts(edges) PROVE Departs'[R[c]] \in Ways /\ SameWay(Departs[c], Departs'[R[c]])
  <2>1. CASE c = e
    BY <1>4, <2>1, SplitDepart
  <2>2. CASE c = -e
    BY <1>4, <2>2, SplitDepart
  <2>3. CASE c \in O
    <3>1. Departs'[c] = Departs[c] /\ Departs[c] \in Ways /\ SameWay(Departs[c], Departs[c])
      BY <2>3, SplitDepart DEF O
    <3> QED BY <1>4, <2>3, <3>1
  <2> QED BY <1>6, <2>1, <2>2, <2>3
<1>10. \A c, d \in Darts(edges) : R[c] = R[d] => c = d
  BY <1>1, <1>3, <1>4, <1>6
<1>11. ASSUME NEW q \in nodes PROVE Turns(EndsAt(q)', Departs', Turned')
  <2> DEFINE E == EndsAt(q)
  <2>1. E \subseteq Darts(edges)
    BY DEF EndsAt
  <2>2. Spread(E, Departs) /\ Turns(E, Departs, Turned)
    BY <1>0, EndsSpread DEF TopoInv, Clockwise
  <2> HIDE DEF E
  <2>3. \A c, d \in E : R[c] = R[d] => c = d
    BY <1>10, <2>1
  <2>4. \A c \in E : Departs'[R[c]] \in Ways /\ SameWay(Departs[c], Departs'[R[c]])
    BY <1>9, <2>1
  <2>5. \A c \in E : Turned'[R[c]] = R[Turned[c]]
    BY <1>8, <2>1
  <2>6. Turns({R[c] : c \in E}, Departs', Turned')
    BY ONLY <2>2, <2>3, <2>4, <2>5, TurnsRenamed
  <2> QED BY <1>7, <2>6 DEF E
<1>12. Turns(EndsAt(n)', Departs', Turned')
  <2>1. EndsAt(n)' = {-m, k}
    BY <1>1, <1>2, <1>3 DEF EndsAt
  <2>2. Turned'[-m] = k /\ Turned'[k] = -m
    BY <1>1 DEF Turned
  <2> QED BY <1>1, <2>1, <2>2 DEF Turns, FirstAfter
<1> QED BY <1>1, <1>7, <1>11, <1>12 DEF Clockwise

LEMMA SplitKeeps ==
  ASSUME TopoInv, NEW e \in edges, NEW m, NEW k, NEW n, NEW p, SplitDone(e, m, k, n, p)
  PROVE  Tables' /\ LabelsTypeOK' /\ Drawn' /\ Clockwise' /\ IsolatedAlone'
<1> DEFINE O == Darts(edges) \ {e, -e}
           D == O \cup {m, -m, k, -k}
<1>0. LinksTypeOK /\ LabelsTypeOK
  BY DEF TopoInv, LinksInv
<1>1. /\ n \notin nodes /\ nodes' = nodes \cup {n} /\ Darts(edges)' = D /\ lastNode' = n
      /\ org'[k] = n
      /\ contFace' = WithRow(contFace, lastNode', -1)
      /\ left' = [d \in Darts(edges') |-> CASE d \in {m, k} -> left[e]
                                            [] d \in {-m, -k} -> left[-e]
                                            [] OTHER -> left[d]]
      /\ UNCHANGED <<mbr, lastFace>>
  BY DEF SplitDone, SplitLabels
<1>2. Darts(edges') = D
  BY <1>1 DEF Darts
<1>3. e \in Darts(edges) /\ -e \in Darts(edges)
  BY <1>0, DartFacts
<1>4. left' \in [D -> 0..lastFace]
  BY <1>0, <1>1, <1>2, <1>3 DEF LabelsTypeOK
<1>5. contFace'[n] = -1 /\ (\A q \in nodes : contFace'[q] = contFace[q]) /\ DOMAIN contFace' = nodes'
  BY <1>0, <1>1 DEF LabelsTypeOK, WithRow
<1>6. contFace' \in [nodes' -> -1..lastFace]
  <2>1. contFace' = WithRow(contFace, n, -1) /\ contFace \in [nodes -> -1..lastFace] /\ lastFace \in Nat
    BY <1>0, <1>1 DEF LabelsTypeOK
  <2>2. -1 \in -1..lastFace
    BY <2>1
  <2> QED BY <1>1, <2>1, <2>2 DEF WithRow
<1>7. LabelsTypeOK'
  BY <1>0, <1>1, <1>4, <1>6 DEF LabelsTypeOK
<1>8. EndsAt(n)' # {}
  BY <1>1 DEF EndsAt
<1>9. IsolatedAlone'
  <2> SUFFICES ASSUME NEW q \in nodes' PROVE contFace'[q] = -1 <=> EndsAt(q)' # {}
    BY DEF IsolatedAlone
  <2>1. CASE q = n
    BY <1>5, <1>8, <2>1
  <2>2. CASE q \in nodes
    BY <1>5, <2>2, SplitClockwise DEF TopoInv, IsolatedAlone
  <2> QED BY <1>1, <2>1, <2>2
<1> QED BY <1>7, <1>9, SplitDraws, SplitClockwise

-----------------------------------------------------------------------------
(* Healing edges *)

\* The path f, l of the edges e1 and e2 became edge k, with its line and labels.
HealDone(f, l, e1, e2, k) == HealStep(f, l, e1, e2, k) /\ HealLabels(f, l, k)

\* The two lines meet in the node that goes, and make one line.
LEMMA HealLines ==
  ASSUME TopoInv, NEW f, NEW l, NEW e1, NEW e2, NEW k, HealDone(f, l, e1, e2, k),
         NEW J, J = Joined(Path(line, f), Path(line, l))
  PROVE  /\ J \in Polylines /\ Simple(J)
         /\ Head(J) = pt[org[f]] /\ Last(J) = pt[org[-l]]
         /\ \A q \in nodes \ {org[l]} : OnLine(pt[q], J) => q \in {org[f], org[-l]}
         /\ \A c \in Darts(edges) \ {e1, -e1, e2, -e2} :
              Apart(J, Path(line, c)) /\ Apart(Path(line, c), J)
         /\ Departure(J) = Departure(Path(line, f)) /\ Departure(Reverse(J)) = Departure(Path(line, -l))
<1> DEFINE F == Path(line, f)
           L == Path(line, l)
           n == org[l]
<1>0. LinksTypeOK /\ LinksInv /\ Tables /\ Drawn
  BY DEF TopoInv, LinksInv
<1>1. Healed(f, l, e1, e2, k)
  BY <1>0, HealEffect DEF HealDone
<1>2. /\ f \in Darts(edges) /\ l \in Darts(edges) /\ -f \in Darts(edges) /\ -l \in Darts(edges)
      /\ {f, -f, l, -l} = {e1, -e1, e2, -e2}
      /\ f # l /\ f # -l
      /\ org[-f] = n /\ org[f] # n /\ org[-l] # n
      /\ \A d \in Darts(edges) \ {e1, -e1, e2, -e2} : org[d] # n
  BY <1>1 DEF Healed
<1>3. n \in nodes /\ org[f] \in nodes /\ org[-l] \in nodes /\ -(-l) = l /\ l # -f
  BY <1>0, <1>2, DartFacts DEF LinksTypeOK
<1>4. /\ F \in Polylines /\ Simple(F) /\ Head(F) = pt[org[f]] /\ Last(F) = pt[n]
      /\ \A q \in nodes : OnLine(pt[q], F) => q \in {org[f], n}
  BY <1>0, <1>2, DartsDrawn
<1>5. /\ L \in Polylines /\ Simple(L) /\ Head(L) = pt[n] /\ Last(L) = pt[org[-l]]
      /\ \A q \in nodes : OnLine(pt[q], L) => q \in {n, org[-l]}
  BY <1>0, <1>2, DartsDrawn
<1>6. Apart(F, L)
  BY <1>0, <1>2, <1>3, DartsDrawn
<1>7. \A a, b \in nodes : pt[a] = pt[b] => a = b
  BY <1>0 DEF Drawn
<1>8. pt[n] \in Plane /\ \A q \in nodes : pt[q] \in Plane
  BY <1>0, <1>3 DEF Tables
<1>9. ASSUME NEW c \in Darts(edges) \ {e1, -e1, e2, -e2}
      PROVE  /\ Path(line, c) \in Polylines
             /\ Apart(F, Path(line, c)) /\ Apart(L, Path(line, c)) /\ ~ OnLine(pt[n], Path(line, c))
  <2>1. c \in Darts(edges) /\ c # f /\ c # -f /\ c # l /\ c # -l
    BY <1>2
  <2>2. -c \in Darts(edges) \ {e1, -e1, e2, -e2}
    <3>1. e1 \in Int /\ e2 \in Int
      BY <1>0, DartFacts DEF HealDone, HealStep
    <3>2. c \in Int /\ -c \in Darts(edges)
      BY <1>0, DartFacts
    <3> QED BY <3>1, <3>2
  <2>3. Path(line, c) \in Polylines /\ (OnLine(pt[n], Path(line, c)) => n \in {org[c], org[-c]})
    BY <1>0, <1>3, <2>1, DartsDrawn
  <2>4. Apart(F, Path(line, c))
    BY <1>0, <1>2, <2>1, DartsDrawn
  <2>5. Apart(L, Path(line, c))
    BY <1>0, <1>2, <2>1, DartsDrawn
  <2> QED BY <1>2, <2>2, <2>3, <2>4, <2>5
<1>10. Path(line, -l) = Reverse(L)
  BY <1>0, <1>2, PathFacts DEF Tables
<1> HIDE DEF F, L, n
<1>11. Last(F) = Head(L) /\ Head(F) # Last(F) /\ Head(L) # Last(L)
  BY <1>2, <1>3, <1>4, <1>5, <1>7
<1>12. /\ J \in Polylines /\ Head(J) = Head(F) /\ Last(J) = Last(L)
       /\ Departure(J) = Departure(F) /\ Departure(Reverse(J)) = Departure(Reverse(L))
  <2>1. J = Joined(F, L)
    BY DEF F, L
  <2> QED BY <1>4, <1>5, <1>11, <2>1, JoinedFacts, JoinedDepart
<1>13. Simple(J)
  <2>1. OnLine(Head(F), L) => Head(F) \in Ends(L)
    BY <1>2, <1>3, <1>4, <1>5 DEF Ends
  <2>2. OnLine(Last(L), F) => Last(L) \in Ends(F)
    BY <1>2, <1>3, <1>4, <1>5 DEF Ends
  <2>3. J = Joined(F, L)
    BY DEF F, L
  <2> QED BY <1>4, <1>5, <1>6, <1>11, <2>1, <2>2, <2>3, JoinedSimple
<1>14. ASSUME NEW q \in nodes \ {n}, OnLine(pt[q], J) PROVE q \in {org[f], org[-l]}
  <2>1. J = Joined(F, L)
    BY DEF F, L
  <2>2. OnLine(pt[q], F) \/ OnLine(pt[q], L)
    BY <1>4, <1>5, <1>8, <1>11, <1>14, <2>1, JoinedOn
  <2> QED BY <1>4, <1>5, <2>2
<1>15. ASSUME NEW c \in Darts(edges) \ {e1, -e1, e2, -e2}
       PROVE Apart(J, Path(line, c)) /\ Apart(Path(line, c), J)
  <2>1. J = Joined(F, L)
    BY DEF F, L
  <2>2. ~ OnLine(Last(F), Path(line, c))
    BY <1>4, <1>9
  <2>3. Apart(J, Path(line, c))
    BY <1>4, <1>5, <1>9, <1>11, <2>1, <2>2, JoinedApart
  <2> QED BY <1>9, <1>12, <2>3, ApartSwap
<1> QED BY <1>4, <1>5, <1>10, <1>12, <1>13, <1>14, <1>15 DEF F, L, n

\* What is left of the tables.
LEMMA HealTables ==
  ASSUME TopoInv, NEW f, NEW l, NEW e1, NEW e2, NEW k, HealDone(f, l, e1, e2, k),
         NEW J, J = Joined(Path(line, f), Path(line, l)),
         NEW O, O = Darts(edges) \ {e1, -e1, e2, -e2}
  PROVE  /\ edges' = (edges \ {e1, e2}) \cup {k} /\ Darts(edges)' = O \cup {k, -k}
         /\ k \in Nat /\ k > 0 /\ ~ (-k > 0) /\ k # -k /\ -(-k) = k /\ k \notin O /\ -k \notin O
         /\ \A d \in O : -d \in O /\ d \in Darts(edges) /\ -(-d) = d
         /\ \A c \in edges \ {e1, e2} : c \in O /\ c # k
         /\ line' = [c \in edges' |-> IF c = k THEN J ELSE line[c]]
         /\ nodes' = nodes \ {org[l]}
         /\ pt' = [q \in nodes' |-> pt[q]]
         /\ org'[k] = org[f] /\ org'[-k] = org[-l] /\ \A d \in O : org'[d] = org[d] /\ org[d] # org[l]
         /\ \A d \in O : Path(line', d) = Path(line, d)
         /\ Path(line', k) = J /\ Path(line', -k) = Reverse(J)
<1>0. LinksTypeOK /\ LinksInv /\ Tables
  BY DEF TopoInv, LinksInv
<1>1. Healed(f, l, e1, e2, k)
  BY <1>0, HealEffect DEF HealDone
<1>2. /\ k \in Nat /\ k # -k /\ -(-k) = k /\ k \notin O /\ -k \notin O
      /\ Darts(edges') = O \cup {k, -k}
      /\ edges' \subseteq 1..lastEdge' /\ lastEdge' \in 0..MaxEdge
      /\ org' = [d \in O \cup {k, -k} |-> IF d = k THEN org[f] ELSE IF d = -k THEN org[-l] ELSE org[d]]
      /\ nodes' = nodes \ {org[l]}
      /\ \A d \in O : org[d] # org[l]
  BY <1>1 DEF Healed
<1>3. edges' = (edges \ {e1, e2}) \cup {k} /\ e1 \in edges /\ e2 \in edges
  BY DEF HealDone, HealStep, Heal
<1>4. Darts(edges)' = O \cup {k, -k}
  BY <1>2 DEF Darts
<1>5. k > 0 /\ ~ (-k > 0)
  BY <1>2, <1>3
<1>6. ASSUME NEW d \in O PROVE -d \in O /\ d \in Darts(edges) /\ -(-d) = d /\ d \in Int
  <2>1. e1 \in Int /\ e2 \in Int
    BY <1>0, <1>3, DartFacts
  <2>2. d \in Int /\ -d \in Darts(edges) /\ -(-d) = d
    BY <1>0, DartFacts
  <2> QED BY <2>1, <2>2
<1>7. ASSUME NEW c \in edges \ {e1, e2} PROVE c \in O /\ c # k
  <2>1. e1 \in Nat /\ e2 \in Nat /\ c \in Nat /\ e1 > 0 /\ e2 > 0 /\ c > 0 /\ c \in Darts(edges)
    BY <1>0, <1>3, DartFacts
  <2>2. c \in O
    BY <2>1
  <2> QED BY <1>2, <2>2
<1>8. /\ line' = [c \in edges' |-> IF c = k THEN J ELSE line[c]]
      /\ pt' = Restrict(pt, nodes')
  BY DEF HealDone, HealLabels
<1>9. pt' = [q \in nodes' |-> pt[q]]
  BY <1>8 DEF Restrict
<1>10. Path(line', k) = J /\ Path(line', -k) = Reverse(J)
  BY <1>2, <1>3, <1>5, <1>8 DEF Path
<1>11. ASSUME NEW d \in O PROVE Path(line', d) = Path(line, d)
  <2>1. (d > 0 => d \in edges \ {e1, e2}) /\ (~ (d > 0) => -d \in edges \ {e1, e2})
    BY <1>0, <1>6, DartFacts
  <2> QED BY <1>3, <1>7, <1>8, <2>1 DEF Path
<1> QED BY <1>2, <1>3, <1>4, <1>5, <1>6, <1>7, <1>8, <1>9, <1>10, <1>11

\* The joined line is drawn where the two lines were.
LEMMA HealDraws ==
  ASSUME TopoInv, NEW f, NEW l, NEW e1, NEW e2, NEW k, HealDone(f, l, e1, e2, k)
  PROVE  Tables' /\ Drawn'
<1> DEFINE J == Joined(Path(line, f), Path(line, l))
           O == Darts(edges) \ {e1, -e1, e2, -e2}
           n == org[l]
<1>0. LinksTypeOK /\ LinksInv /\ Tables /\ Drawn
  BY DEF TopoInv, LinksInv
<1>1. /\ edges' = (edges \ {e1, e2}) \cup {k}
      /\ \A d \in O : -d \in O /\ d \in Darts(edges)
      /\ \A c \in edges \ {e1, e2} : c \in O /\ c # k
      /\ line' = [c \in edges' |-> IF c = k THEN J ELSE line[c]]
      /\ nodes' = nodes \ {n}
      /\ pt' = [q \in nodes' |-> pt[q]]
      /\ org'[k] = org[f] /\ org'[-k] = org[-l] /\ \A d \in O : org'[d] = org[d] /\ org[d] # n
  <2>1. J = Joined(Path(line, f), Path(line, l)) /\ O = Darts(edges) \ {e1, -e1, e2, -e2}
    OBVIOUS
  <2> HIDE DEF J, O
  <2> QED BY <2>1, HealTables
<1>2. /\ J \in Polylines /\ Simple(J)
      /\ Head(J) = pt[org[f]] /\ Last(J) = pt[org[-l]]
      /\ \A q \in nodes \ {n} : OnLine(pt[q], J) => q \in {org[f], org[-l]}
      /\ \A c \in O : Apart(J, Path(line, c)) /\ Apart(Path(line, c), J)
  BY HealLines
<1>3. org[f] \in nodes \ {n} /\ org[-l] \in nodes \ {n}
  <2>1. Healed(f, l, e1, e2, k)
    BY <1>0, HealEffect DEF HealDone
  <2>2. f \in Darts(edges) /\ -l \in Darts(edges) /\ org[f] # n /\ org[-l] # n
    BY <2>1 DEF Healed
  <2> QED BY <1>0, <2>2 DEF LinksTypeOK
<1>4. \A c \in edges \ {e1, e2} : /\ Path(line, c) = line[c] /\ line[c] \in Polylines
                                 /\ org[c] \in nodes \ {n} /\ org[-c] \in nodes \ {n}
  <2> SUFFICES ASSUME NEW c \in edges \ {e1, e2}
               PROVE /\ Path(line, c) = line[c] /\ line[c] \in Polylines
                     /\ org[c] \in nodes \ {n} /\ org[-c] \in nodes \ {n}
    OBVIOUS
  <2>1. c \in O /\ -c \in O /\ c \in Darts(edges) /\ -c \in Darts(edges)
    BY <1>1
  <2>2. Path(line, c) = line[c] /\ line[c] \in Polylines
    BY <1>0, <2>1, PathFacts DEF Tables
  <2> QED BY <1>0, <1>1, <2>1, <2>2 DEF LinksTypeOK
<1> HIDE DEF J, O, n
<1>5. Tables'
  <2>1. pt' \in [nodes' -> Plane]
    BY <1>0, <1>1 DEF Tables
  <2>2. line' \in [edges' -> Polylines]
    BY <1>1, <1>2, <1>4
  <2> QED BY <2>1, <2>2 DEF Tables
<1>6. line'[k] = J /\ \A c \in edges \ {e1, e2} : line'[c] = line[c] /\ org'[c] = org[c] /\ org'[-c] = org[-c]
  BY <1>1
<1>7. Drawn'
  <2>1. \A c \in edges' : Simple(line'[c])
    BY <1>0, <1>1, <1>2, <1>6 DEF Drawn
  <2>2. \A c \in edges' : pt'[org'[c]] = Head(line'[c]) /\ pt'[org'[-c]] = Last(line'[c])
    <3> SUFFICES ASSUME NEW c \in edges'
                 PROVE pt'[org'[c]] = Head(line'[c]) /\ pt'[org'[-c]] = Last(line'[c])
      OBVIOUS
    <3>1. CASE c = k
      BY <1>1, <1>2, <1>3, <1>6, <3>1
    <3>2. CASE c \in edges \ {e1, e2}
      BY <1>0, <1>1, <1>4, <1>6, <3>2 DEF Drawn
    <3> QED BY <1>1, <3>1, <3>2
  <2>3. \A c, d \in edges' : c # d => Apart(line'[c], line'[d])
    <3> SUFFICES ASSUME NEW c \in edges', NEW d \in edges', c # d PROVE Apart(line'[c], line'[d])
      OBVIOUS
    <3>1. CASE c \in edges \ {e1, e2} /\ d \in edges \ {e1, e2}
      BY <1>0, <1>6, <3>1 DEF Drawn
    <3>2. CASE c \in edges \ {e1, e2} /\ d = k
      BY <1>1, <1>2, <1>4, <1>6, <3>2
    <3>3. CASE c = k /\ d \in edges \ {e1, e2}
      BY <1>1, <1>2, <1>4, <1>6, <3>3
    <3> QED BY <1>1, <3>1, <3>2, <3>3
  <2>4. \A a, b \in nodes' : a # b => pt'[a] # pt'[b]
    BY <1>0, <1>1 DEF Drawn
  <2>5. \A q \in nodes', c \in edges' : OnLine(pt'[q], line'[c]) => q \in {org'[c], org'[-c]}
    <3> SUFFICES ASSUME NEW q \in nodes', NEW c \in edges', OnLine(pt'[q], line'[c])
                 PROVE q \in {org'[c], org'[-c]}
      OBVIOUS
    <3>1. q \in nodes \ {n} /\ OnLine(pt[q], line'[c])
      BY <1>1
    <3>2. CASE c = k
      BY <1>1, <1>2, <1>6, <3>1, <3>2
    <3>3. CASE c \in edges \ {e1, e2}
      BY <1>0, <1>6, <3>1, <3>3 DEF Drawn
    <3> QED BY <1>1, <3>2, <3>3
  <2> QED BY <2>1, <2>2, <2>3, <2>4, <2>5 DEF Drawn
<1> QED BY <1>5, <1>7

\* Its ends turn as those of the path did.
LEMMA HealClockwise ==
  ASSUME TopoInv, NEW f, NEW l, NEW e1, NEW e2, NEW k, HealDone(f, l, e1, e2, k)
  PROVE  Clockwise' /\ \A q \in nodes' : EndsAt(q)' = {} <=> EndsAt(q) = {}
<1> DEFINE J == Joined(Path(line, f), Path(line, l))
           O == Darts(edges) \ {e1, -e1, e2, -e2}
           n == org[l]
           R == [c \in O \cup {f, -l} |-> Renamed(f, l, k, c)]
<1>0. LinksTypeOK /\ LinksInv
  BY DEF TopoInv, LinksInv
<1>1. /\ Darts(edges)' = O \cup {k, -k}
      /\ k # -k /\ -(-k) = k /\ k \notin O /\ -k \notin O
      /\ \A d \in O : -d \in O /\ d \in Darts(edges) /\ -(-d) = d
      /\ nodes' = nodes \ {n}
      /\ org'[k] = org[f] /\ org'[-k] = org[-l] /\ \A d \in O : org'[d] = org[d] /\ org[d] # n
      /\ \A d \in O : Path(line', d) = Path(line, d)
      /\ Path(line', k) = J /\ Path(line', -k) = Reverse(J)
  <2>1. J = Joined(Path(line, f), Path(line, l)) /\ O = Darts(edges) \ {e1, -e1, e2, -e2}
    OBVIOUS
  <2> HIDE DEF J, O
  <2> QED BY <2>1, HealTables
<1>2. Departure(J) = Departure(Path(line, f)) /\ Departure(Reverse(J)) = Departure(Path(line, -l))
  BY HealLines
<1>3. Healed(f, l, e1, e2, k)
  BY <1>0, HealEffect DEF HealDone
<1>4. /\ f \in Darts(edges) /\ l \in Darts(edges) /\ -f \in Darts(edges) /\ -l \in Darts(edges)
      /\ {f, -f, l, -l} = {e1, -e1, e2, -e2}
      /\ f # -l /\ org[-f] = n
      /\ \A d \in O \cup {l, -f} : next[d] \in O \cup {f, -l}
      /\ \A d \in O \cup {k, -k} :
           next'[d] = Renamed(f, l, k, IF d = k THEN next[l] ELSE IF d = -k THEN next[-f] ELSE next[d])
  BY <1>3 DEF Healed
<1>5. -(-l) = l /\ -(-f) = f
  BY <1>0, <1>4, DartFacts
<1>6. f \notin O /\ -l \notin O
  BY <1>4
<1>7. R[f] = k /\ R[-l] = -k /\ \A d \in O : R[d] = d
  BY <1>4, <1>6 DEF Renamed
<1>8. \A d \in O \cup {f, -l} : Renamed(f, l, k, d) = R[d]
  OBVIOUS
<1>9. \A d \in Darts(edges) : d \in O \cup {f, -l} \/ d = l \/ d = -f
  BY <1>4
<1> HIDE DEF J, O, n, R
<1>10. \A q \in nodes' : EndsAt(q) \subseteq O \cup {f, -l} /\ EndsAt(q)' = {R[c] : c \in EndsAt(q)}
  <2> SUFFICES ASSUME NEW q \in nodes'
               PROVE EndsAt(q) \subseteq O \cup {f, -l} /\ EndsAt(q)' = {R[c] : c \in EndsAt(q)}
    OBVIOUS
  <2>1. q # n
    BY <1>1
  <2>2. EndsAt(q) \subseteq O \cup {f, -l}
    BY <1>4, <1>9, <2>1 DEF EndsAt, n
  <2>3. ASSUME NEW d \in EndsAt(q)' PROVE d \in {R[c] : c \in EndsAt(q)}
    <3>1. d \in O \cup {k, -k} /\ org'[d] = q
      BY <1>1, <2>3 DEF EndsAt
    <3>2. \/ d \in O /\ org[d] = q
          \/ d = k /\ org[f] = q
          \/ d = -k /\ org[-l] = q
      BY <1>1, <3>1
    <3> QED BY <1>1, <1>4, <1>7, <3>2 DEF EndsAt
  <2>4. ASSUME NEW c \in EndsAt(q) PROVE R[c] \in EndsAt(q)'
    <3>1. c \in O \cup {f, -l} /\ org[c] = q
      BY <2>2 DEF EndsAt
    <3>2. R[c] \in O \cup {k, -k} /\ org'[R[c]] = q
      BY <1>1, <1>7, <3>1
    <3> QED BY <1>1, <3>2 DEF EndsAt
  <2> QED BY <2>2, <2>3, <2>4
<1>11. ASSUME NEW c \in O \cup {f, -l} PROVE Turned'[R[c]] = R[Turned[c]]
  <2>1. c \in Darts(edges)
    BY <1>1, <1>4
  <2>2. Turned[c] = next[-c]
    BY <2>1 DEF Turned
  <2>3. CASE c = f
    <3>1. Turned'[k] = next'[-k] /\ next'[-k] = Renamed(f, l, k, next[-f])
      BY <1>1, <1>4 DEF Turned
    <3> QED BY <1>4, <1>7, <1>8, <2>2, <2>3, <3>1
  <2>4. CASE c = -l
    <3>1. Turned'[-k] = next'[k] /\ next'[k] = Renamed(f, l, k, next[l])
      BY <1>1, <1>4 DEF Turned
    <3>2. Turned[c] = next[l]
      BY <1>5, <2>2, <2>4
    <3>3. R[next[l]] = Renamed(f, l, k, next[l])
      BY <1>4, <1>8
    <3> QED BY <1>7, <2>4, <3>1, <3>2, <3>3
  <2>5. CASE c \in O
    <3>1. -c \in O /\ -c # k /\ -c # -k
      BY <1>1, <2>5
    <3>2. Turned'[c] = next'[-c] /\ next'[-c] = Renamed(f, l, k, next[-c])
      BY <1>1, <1>4, <2>5, <3>1 DEF Turned
    <3> QED BY <1>4, <1>7, <1>8, <2>2, <2>5, <3>1, <3>2
  <2> QED BY <2>3, <2>4, <2>5
<1>12. ASSUME NEW c \in O \cup {f, -l} PROVE Departs'[R[c]] \in Ways /\ SameWay(Departs[c], Departs'[R[c]])
  <2>1. c \in Darts(edges)
    BY <1>1, <1>4
  <2>2. Departs[c] = Departure(Path(line, c)) /\ Path(line, c) \in Polylines
    BY <1>0, <2>1, PathFacts DEF Departs, TopoInv, Tables
  <2>3. Departs'[R[c]] = Departs[c]
    <3>1. R[c] \in O \cup {k, -k}
      BY <1>7
    <3>2. Departs'[R[c]] = Departure(Path(line', R[c]))
      BY <1>1, <3>1 DEF Departs
    <3>3. Departure(Path(line', R[c])) = Departure(Path(line, c))
      BY <1>1, <1>2, <1>7
    <3> QED BY <2>2, <3>2, <3>3
  <2> QED BY <2>2, <2>3, DepartureWay, SameWaySelf
<1>13. \A c, d \in O \cup {f, -l} : R[c] = R[d] => c = d
  BY <1>1, <1>7
<1>14. ASSUME NEW q \in nodes' PROVE Turns(EndsAt(q)', Departs', Turned')
  <2> DEFINE E == EndsAt(q)
  <2>1. E \subseteq O \cup {f, -l} /\ q \in nodes
    BY <1>1, <1>10
  <2>2. Spread(E, Departs) /\ Turns(E, Departs, Turned)
    BY <1>0, <2>1, EndsSpread DEF TopoInv, Clockwise
  <2> HIDE DEF E
  <2>3. \A c, d \in E : R[c] = R[d] => c = d
    BY <1>13, <2>1
  <2>4. \A c \in E : Departs'[R[c]] \in Ways /\ SameWay(Departs[c], Departs'[R[c]])
    BY <1>12, <2>1
  <2>5. \A c \in E : Turned'[R[c]] = R[Turned[c]]
    BY <1>11, <2>1
  <2>6. Turns({R[c] : c \in E}, Departs', Turned')
    BY ONLY <2>2, <2>3, <2>4, <2>5, TurnsRenamed
  <2> QED BY <1>10, <2>6 DEF E
<1> QED BY <1>10, <1>14 DEF Clockwise

LEMMA HealKeeps ==
  ASSUME TopoInv, NEW f, NEW l, NEW e1, NEW e2, NEW k, HealDone(f, l, e1, e2, k)
  PROVE  Tables' /\ LabelsTypeOK' /\ Drawn' /\ Clockwise' /\ IsolatedAlone'
<1> DEFINE J == Joined(Path(line, f), Path(line, l))
           O == Darts(edges) \ {e1, -e1, e2, -e2}
<1>0. LinksTypeOK /\ LinksInv /\ LabelsTypeOK
  BY DEF TopoInv, LinksInv
<1>1. /\ Darts(edges)' = O \cup {k, -k} /\ nodes' = nodes \ {org[l]}
      /\ \A d \in O : d \in Darts(edges)
  <2>1. J = Joined(Path(line, f), Path(line, l)) /\ O = Darts(edges) \ {e1, -e1, e2, -e2}
    OBVIOUS
  <2> HIDE DEF J, O
  <2> QED BY <2>1, HealTables
<1>2. f \in Darts(edges) /\ -f \in Darts(edges)
  <2>1. Healed(f, l, e1, e2, k)
    BY <1>0, HealEffect DEF HealDone
  <2> QED BY <2>1 DEF Healed
<1>3. /\ contFace' = Restrict(contFace, nodes')
      /\ left' = [d \in Darts(edges') |-> IF d = k THEN left[f] ELSE IF d = -k THEN left[-f] ELSE left[d]]
      /\ UNCHANGED <<mbr, lastFace>>
  BY DEF HealDone, HealLabels
<1>4. Darts(edges') = O \cup {k, -k}
  BY <1>1 DEF Darts
<1>5. left' \in [O \cup {k, -k} -> 0..lastFace]
  BY <1>0, <1>1, <1>2, <1>3, <1>4 DEF LabelsTypeOK
<1>6. contFace' = [q \in nodes' |-> contFace[q]]
  BY <1>3 DEF Restrict
<1>7. contFace' \in [nodes' -> -1..lastFace]
  BY <1>0, <1>1, <1>6 DEF LabelsTypeOK
<1>8. LabelsTypeOK'
  BY <1>0, <1>1, <1>3, <1>5, <1>7 DEF LabelsTypeOK
<1>9. IsolatedAlone'
  BY <1>1, <1>6, HealClockwise DEF TopoInv, IsolatedAlone
<1> QED BY <1>8, <1>9, HealDraws, HealClockwise

-----------------------------------------------------------------------------
(* Changing the line of an edge *)

\* The new line has the ends of the old one and crosses no other.
LEMMA ChangedLine ==
  ASSUME TopoInv, NEW e \in edges, NEW l \in Curves, ChangeEdgeGeom(e, l)
  PROVE  /\ l \in Polylines /\ Simple(l) /\ line[e] \in Polylines
         /\ Head(l) = pt[org[e]] /\ Last(l) = pt[org[-e]]
         /\ Head(line[e]) = Head(l) /\ Last(line[e]) = Last(l)
         /\ line' = [line EXCEPT ![e] = l]
         /\ \A c \in edges \ {e} : Apart(line[c], l) /\ Apart(l, line[c]) /\ line'[c] = line[c]
         /\ line'[e] = l
<1>0. LinksTypeOK /\ Tables /\ Drawn
  BY DEF TopoInv, LinksInv
<1>1. /\ IsSimple(l) /\ Head(l) = Head(line[e]) /\ Last(l) = Last(line[e])
      /\ NoCrossing(org[e], org[-e], l, e)
      /\ line' = [line EXCEPT ![e] = l]
  BY DEF ChangeEdgeGeom
<1>2. l \in Polylines /\ line \in [edges -> Polylines]
  BY <1>0, GeometryAssumption DEF Tables
<1>3. Simple(l)
  BY <1>1, <1>2, SimpleMeaning
<1>4. Head(l) = pt[org[e]] /\ Last(l) = pt[org[-e]]
  BY <1>0, <1>1 DEF Drawn
<1>5. ASSUME NEW c \in edges \ {e} PROVE Apart(line[c], l) /\ Apart(l, line[c]) /\ line'[c] = line[c]
  <2>1. ~ InteriorsMeet(line[c], l) /\ line[c] \in Polylines
    BY <1>1, <1>2 DEF NoCrossing
  <2>2. Apart(line[c], l)
    BY <1>2, <2>1, ApartMeaning
  <2>3. Apart(l, line[c])
    BY <1>2, <2>1, <2>2, ApartSwap
  <2> QED BY <1>1, <1>2, <2>2, <2>3
<1> QED BY <1>1, <1>2, <1>3, <1>4, <1>5

\* So the drawing stays planar.
LEMMA ChangedDrawn ==
  ASSUME TopoInv, NEW e \in edges, NEW l \in Curves, ChangeEdgeGeom(e, l)
  PROVE  Tables' /\ Drawn'
<1>0. LinksTypeOK /\ Tables /\ Drawn
  BY DEF TopoInv, LinksInv
<1>1. /\ l \in Polylines /\ Simple(l)
      /\ Head(l) = pt[org[e]] /\ Last(l) = pt[org[-e]]
      /\ line' = [line EXCEPT ![e] = l]
      /\ \A c \in edges \ {e} : Apart(line[c], l) /\ Apart(l, line[c]) /\ line'[c] = line[c]
      /\ line'[e] = l
  BY ChangedLine
<1>2. UNCHANGED <<nodes, edges, org, pt>>
  BY DEF ChangeEdgeGeom, links
<1>3. \A n \in nodes : OnLine(pt[n], l) => n \in {org[e], org[-e]}
  BY DEF ChangeEdgeGeom, NoCrossing
<1>4. Tables'
  BY <1>0, <1>1, <1>2 DEF Tables
<1>5. Drawn'
  <2>1. \A c \in edges : Simple(line'[c])
    BY <1>0, <1>1 DEF Drawn
  <2>2. \A c \in edges : pt[org[c]] = Head(line'[c]) /\ pt[org[-c]] = Last(line'[c])
    BY <1>0, <1>1 DEF Drawn
  <2>3. \A c, d \in edges : c # d => Apart(line'[c], line'[d])
    BY <1>0, <1>1 DEF Drawn
  <2>4. \A n \in nodes, c \in edges : OnLine(pt[n], line'[c]) => n \in {org[c], org[-c]}
    BY <1>0, <1>1, <1>3 DEF Drawn
  <2> QED BY <1>0, <1>2, <2>1, <2>2, <2>3, <2>4 DEF Drawn
<1> QED BY <1>4, <1>5

\* Only the two ends of the edge may leave in other directions.
LEMMA ChangedEnds ==
  ASSUME TopoInv, NEW e \in edges, NEW l \in Curves, ChangeEdgeGeom(e, l)
  PROVE  /\ Darts(edges)' = Darts(edges) /\ Turned' = Turned
         /\ \A n : EndsAt(n)' = EndsAt(n)
         /\ \A n : Spread(EndsAt(n), Departs')
         /\ Departs[e] = Departure(line[e]) /\ Departs[-e] = Departure(Reverse(line[e]))
         /\ Departs'[e] = Departure(l) /\ Departs'[-e] = Departure(Reverse(l))
         /\ \A d \in Darts(edges) \ {e, -e} :
              Departs'[d] = Departs[d] /\ Departs[d] = Departure(Path(line, d))
<1>0. LinksTypeOK /\ Tables /\ Drawn
  BY DEF TopoInv, LinksInv
<1>1. /\ line' = [line EXCEPT ![e] = l] /\ line'[e] = l
      /\ \A c \in edges \ {e} : line'[c] = line[c]
  BY ChangedLine
<1>2. UNCHANGED <<nodes, edges, org, next, lastNode, lastEdge, pt>>
  BY DEF ChangeEdgeGeom, links
<1>3. Darts(edges)' = Darts(edges)
  BY <1>2 DEF Darts
<1>4. \A n : EndsAt(n)' = EndsAt(n)
  BY <1>2, <1>3 DEF EndsAt
<1>5. Turned' = Turned
  BY <1>2, <1>3 DEF Turned
<1>6. Tables' /\ Drawn'
  BY ChangedDrawn
<1>7. LinksTypeOK'
  BY <1>0, <1>2, <1>3 DEF LinksTypeOK
<1>8. \A n : Spread(EndsAt(n)', Departs')
  BY <1>6, <1>7, EndsSpreadNext
<1>9. e \in Darts(edges) /\ -e \in Darts(edges) /\ e > 0 /\ ~ (-e > 0) /\ -(-e) = e
  BY <1>0, DartFacts
<1>10. Departs'[e] = Departure(l) /\ Departs'[-e] = Departure(Reverse(l))
  BY <1>1, <1>3, <1>9 DEF Departs, Path
<1>11. Departs[e] = Departure(line[e]) /\ Departs[-e] = Departure(Reverse(line[e]))
  BY <1>9 DEF Departs, Path
<1>12. ASSUME NEW d \in Darts(edges) \ {e, -e}
       PROVE  Departs'[d] = Departs[d] /\ Departs[d] = Departure(Path(line, d))
  <2>1. (d > 0 => d \in edges /\ d # e) /\ (~ (d > 0) => -d \in edges /\ -d # e)
    BY <1>0, DartFacts
  <2>2. Path(line', d) = Path(line, d)
    BY <1>1, <2>1 DEF Path
  <2> QED BY <1>3, <2>2 DEF Departs
<1> QED BY <1>3, <1>4, <1>5, <1>8, <1>10, <1>11, <1>12

\* An end that leaves in another direction and still has the same neighbours.
LEMMA EndMoved ==
  ASSUME NEW E, NEW x, NEW D, NEW u, Leaving(E, x, D, u), NEW D2, NEW v, Leaving(E, x, D2, v),
         FindAdjacent(E, u) = FindAdjacent(E, v), NEW T, Turns(E \cup {x}, D, T)
  PROVE  Turns(E \cup {x}, D2, T)
<1> USE DEF Leaving
<1>1. CASE E = {}
  BY <1>1 DEF Turns
<1>2. CASE E # {}
  <2> DEFINE cw == FindAdjacent(E, u).cw
             ccw == FindAdjacent(E, u).ccw
  <2>1. FirstAfter(E, D, x, cw) /\ LastAfter(E, D, x, ccw)
    BY <1>2, Adjacents
  <2>2. FirstAfter(E, D2, x, FindAdjacent(E, v).cw) /\ LastAfter(E, D2, x, FindAdjacent(E, v).ccw)
    BY <1>2, Adjacents
  <2>3. FirstAfter(E, D2, x, cw) /\ LastAfter(E, D2, x, ccw)
    BY <2>2
  <2> HIDE DEF cw, ccw
  <2> DEFINE G == E \cup {x}
  <2>4. G \ {x} = E /\ x \in G /\ G # {x}
    BY <1>2
  <2>5. Spread(G, D) /\ Spread(G, D2) /\ Turns(G, D, T) /\ \A c \in G \ {x} : D2[c] = D[c]
    BY <2>4
  <2> HIDE DEF G
  <2>6. /\ FirstAfter(G \ {x}, D, x, cw) /\ LastAfter(G \ {x}, D, x, ccw)
        /\ FirstAfter(G \ {x}, D2, x, cw) /\ LastAfter(G \ {x}, D2, x, ccw)
    BY <2>1, <2>3, <2>4
  <2>7. Turns(G, D2, T)
    BY ONLY <2>4, <2>5, <2>6, TurnsMoved
  <2> QED BY <2>7 DEF G
<1> QED BY <1>1, <1>2

\* The two ends of a closed line that leave in other directions.
LEMMA EndsMoved ==
  ASSUME NEW E, NEW k, NEW j, NEW D, NEW u, NEW v, LeavingTwice(E, k, j, D, u, v),
         NEW D2, NEW u2, NEW v2, LeavingTwice(E, k, j, D2, u2, v2),
         FindAdjacentBut(E, u, v) = FindAdjacentBut(E, u2, v2),
         FindAdjacentBut(E, v, u) = FindAdjacentBut(E, v2, u2),
         NEW T, Turns(E \cup {k, j}, D, T)
  PROVE  Turns(E \cup {k, j}, D2, T)
<1> DEFINE s == FindAdjacentBut(E, u, v)
           t == FindAdjacentBut(E, v, u)
           scw == s.cw
           sccw == s.ccw
           tcw == t.cw
           tccw == t.ccw
           N == Nearer(E, D, k, j)
           M == Nearer(E, D, j, k)
           N2 == Nearer(E, D2, k, j)
           M2 == Nearer(E, D2, j, k)
<1>0. /\ N = Nearer(E, D, k, j) /\ M = Nearer(E, D, j, k)
      /\ N2 = Nearer(E, D2, k, j) /\ M2 = Nearer(E, D2, j, k)
      /\ s = FindAdjacentBut(E, u, v) /\ t = FindAdjacentBut(E, v, u)
      /\ s = FindAdjacentBut(E, u2, v2) /\ t = FindAdjacentBut(E, v2, u2)
  OBVIOUS
<1> HIDE DEF N, M, N2, M2, s, t
<1>1. /\ Sees(E, D, k, j, s.cw, t.ccw) /\ Sees(E, D, j, k, t.cw, s.ccw)
      /\ s.cw = 0 <=> N = {}
      /\ t.cw = 0 <=> M = {}
  <2>1. LeavingTwice(E, k, j, D, u, v)
    OBVIOUS
  <2>2. N = Nearer(E, D, k, j) /\ M = Nearer(E, D, j, k)
    BY <1>0
  <2>3. s = FindAdjacentBut(E, u, v) /\ t = FindAdjacentBut(E, v, u)
    BY <1>0
  <2> QED BY ONLY <2>1, <2>2, <2>3, EndsSeen
<1>2. /\ Sees(E, D2, k, j, s.cw, t.ccw) /\ Sees(E, D2, j, k, t.cw, s.ccw)
      /\ s.cw = 0 <=> N2 = {}
      /\ t.cw = 0 <=> M2 = {}
  <2>1. LeavingTwice(E, k, j, D2, u2, v2)
    OBVIOUS
  <2>2. N2 = Nearer(E, D2, k, j) /\ M2 = Nearer(E, D2, j, k)
    BY <1>0
  <2>3. s = FindAdjacentBut(E, u2, v2) /\ t = FindAdjacentBut(E, v2, u2)
    BY <1>0
  <2> QED BY ONLY <2>1, <2>2, <2>3, EndsSeen
<1>3. /\ Nearer(E, D, k, j) = {} <=> Nearer(E, D2, k, j) = {}
      /\ Nearer(E, D, j, k) = {} <=> Nearer(E, D2, j, k) = {}
  BY <1>0, <1>1, <1>2
<1>4. /\ Sees(E, D, k, j, scw, tccw) /\ Sees(E, D, j, k, tcw, sccw)
      /\ Sees(E, D2, k, j, scw, tccw) /\ Sees(E, D2, j, k, tcw, sccw)
  BY <1>1, <1>2
<1> HIDE DEF scw, sccw, tcw, tccw
<1>5. /\ E # {} /\ k \notin E /\ j \notin E /\ k # j
      /\ Spread(E \cup {k, j}, D) /\ Spread(E \cup {k, j}, D2) /\ \A c \in E : D2[c] = D[c]
      /\ Turns(E \cup {k, j}, D, T)
  BY DEF LeavingTwice
<1> QED BY ONLY <1>3, <1>4, <1>5, TurnsMovedTwice

\* The check of the neighbours keeps the rounds.
LEMMA ChangedTurns ==
  ASSUME TopoInv, NEW e \in edges, NEW l \in Curves, ChangeEdgeGeom(e, l), NEW n \in nodes
  PROVE  Turns(EndsAt(n)', Departs', Turned')
<1> DEFINE old == line[e]
           a == org[e]
           b == org[-e]
           E == EndsAt(n) \ {e, -e}
           x == -e
           ou == Departure(old)
           ov == Departure(Reverse(old))
           lu == Departure(l)
           lv == Departure(Reverse(l))
           D == Departs
           D2 == Departs'
<1>0. LinksTypeOK /\ Tables /\ Drawn
  BY DEF TopoInv, LinksInv
<1>1. l \in Polylines /\ old \in Polylines
  BY ChangedLine
<1>2. /\ Turned' = Turned /\ EndsAt(n)' = EndsAt(n) /\ Spread(EndsAt(n), D2)
      /\ D[e] = ou /\ D[x] = ov /\ D2[e] = lu /\ D2[x] = lv
      /\ \A d \in Darts(edges) \ {e, x} : D2[d] = D[d] /\ D[d] = Departure(Path(line, d))
  BY ChangedEnds
<1>3. Spread(EndsAt(n), D) /\ Turns(EndsAt(n), D, Turned)
  BY <1>0, EndsSpread DEF TopoInv, Clockwise
<1>4. /\ e \in Darts(edges) /\ x \in Darts(edges) /\ e # x /\ e # 0 /\ x # 0 /\ 0 \notin E
      /\ e \notin E /\ x \notin E /\ IsFiniteSet(E)
  <2>1. IsFiniteSet(EndsAt(n))
    BY <1>0, FewEnds
  <2>2. IsFiniteSet(E)
    BY <2>1, FS_Subset
  <2>3. E \subseteq Darts(edges)
    BY DEF EndsAt
  <2> QED BY <1>0, <2>2, <2>3, DartFacts
<1>5. (e \in EndsAt(n) <=> n = a) /\ (x \in EndsAt(n) <=> n = b)
  BY <1>4 DEF EndsAt
<1>6. \A c \in E : D2[c] = D[c] /\ D[c] = Departure(Path(line, c))
  BY <1>2 DEF EndsAt
<1>7. /\ ov = Direction(Last(old), old[Len(old) - 1]) /\ lv = Direction(Last(l), l[Len(l) - 1])
      /\ Adjacencies(a, b, old, e) = Adjacencies(a, b, l, e)
  BY <1>1, DepartureWay DEF ChangeEdgeGeom
<1>8. a = b /\ n = a => /\ FindAdjacentBut(E, ou, ov) = FindAdjacentBut(E, lu, lv)
                        /\ FindAdjacentBut(E, ov, ou) = FindAdjacentBut(E, lv, lu)
  BY <1>7 DEF Adjacencies
<1>9. a # b => /\ n = a => FindAdjacent(E, ou) = FindAdjacent(E, lu)
               /\ n = b => FindAdjacent(E, ov) = FindAdjacent(E, lv)
  BY <1>7 DEF Adjacencies
<1> HIDE DEF E, x, ou, ov, lu, lv, D, D2, a, b
<1>10. Turns(EndsAt(n), D2, Turned)
  <2>1. CASE n # a /\ n # b
    <3>1. EndsAt(n) = E
      BY <1>5, <2>1 DEF E, x
    <3> QED BY <1>3, <1>6, <3>1, SpreadSame
  <2>2. CASE n = a /\ n # b
    <3>1. EndsAt(n) = E \cup {e}
      BY <1>5, <2>2 DEF E, x
    <3>2. Leaving(E, e, D, ou) /\ Leaving(E, e, D2, lu)
      BY <1>2, <1>3, <1>4, <1>6, <3>1 DEF Leaving
    <3>3. FindAdjacent(E, ou) = FindAdjacent(E, lu)
      BY <1>9, <2>2
    <3> QED BY <1>3, <3>1, <3>2, <3>3, EndMoved
  <2>3. CASE n # a /\ n = b
    <3>1. EndsAt(n) = E \cup {x}
      BY <1>5, <2>3 DEF E, x
    <3>2. Leaving(E, x, D, ov) /\ Leaving(E, x, D2, lv)
      BY <1>2, <1>3, <1>4, <1>6, <3>1 DEF Leaving
    <3>3. FindAdjacent(E, ov) = FindAdjacent(E, lv)
      BY <1>9, <2>3
    <3> QED BY <1>3, <3>1, <3>2, <3>3, EndMoved
  <2>4. CASE n = a /\ n = b
    <3>1. EndsAt(n) = E \cup {e, x}
      BY <1>5, <2>4 DEF E, x
    <3>2. CASE E = {}
      <4>1. EndsAt(n) = {e, x}
        BY <3>1, <3>2
      <4>2. {e, x} \ {e} = {x} /\ {e, x} \ {x} = {e}
        BY <1>4
      <4>3. Turned[e] = x /\ Turned[x] = e
        BY <1>3, <1>4, <4>1, <4>2 DEF Turns, FirstAfter
      <4> QED BY <1>4, <4>1, <4>2, <4>3 DEF Turns, FirstAfter
    <3>3. CASE E # {}
      <4>1. LeavingTwice(E, e, x, D, ou, ov) /\ LeavingTwice(E, e, x, D2, lu, lv)
        BY <1>2, <1>3, <1>4, <1>6, <3>1, <3>3 DEF LeavingTwice
      <4>2. /\ FindAdjacentBut(E, ou, ov) = FindAdjacentBut(E, lu, lv)
            /\ FindAdjacentBut(E, ov, ou) = FindAdjacentBut(E, lv, lu)
        BY <1>8, <2>4
      <4>3. Turns(E \cup {e, x}, D, Turned)
        BY <1>3, <3>1
      <4>4. Turns(E \cup {e, x}, D2, Turned)
        BY ONLY <4>1, <4>2, <4>3, EndsMoved
      <4> QED BY <3>1, <4>4
    <3> QED BY <3>2, <3>3
  <2> QED BY <2>1, <2>2, <2>3, <2>4
<1> QED BY <1>2, <1>10 DEF D2

LEMMA ChangeEdgeGeomKeeps ==
  ASSUME TopoInv, NEW e \in edges, NEW l \in Curves, ChangeEdgeGeom(e, l)
  PROVE  Tables' /\ LabelsTypeOK' /\ Drawn' /\ Clockwise' /\ IsolatedAlone'
<1>1. Tables' /\ Drawn'
  BY ChangedDrawn
<1>2. /\ Darts(edges)' = Darts(edges) /\ \A n : EndsAt(n)' = EndsAt(n)
  BY ChangedEnds
<1>3. UNCHANGED <<nodes, pt, contFace, left, lastFace>> /\ DOMAIN mbr' = DOMAIN mbr
  BY DEF ChangeEdgeGeom, links, ReboxedFaces
<1>4. LabelsTypeOK'
  BY <1>2, <1>3 DEF TopoInv, LabelsTypeOK
<1>5. Clockwise'
  BY <1>3, ChangedTurns DEF Clockwise
<1>6. IsolatedAlone'
  BY <1>2, <1>3 DEF TopoInv, IsolatedAlone
<1> QED BY <1>1, <1>4, <1>5, <1>6

-----------------------------------------------------------------------------
(* The invariant *)

\* A topology of isolated nodes.
LEMMA InitTopo == Init => LinksInit /\ TopoInv
<1> SUFFICES ASSUME Init PROVE LinksInit /\ TopoInv
  OBVIOUS
<1>1. /\ lastNode = Len(LoadedNodes) /\ nodes = 1..lastNode
      /\ pt = [n \in nodes |-> LoadedNodes[n]] /\ contFace = [n \in nodes |-> 0]
      /\ edges = {} /\ lastEdge = 0
      /\ org = [d \in {} |-> 0] /\ next = [d \in {} |-> 0]
      /\ line = [d \in {} |-> 0] /\ left = [d \in {} |-> 0]
      /\ mbr = [f \in {} |-> 0] /\ lastFace = 0
  BY DEF Init
<1>2. /\ LoadedNodes \in Seq(Plane) /\ Len(LoadedNodes) <= MaxNode /\ MaxFace \in Nat
      /\ \A i, j \in DOMAIN LoadedNodes : LoadedNodes[i] = LoadedNodes[j] => i = j
  BY GeometryAssumption
<1>3. DOMAIN LoadedNodes = nodes /\ lastNode \in 0..MaxNode /\ \A n \in nodes : LoadedNodes[n] \in Plane
  BY <1>1, <1>2, BoundsAssumption
<1>4. LinksInit
  BY <1>1, <1>3 DEF LinksInit
<1>5. LinksInv
  BY <1>4, InitLinks
<1>6. Darts(edges) = {} /\ \A n : EndsAt(n) = {}
  BY <1>1 DEF Darts, EndsAt
<1>7. Tables
  BY <1>1, <1>3 DEF Tables
<1>8. LabelsTypeOK
  <2>1. left \in [Darts(edges) -> 0..lastFace]
    BY <1>1, <1>6
  <2>2. contFace \in [nodes -> -1..lastFace]
    <3>1. 0 \in -1..lastFace
      BY <1>1
    <3> QED BY <1>1, <3>1
  <2>3. DOMAIN mbr \subseteq 1..lastFace /\ lastFace \in 0..MaxFace
    BY <1>1, <1>2
  <2> QED BY <2>1, <2>2, <2>3 DEF LabelsTypeOK
<1>9. Drawn
  BY <1>1, <1>2, <1>3 DEF Drawn
<1>10. Clockwise
  BY <1>6 DEF Clockwise, Turns
<1>11. IsolatedAlone
  BY <1>1, <1>6 DEF IsolatedAlone
<1> QED BY <1>4, <1>5, <1>7, <1>8, <1>9, <1>10, <1>11 DEF TopoInv

\* A heal of the topology is one of the links, with lines and labels.
LEMMA HealsDone ==
  ASSUME NEW e1 \in edges, NEW e2 \in edges, Healable(e1, e2), NEW k,
         (k = e1 /\ UNCHANGED lastEdge) \/ (k = lastEdge + 1 /\ k <= MaxEdge /\ lastEdge' = k),
         \E p \in HealPaths(e1, e2) : Heal(p[1], p[2], e1, e2, k) /\ HealLabels(p[1], p[2], k)
  PROVE  \E f, l : HealDone(f, l, e1, e2, k)
<1>1. PICK p \in HealPaths(e1, e2) : Heal(p[1], p[2], e1, e2, k) /\ HealLabels(p[1], p[2], k)
  OBVIOUS
<1>2. /\ \/ p[1] = e1 /\ p[2] \in {e2, -e2}
         \/ p[1] \in {e2, -e2} /\ p[2] = e1
      /\ Meet(p[1], p[2])
  BY DEF HealPaths
<1>3. HealStep(p[1], p[2], e1, e2, k)
  BY <1>1, <1>2 DEF HealStep
<1> QED BY <1>1, <1>3 DEF HealDone

\* What every call does: the parts of TopoInv hold again, and the links make
\* a step of TopoLinks or none.
StepOK == /\ Tables' /\ LabelsTypeOK' /\ Drawn' /\ Clockwise' /\ IsolatedAlone'
          /\ [LinksNext]_links

LEMMA ModEdgeHealKeeps ==
  ASSUME TopoInv, NEW e1 \in edges, NEW e2 \in edges, ModEdgeHeal(e1, e2)
  PROVE  StepOK
<1>1. LinksModEdgeHeal(e1, e2)
  BY DEF ModEdgeHeal, LinksModEdgeHeal
<1>2. PICK f, l : HealDone(f, l, e1, e2, e1)
  <2>1. Healable(e1, e2) /\ UNCHANGED lastEdge
    BY DEF ModEdgeHeal
  <2>2. \E p \in HealPaths(e1, e2) : Heal(p[1], p[2], e1, e2, e1) /\ HealLabels(p[1], p[2], e1)
    BY DEF ModEdgeHeal
  <2> QED BY <2>1, <2>2, HealsDone
<1>3. Tables' /\ LabelsTypeOK' /\ Drawn' /\ Clockwise' /\ IsolatedAlone'
  BY <1>2, HealKeeps
<1> QED BY <1>1, <1>3 DEF StepOK, LinksNext, LinksNextButSplit

LEMMA NewEdgeHealKeeps ==
  ASSUME TopoInv, NEW e1 \in edges, NEW e2 \in edges, NewEdgeHeal(e1, e2)
  PROVE  StepOK
<1> DEFINE k == lastEdge + 1
<1>1. /\ Healable(e1, e2) /\ lastEdge < MaxEdge /\ lastEdge' = k
      /\ \E p \in HealPaths(e1, e2) : Heal(p[1], p[2], e1, e2, k) /\ HealLabels(p[1], p[2], k)
  BY DEF NewEdgeHeal
<1>2. LinksNewEdgeHeal(e1, e2)
  BY <1>1 DEF LinksNewEdgeHeal
<1>3. k <= MaxEdge
  BY <1>1, BoundsAssumption DEF TopoInv, LinksInv, LinksTypeOK
<1> HIDE DEF k
<1>4. PICK f, l : HealDone(f, l, e1, e2, k)
  <2>1. k = lastEdge + 1 /\ k <= MaxEdge /\ lastEdge' = k
    BY <1>1, <1>3 DEF k
  <2> QED BY <1>1, <2>1, HealsDone
<1>5. Tables' /\ LabelsTypeOK' /\ Drawn' /\ Clockwise' /\ IsolatedAlone'
  BY <1>4, HealKeeps
<1> QED BY <1>2, <1>5 DEF StepOK, LinksNext, LinksNextButSplit

\* Every call, also one that turns the walk around a face over (NextAnyChange).
LEMMA NextTopo ==
  ASSUME TopoInv, [NextAnyChange]_vars
  PROVE  TopoInv' /\ [LinksNext]_links
<1> SUFFICES StepOK
  <2>1. LinksInv
    BY DEF TopoInv
  <2> QED BY <2>1, NextLinks DEF StepOK, TopoInv
<1> USE DEF StepOK
<1>1. ASSUME NEW p \in Points, AddIsoNode(p) PROVE StepOK
  <2>1. LinksAddIsoNode
    BY <1>1 DEF AddIsoNode
  <2> QED BY <1>1, <2>1, AddIsoNodeKeeps DEF LinksNext, LinksNextButSplit
<1>2. ASSUME NEW n \in nodes, RemoveIsoNode(n) PROVE StepOK
  BY <1>2, NodeGone, RemoveIsoNodeKeeps DEF LinksNext, LinksNextButSplit
<1>3. ASSUME NEW n \in nodes, NEW p \in Points, MoveIsoNode(n, p) PROVE StepOK
  <2>1. UNCHANGED links
    BY <1>3 DEF MoveIsoNode
  <2> QED BY <1>3, <2>1, MoveIsoNodeKeeps
<1>4. ASSUME NEW a \in nodes, NEW b \in nodes, NEW l \in Curves, AddIsoEdge(a, b, l) PROVE StepOK
  BY <1>4, AddIsoEdgeKeeps DEF LinksNext, LinksNextButSplit
<1>5. ASSUME NEW a \in nodes, NEW b \in nodes, NEW l \in Curves, NEW newFaces \in BOOLEAN,
             AddEdge(a, b, l, newFaces)
      PROVE  StepOK
  <2>1. \E p \in AdjacentPairs(a, b) : LinksAddEdge(a, b, p[1], p[2])
    BY <1>5, AddEdgeKeeps
  <2>2. LinksNext
    BY <2>1 DEF LinksNext, LinksNextButSplit
  <2> QED BY <1>5, <2>2, AddEdgeKeeps
<1>6. ASSUME NEW e \in edges, NEW newFaces \in BOOLEAN, RemEdge(e, newFaces) PROVE StepOK
  BY <1>6, RemEdgeKeeps DEF LinksNext, LinksNextButSplit
<1>7. ASSUME NEW e \in edges, RemIsoEdge(e) PROVE StepOK
  BY <1>7, RemIsoEdgeKeeps DEF LinksNext, LinksNextButSplit
<1>8. ASSUME NEW e \in edges, NEW p \in Points, ModEdgeSplit(e, p) PROVE StepOK
  <2>1. LinksModEdgeSplit(e)
    BY <1>8 DEF ModEdgeSplit
  <2>2. SplitDone(e, e, lastEdge + 1, lastNode + 1, p)
    BY <1>8, ModEdgeSplitDone
  <2> QED BY <2>1, <2>2, SplitKeeps DEF LinksNext, LinksNextButSplit
<1>9. ASSUME NEW e \in edges, NEW p \in Points, NoRightReference(e), NewEdgesSplit(e, p) PROVE StepOK
  <2>1. LinksNewEdgesSplit(e)
    BY <1>9 DEF NewEdgesSplit
  <2>2. SplitDone(e, lastEdge + 1, lastEdge + 2, lastNode + 1, p)
    BY <1>9, NewEdgesSplitDone
  <2> QED BY <1>9, <2>1, <2>2, SplitKeeps DEF LinksNext
<1>10. ASSUME NEW e1 \in edges, NEW e2 \in edges, ModEdgeHeal(e1, e2) PROVE StepOK
  BY <1>10, ModEdgeHealKeeps
<1>11. ASSUME NEW e1 \in edges, NEW e2 \in edges, NewEdgeHeal(e1, e2) PROVE StepOK
  BY <1>11, NewEdgeHealKeeps
<1>12. ASSUME NEW e \in edges, NEW l \in Curves, ChangeEdgeGeom(e, l) PROVE StepOK
  <2>1. UNCHANGED links
    BY <1>12 DEF ChangeEdgeGeom
  <2> QED BY <1>12, <2>1, ChangeEdgeGeomKeeps
<1>13. ASSUME UNCHANGED vars PROVE StepOK
  <2>1. /\ UNCHANGED links /\ UNCHANGED <<nodes, edges, org, next, lastNode, lastEdge>>
        /\ UNCHANGED <<pt, contFace, line, left, mbr, lastFace>>
    BY <1>13 DEF vars, links, faceVars
  <2>2. /\ Darts(edges)' = Darts(edges) /\ (\A n : EndsAt(n)' = EndsAt(n))
        /\ Departs' = Departs /\ Turned' = Turned
    BY <2>1, SameEdges
  <2>3. Tables' /\ LabelsTypeOK' /\ Drawn'
    BY <2>1, <2>2 DEF TopoInv, Tables, LabelsTypeOK, Drawn
  <2>4. Clockwise' /\ IsolatedAlone'
    BY <2>1, <2>2 DEF TopoInv, Clockwise, IsolatedAlone
  <2> QED BY <2>1, <2>3, <2>4
<1> HIDE DEF StepOK
<1>14. CASE Next
  BY <1>14, <1>1, <1>2, <1>3, <1>4, <1>5, <1>6, <1>7, <1>8, <1>9, <1>10, <1>11, <1>12 DEF Next
<1>15. CASE \E e \in edges, l \in Curves : ChangeEdgeGeom(e, l)
  BY <1>12, <1>15
<1> QED BY <1>13, <1>14, <1>15 DEF NextAnyChange

\* The invariant holds, and what happens to the links is what TopoLinks does.
THEOREM SpecTopo == SpecAnyChange => []TopoInv /\ LinksSpec
<1>1. Init => LinksInit /\ TopoInv
  BY InitTopo
<1>2. TopoInv /\ [NextAnyChange]_vars => TopoInv' /\ [LinksNext]_links
  BY NextTopo
<1> QED BY <1>1, <1>2, PTL DEF SpecAnyChange, LinksSpec

\* Spec has fewer changes of lines than the code.
LEMMA SpecNarrows == Spec => SpecAnyChange
<1>1. [Next]_vars => [NextAnyChange]_vars
  BY DEF NextAnyChange
<1> QED BY <1>1, PTL DEF Spec, SpecAnyChange

\* Whatever the calls, edges start and end at their nodes, meet nowhere else, do
\* not meet themselves, and no node lies on another or inside of an edge: the
\* guards of lwt_AddIsoNode, _lwt_AddEdge, lwt_ChangeEdgeGeom and the others are
\* enough, and splits and heals keep what they made.
THEOREM PlanarCorrect == Spec => []Planar
<1>1. TopoInv => Planar
  BY PlanarMeaning
<1> QED BY <1>1, SpecTopo, SpecNarrows, PTL

\* Whatever the calls, each row has its geometry, and each face that an edge or
\* node refers to was drawn from the sequence.
THEOREM TablesCorrect == Spec => []TypeOK
<1>1. TopoInv => TypeOK
  BY PlanarMeaning
<1> QED BY <1>1, SpecTopo, SpecNarrows, PTL

\* Whatever the calls, next_left and next_right lead to the first edge clockwise
\* in the plane, although each call computes azimuths for the edge it works on
\* only and patches the links of at most two neighbours.
THEOREM ClockwiseCorrect == Spec => []NextIsClockwise
<1>1. TopoInv => NextIsClockwise
  BY ClockwiseMeaning
<1> QED BY <1>1, SpecTopo, SpecNarrows, PTL

\* What lwgeom_topo.c does to nodes and edges is what TopoLinks says: the corner
\* that azimuths choose is one of the node's, and a node with a containing_face
\* is one without edges.
THEOREM TopoLinksImplemented == Spec => ImplementsLinks
  BY SpecTopo, SpecNarrows, PTL DEF ImplementsLinks

\* The same when lwt_ChangeEdgeGeom makes every change that the code accepts: one
\* that turns the outline of a face over disturbs the faces (FacesOK), never the
\* drawing or the links.
THEOREM AnyChangeDrawn == SpecAnyChange => [](Planar /\ NextIsClockwise) /\ LinksSpec
<1>1. TopoInv => Planar /\ NextIsClockwise
  BY PlanarMeaning, ClockwiseMeaning
<1> QED BY <1>1, SpecTopo, PTL

=============================================================================
