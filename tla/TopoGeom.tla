------------------------------ MODULE TopoGeom ------------------------------
(***************************************************************************)
(* The plane geometry lwgeom_topo.c decides with, on integer coordinates   *)
(* where the code's floating point arithmetic is exact.                    *)
(*                                                                         *)
(* A point is a pair <<x, y>>, a line a sequence of at least two points,   *)
(* neighbours distinct (lwgeom_remove_repeated_points leaves no others).   *)
(***************************************************************************)
EXTENDS Integers, Sequences, FiniteSets, FiniteSetsExt, SequencesExt

Plane == Int \X Int

Segments(l) == 1..(Len(l) - 1)

Polylines == {l \in Seq(Plane) : Len(l) >= 2 /\ \A i \in Segments(l) : l[i] # l[i + 1]}

Ends(l) == {Head(l), Last(l)}

\* Twice the area of the triangle a, b, p: positive when p is on the left
\* of the way from a to b.
Cross(a, b, p) ==
  (b[1] - a[1]) * (p[2] - a[2]) - (b[2] - a[2]) * (p[1] - a[1])

\* p lies on the segment from a to b, which has a length.
Between(p, a, b) ==
  /\ Cross(a, b, p) = 0
  /\ (p[1] - a[1]) * (p[1] - b[1]) <= 0
  /\ (p[2] - a[2]) * (p[2] - b[2]) <= 0

OnLine(p, l) == \E i \in Segments(l) : Between(p, l[i], l[i + 1])

-----------------------------------------------------------------------------
(* Crossings *)

\* The segments cross inside both of them.
CrossInside(a, b, c, d) ==
  /\ Cross(a, b, c) * Cross(a, b, d) < 0
  /\ Cross(c, d, a) * Cross(c, d, b) < 0

\* The segments share more than a point.
Overlap(a, b, c, d) ==
  LET along(p) == (b[1] - a[1]) * (p[1] - a[1]) + (b[2] - a[2]) * (p[2] - a[2])
  IN  /\ Cross(a, b, c) = 0 /\ Cross(a, b, d) = 0
      /\ Max({0, Min({along(c), along(d)})})
           < Min({along(b), Max({along(c), along(d)})})

\* GEOSRelateBoundaryNodeRule finds a common point of the interiors, where
\* the ends of a line, closed or not, are its boundary.
InteriorsMeet(l, m) ==
  \/ \E i \in Segments(l), j \in Segments(m) :
       \/ CrossInside(l[i], l[i + 1], m[j], m[j + 1])
       \/ Overlap(l[i], l[i + 1], m[j], m[j + 1])
  \/ \E i \in 1..Len(l) :
       l[i] \notin Ends(l) \cup Ends(m) /\ OnLine(l[i], m)
  \/ \E j \in 1..Len(m) :
       m[j] \notin Ends(l) \cup Ends(m) /\ OnLine(m[j], l)

\* lwgeom_is_simple: a line meets itself only in its ends.
IsSimple(l) ==
  \A i, j \in Segments(l) : i < j =>
    /\ ~ CrossInside(l[i], l[i + 1], l[j], l[j + 1])
    /\ ~ Overlap(l[i], l[i + 1], l[j], l[j + 1])
    /\ j > i + 1 =>
         \A p \in {l[i], l[i + 1], l[j], l[j + 1]} :
           Between(p, l[i], l[i + 1]) /\ Between(p, l[j], l[j + 1])
             => i = 1 /\ j = Len(l) - 1 /\ p \in Ends(l) /\ Head(l) = Last(l)

-----------------------------------------------------------------------------
(* Directions *)

Direction(a, b) == <<b[1] - a[1], b[2] - a[2]>>

Det(u, v) == u[1] * v[2] - u[2] * v[1]

\* The quarter turns that the clockwise angle from u to v exceeds, 0, 1, 2
\* or 3 as the angle is nil, less than, equal to or greater than half a turn.
Sector(u, v) ==
  IF Det(u, v) = 0
  THEN IF u[1] * v[1] + u[2] * v[2] > 0 THEN 0 ELSE 2
  ELSE IF Det(u, v) < 0 THEN 1 ELSE 3

\* From direction u, turning clockwise, v comes before w.
ClockwiseBefore(u, v, w) ==
  \/ Sector(u, v) < Sector(u, w)
  \/ Sector(u, v) = Sector(u, w) /\ Sector(u, v) \in {1, 3} /\ Det(v, w) < 0

\* The direction in which a line leaves its first point.
Departure(l) == Direction(l[1], l[2])

-----------------------------------------------------------------------------
(* Areas and containment *)

\* ptarray_signed_area: twice the area on the right of a line, which makes
\* the area of a ring when its lines are summed up.
SignedArea(l) ==
  MapThenSumSet(LAMBDA i : l[i + 1][1] * l[i][2] - l[i][1] * l[i + 1][2],
                Segments(l))

\* Segments of l right of p that go up, and that go down.
Rising(p, l) ==
  {i \in Segments(l) : /\ l[i][2] <= p[2] /\ p[2] < l[i + 1][2]
                       /\ Cross(l[i], l[i + 1], p) > 0}

Falling(p, l) ==
  {i \in Segments(l) : /\ l[i + 1][2] <= p[2] /\ p[2] < l[i][2]
                       /\ Cross(l[i], l[i + 1], p) < 0}

\* The winding number that ptarray_contains_point_partial counts.
Winding(p, l) == Cardinality(Rising(p, l)) - Cardinality(Falling(p, l))

\* ptarray_contains_point_partial answers LW_INSIDE, for an open line too.
Inside(l, p) == ~ OnLine(p, l) /\ Winding(p, l) # 0

\* _lwt_GetInteriorEdgePoint
InteriorPoint(l) ==
  LET inner == {i \in 2..(Len(l) - 1) : l[i] \notin Ends(l)}
  IN  IF inner # {} THEN l[Min(inner)]
      ELSE <<(Head(l)[1] + Last(l)[1]) \div 2,
             (Head(l)[2] + Last(l)[2]) \div 2>>

-----------------------------------------------------------------------------
(* Boxes *)

Box(points) ==
  LET xs == {p[1] : p \in points}
      ys == {p[2] : p \in points}
  IN  [xmin |-> Min(xs), ymin |-> Min(ys), xmax |-> Max(xs), ymax |-> Max(ys)]

\* gbox_merge
BoxUnion(b, c) ==
  [xmin |-> Min({b.xmin, c.xmin}), ymin |-> Min({b.ymin, c.ymin}),
   xmax |-> Max({b.xmax, c.xmax}), ymax |-> Max({b.ymax, c.ymax})]

-----------------------------------------------------------------------------
(* Splitting a line *)

\* lwline_split_by_point_to at a point p of the line that is not an end.
HeadTo(l, p) ==
  LET i == Min({j \in Segments(l) : Between(p, l[j], l[j + 1])})
  IN  Append(SubSeq(l, 1, i), p)

TailFrom(l, p) == Reverse(HeadTo(Reverse(l), p))

\* ptarray_append_ptarray: the second line starts where the first ends.
Joined(l, m) == l \o Tail(m)

=============================================================================
