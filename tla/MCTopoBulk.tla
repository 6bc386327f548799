----------------------------- MODULE MCTopoBulk -----------------------------
(***************************************************************************)
(* Nested squares, one of them beside a corner of another, lines that run  *)
(* across and along them, and a polygon with a hole.                       *)
(***************************************************************************)
EXTENDS TopoBulk

Square(x, y, side) ==
  <<<<x, y>>, <<x + side, y>>, <<x + side, y + side>>, <<x, y + side>>, <<x, y>>>>

Outer == Square(0, 0, 12)
Inner == Reverse(Square(2, 2, 6))
Core == Square(4, 4, 2)
Knot == <<<<2, 4>>, <<10, 4>>, <<10, 8>>, <<6, 8>>, <<6, 2>>>>

MCLines == {Outer, Inner, Core, Knot}
MCPolygons == {<<Outer, Inner>>, <<Square(0, 0, 4)>>}
MCPlaces == {<<3, 6>>, <<4, 4>>, <<5, 5>>, <<12, 3>>, <<10, 6>>}
MCSpots == {<<<<4, 4>>, 0>>, <<<<11, 10>>, 0>>, <<<<10, 10>>, 4>>}
MCNone == {}
MCNoNodes == <<>>

=============================================================================
