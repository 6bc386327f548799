---------------------------- MODULE MCSerialized ----------------------------
(***************************************************************************)
(* Geometries of every layout in two to four dimensions: one and two       *)
(* rings, empty members, polygons of empty rings, nested collections, what *)
(* is peeked at and what is just too large for it; some with one middle    *)
(* and different bytes.                                                    *)
(***************************************************************************)
EXTENDS Serialized

Deep(pt, z, m) == pt \o When(z, <<pt[1] + 1>>) \o When(m, <<7>>)
Simple(type, z, m, rings) ==
  Geometry(type, 0, z, m, [i \in DOMAIN rings |-> [j \in DOMAIN rings[i] |-> Deep(rings[i][j], z, m)]], <<>>)
Whole(type, geoms) == Geometry(type, 0, geoms[1].z, geoms[1].m, <<>>, geoms)

Path == <<<<1, 2>>, <<3, 5>>>>
Bend == <<<<1, 2>>, <<3, 4>>, <<5, 3>>>>
Shell == <<<<1, 1>>, <<8, 1>>, <<8, 9>>, <<1, 1>>>>
Hole == <<<<5, 3>>, <<7, 3>>, <<7, 6>>, <<5, 3>>>>

Of(z, m) ==
  LET point == Simple("Point", z, m, <<<<<<1, 2>>>>>>)
      none == Empty("Point", 0, z, m)
      line == Simple("Line", z, m, <<Path>>)
      bend == Simple("Line", z, m, <<Bend>>)
      poly == Simple("Polygon", z, m, <<Shell>>)
      holed == Simple("Polygon", z, m, <<Shell, Hole>>)
      arc == Simple("CircString", z, m, <<Path \o <<<<5, 8>>>>>>)
      triangle == Simple("Triangle", z, m, <<Hole>>)
      hollow == Simple("Polygon", z, m, <<<<>>>>)
  IN  {point, none, line, bend, poly, holed, arc, triangle, hollow,
       Whole("MultiPoint", <<point>>), Whole("MultiPoint", <<none>>), Whole("MultiPoint", <<none, point>>),
       Whole("MultiLine", <<line>>), Whole("MultiLine", <<bend>>), Whole("MultiLine", <<line, line>>),
       Whole("MultiPolygon", <<poly, holed>>), Whole("Tin", <<triangle>>),
       Whole("CurvePoly", <<arc, bend>>), Whole("MultiSurface", <<poly, Whole("CurvePoly", <<arc>>)>>),
       Whole("Compound", <<line, arc>>), Empty("Collection", 0, z, m), Empty("Polygon", 0, z, m),
       Whole("Collection", <<Whole("MultiPoint", <<none, none>>), Whole("Collection", <<none, holed>>)>>),
       Whole("Collection", <<none, Simple("Polygon", z, m, <<<<>>, <<>>>>)>>),
       Whole("MultiPolygon", <<hollow, poly>>),
       Whole("Collection", <<none, Whole("Collection", <<Empty("Polygon", 0, z, m)>>)>>)}

\* A point and what has its middle: in other dimensions, twice, in a collection.
MCCompared ==
  LET point(z) == Simple("Point", z, FALSE, <<<<<<1, 2>>>>>>)
  IN  {Lw(g, FALSE, FALSE, NoBox) :
         g \in {point(FALSE), point(TRUE), Whole("MultiPoint", <<point(FALSE)>>),
               Empty("Point", 0, TRUE, FALSE), Simple("Line", FALSE, FALSE, <<Bend>>),
               Simple("Line", FALSE, FALSE, <<Reverse(Bend)>>)}}

MCSources ==
  MCCompared \cup
  {Lw(g, FALSE, FALSE, NoBox) : g \in Of(FALSE, FALSE) \cup Of(TRUE, FALSE) \cup Of(FALSE, TRUE) \cup Of(TRUE, TRUE)}
    \cup {Lw(g, TRUE, FALSE, NoBox) : g \in Of(FALSE, FALSE) \cup Of(TRUE, TRUE)}
    \cup {Lw(g, FALSE, TRUE, NoBox) : g \in Of(TRUE, FALSE)}

MCFewSrids == {5, 7}
MCSrids == {-1, 4326, 1200300}

=============================================================================
