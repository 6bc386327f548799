------------------------------- MODULE MCTwkb -------------------------------
(***************************************************************************)
(* Geometries in tenths, with a digit of eight values in a byte: points    *)
(* that rounding brings together, at the start, at the end and all of      *)
(* them; rings of as many points as one byte counts, and one more; empty   *)
(* holes and members; collections in collections; two to four dimensions.  *)
(***************************************************************************)
EXTENDS Twkb

Deep(pt, z, m) == pt \o (IF z THEN <<pt[1] - 13>> ELSE <<>>) \o (IF m THEN <<70>> ELSE <<>>)
Ring(pts, z, m) == [i \in DOMAIN pts |-> Deep(pts[i], z, m)]
G(type, z, m, rings) == Geometry(type, 0, z, m, [i \in DOMAIN rings |-> Ring(rings[i], z, m)], <<>>)
C(type, geoms) == Geometry(type, 0, geoms[1].z, geoms[1].m, <<>>, geoms)

Shell == <<<<0, 0>>, <<104, -3>>, <<107, 2>>, <<105, 95>>, <<0, 0>>>>
Hole == <<<<31, 31>>, <<34, 31>>, <<34, 34>>, <<31, 31>>>>
Walk(n) == [i \in 1..n |-> <<11 * i, -4 * i>>]

Of(z, m) ==
  LET point == G("Point", z, m, <<<<<<-15, 25>>>>>>)
      other == G("Point", z, m, <<<<<<204, 3>>>>>>)
      none == Empty("Point", 0, z, m)
      pierced == G("Polygon", z, m, <<Shell, <<>>, Hole>>)
      line == G("Line", z, m, <<<<<<4, 4>>, <<-4, -4>>, <<5, 5>>, <<46, 5>>, <<51, 14>>>>>>)
      poly == G("Polygon", z, m, <<Shell, Hole>>)
      triangle == G("Triangle", z, m, <<<<<<0, 0>>, <<300, 0>>, <<200, 400>>, <<0, 0>>>>>>)
      small == G("Triangle", z, m, <<Hole>>)
  IN  {point, line, poly, pierced, triangle, small, none, Empty("Polygon", 0, z, m),
       G("Line", z, m, <<Walk(7)>>), G("Line", z, m, <<Walk(8)>>),
       G("Line", z, m, <<Walk(4) \o <<Walk(4)[4], Walk(4)[4], Walk(5)[5], Walk(6)[6], Walk(6)[6]>>>>),
       C("MultiPoint", <<point, none, point, other>>), C("MultiPoint", <<none>>),
       C("MultiLine", <<line, Empty("Line", 0, z, m), line>>), C("MultiPolygon", <<poly, poly>>),
       C("MultiPolygon", <<pierced, poly>>),
       C("Tin", <<triangle, small>>), C("Compound", <<line>>),
       C("Collection", <<C("Collection", <<other, none>>), C("MultiPoint", <<point, none>>), line>>),
       C("Collection", <<none, C("Collection", <<none>>)>>)}

MCSources == Of(FALSE, FALSE) \cup Of(FALSE, TRUE) \cup {g \in Of(TRUE, TRUE) : g.type \notin MultiTypes}

MCPrecisions == {[xy |-> -1, z |-> 1, m |-> 0], [xy |-> 0, z |-> 0, m |-> 1], [xy |-> 1, z |-> 1, m |-> 8]}

=============================================================================
