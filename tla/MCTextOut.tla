----------------------------- MODULE MCTextOut -----------------------------
(***************************************************************************)
(* Geometries of every type in two and three dimensions and with measures, *)
(* with numbers at both ends of what is printed without an exponent.       *)
(***************************************************************************)
EXTENDS TextOut

\* 0, 0.5, 12.345678901, 123456789012345.125, 1.5e20, 1.25e21
MCDigits == 0 :> [ndd |-> 0, dec |-> 0] @@ 1 :> [ndd |-> 0, dec |-> 1] @@ 2 :> [ndd |-> 2, dec |-> 9]
              @@ 3 :> [ndd |-> 15, dec |-> 3] @@ 4 :> [ndd |-> 21, dec |-> 1] @@ 5 :> [ndd |-> 22, dec |-> 2]

Simple(type, z, m, rings) == Geometry(type, 0, z, m, rings, <<>>)
Whole(type, geoms) == Geometry(type, 0, geoms[1].z, geoms[1].m, <<>>, geoms)
None(type) == Empty(type, 0, FALSE, FALSE)

Deep(ring, dims) == [i \in DOMAIN ring |-> ring[i] \o SubSeq(<<-3, 1>>, 1, dims)]
Of(type, dims, rings) == Simple(type, dims > 0, dims > 1, [i \in DOMAIN rings |-> Deep(rings[i], dims)])

Path == <<<<-3, -3>>, <<2, -2>>, <<0, 3>>>>
Round == <<<<-3, -3>>, <<3, -3>>, <<0, 3>>, <<-3, -3>>>>
Hole == <<<<0, -1>>, <<1, 1>>, <<-1, 2>>, <<0, -1>>>>

OfDims(dims) ==
  LET point == Of("Point", dims, <<<<<<-3, 2>>>>>>)
      line == Of("Line", dims, <<Path>>)
      loop == Of("Line", dims, <<Round>>)
      poly == Of("Polygon", dims, <<Round, Hole>>)
      plain == Of("Polygon", dims, <<Round>>)
      arc == Of("CircString", dims, <<Path>>)
      triangle == Of("Triangle", dims, <<Hole>>)
      compound == Whole("Compound", <<line, arc>>)
      curved == Whole("CurvePoly", <<arc, loop, compound>>)
  IN  {point, line, poly, arc, triangle, compound, curved,
       Whole("MultiPoint", <<point, point>>), Whole("MultiLine", <<loop, line, loop>>),
       Whole("MultiPolygon", <<plain, poly, plain>>), Whole("Tin", <<triangle, triangle>>),
       Whole("PolyhedralSurface", <<plain, plain>>), Whole("PolyhedralSurface", <<poly, plain>>),
       Whole("MultiCurve", <<line, arc, compound>>), Whole("MultiSurface", <<poly, curved>>),
       Whole("Collection", <<point, poly, Whole("MultiLine", <<line, loop>>)>>),
       Whole("Collection", <<line, Whole("Collection", <<poly, point>>)>>),
       Whole("Collection", <<Whole("Collection", <<Whole("Collection", <<line, poly>>)>>)>>),
       Whole("Collection", <<line, compound>>),
       Whole("Collection", <<triangle, Whole("Tin", <<triangle>>)>>)}

MCGeometries ==
  OfDims(0) \cup OfDims(1) \cup OfDims(2)
    \cup {None(t) : t \in {"Point", "Line", "Polygon", "MultiPoint", "Collection"}}
    \cup {Whole("MultiPoint", <<None("Point"), Of("Point", 0, <<<<<<3, -3>>>>>>)>>),
          Whole("Collection", <<Of("Point", 0, <<<<<<1, 1>>>>>>), None("Polygon")>>),
          Of("Line", 0, <<<<<<4, 5>>, <<-4, -5>>>>>>)}

Plainly == [precision |-> 1, prefix |-> 0, srs |-> NoName, id |-> NoName,
            dims |-> FALSE, short |-> FALSE, degree |-> FALSE, relative |-> FALSE, bbox |-> FALSE]
MCOptions ==
  {Plainly,
   [Plainly EXCEPT !.precision = 0, !.short = TRUE, !.relative = TRUE, !.bbox = TRUE],
   [Plainly EXCEPT !.precision = 8, !.prefix = 4, !.degree = TRUE, !.dims = TRUE, !.short = TRUE],
   [Plainly EXCEPT !.precision = 15, !.prefix = 4, !.srs = 9, !.id = 3, !.dims = TRUE, !.bbox = TRUE],
   [Plainly EXCEPT !.precision = 15, !.srs = 0, !.id = 0, !.degree = TRUE, !.relative = TRUE]}

=============================================================================
