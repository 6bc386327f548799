------------------------------- MODULE MCWkb -------------------------------
(***************************************************************************)
(* Geometries of every type, empty and not, in 2 to 4 dimensions, beside   *)
(* and inside each other to a depth of three.                              *)
(***************************************************************************)
EXTENDS Wkb

Dimensions == {<<FALSE, FALSE>>, <<TRUE, FALSE>>, <<FALSE, TRUE>>, <<TRUE, TRUE>>}

\* Point n; the ordinates of different dimensions differ.
P(n, d) == [k \in 1 .. NDims(d[1], d[2]) |-> n + 10 * k]

G(type, d, rings, geoms) == Geometry(type, 4326, d[1], d[2], rings, geoms)

Line(d) == G("Line", d, <<<<P(1, d), P(2, d)>>>>, <<>>)
Arc(d) == G("CircString", d, <<<<P(1, d), P(2, d), P(3, d)>>>>, <<>>)
Ring(d) == <<P(1, d), P(2, d), P(3, d), P(1, d)>>
Poly(d) == G("Polygon", d, <<Ring(d), Ring(d)>>, <<>>)
Tri(d) == G("Triangle", d, <<Ring(d)>>, <<>>)
Point(d) == G("Point", d, <<<<P(1, d)>>>>, <<>>)
NoPoint(d) == G("Point", d, <<<<>>>>, <<>>)
None2(type, d) == Empty(type, 4326, d[1], d[2])

\* Points of which not all ordinates are numbers, rings that are open or short.
Odd(d) == {G("Point", d, <<<<[P(1, d) EXCEPT ![1] = NaN]>>>>, <<>>),
           G("Point", d, <<<<[P(1, d) EXCEPT ![1] = NaN, ![2] = NaN]>>>>, <<>>),
           G("Line", d, <<<<P(1, d)>>>>, <<>>),
           G("CircString", d, <<<<P(1, d), P(2, d)>>>>, <<>>),
           G("Polygon", d, <<<<P(1, d), P(2, d), P(3, d), P(2, d)>>>>, <<>>),
           G("Polygon", d, <<Ring(d), <<P(1, d), P(1, d)>>>>, <<>>),
           G("Polygon", d, <<<<>>, Ring(d)>>, <<>>),
           G("Triangle", d, <<<<P(1, d), P(2, d), P(3, d), P(4, d)>>>>, <<>>)}

Nested(d) ==
    LET c(type, geoms) == G(type, d, <<>>, geoms)
        e == <<FALSE, FALSE>>
    IN  {c("MultiPoint", <<NoPoint(d), Point(d)>>), c("MultiLine", <<Line(d), None2("Line", d)>>),
         c("MultiPolygon", <<Poly(d)>>), c("Tin", <<Tri(d), Tri(d)>>),
         c("Compound", <<Line(d), Arc(d)>>), c("CurvePoly", <<c("Compound", <<Arc(d)>>), Line(d)>>),
         c("MultiCurve", <<c("Compound", <<Line(d)>>), Arc(d)>>),
         c("MultiSurface", <<c("CurvePoly", <<Arc(d)>>), Poly(d)>>),
         c("Collection", <<c("PolyhedralSurface", <<Poly(d)>>), Tri(d), Line(d)>>),
         c("Collection", <<c("MultiPoint", <<NoPoint(d)>>), c("Collection", <<>>)>>),
         c("Collection", <<c("Collection", <<None2("Polygon", d), Line(e)>>), Point(d), Arc(e)>>),
         c("MultiPoint", <<Line(d)>>)}

Simple(d) == {Line(d), Arc(d), Poly(d), Tri(d), Point(d)}
             \cup {None2(type, d) : type \in Types} \cup Odd(d)

Shapes == UNION {Simple(d) \cup Nested(d) : d \in Dimensions}

AllChecks == {"MINPOINTS", "ODD", "CLOSURE"}

\* A collection that cannot hold what it is said to, as a program might make it.
Improper(g) == g.type = "MultiPoint" /\ \E k \in DOMAIN g.geoms : g.geoms[k].type # "Point"

\* Numbers that are no SRID.
BadSrids == {Geometry("Line", s, FALSE, FALSE, Line(<<FALSE, FALSE>>).rings, <<>>) : s \in {-5, 1000500}}

\* Words of 16 bits, so that maxpoints is 2047.  Numbers of points whose bytes fit
\* into a word, and some whose bytes do not, in 2 to 4 dimensions.
MCUintMax == 65535

Claims == {5, 2047, 2048, 2731, 4096, 8191, 65535}

MCInputs ==
    LET proper == {g \in Shapes : ~Improper(g)}
    IN  {Input(g, form, ord, "plain", 0, {}) :
            g \in proper \cup {[g EXCEPT !.srid = 0] : g \in proper} \cup BadSrids,
            form \in {"iso", "sfsql", "extended"}, ord \in {NDR, XDR}}
        \cup {Input(g, "extended", ord, way, 0, {}) :
                g \in proper, ord \in {NDR, XDR}, way \in {"turned", "aged"}}
        \cup {Input(g, "extended", NDR, way, 0, {}) : g \in Shapes, way \in {"mark", "type"}}
        \cup {Input(g, "extended", NDR, "plain", 0, checks) :
                g \in Shapes, checks \in {AllChecks, {"CLOSURE"}, {"ZCLOSURE"}}}
        \cup {Overclaiming(g, ord, n) :
                g \in UNION {{Line(d), Poly(d), Tri(d), None2("Line", d)} : d \in Dimensions},
                ord \in {NDR, XDR}, n \in Claims}
        \cup {Input(g, form, NDR, "plain", missing, {}) :
                g \in Shapes, form \in {"iso", "extended"}, missing \in {1, 4, 9, 30, 77}}

=============================================================================
