-------------------------------- MODULE MCWkt --------------------------------
(***************************************************************************)
(* One or more geometries of every type in two to four dimensions: whole,  *)
(* empty, with empty parts, too short, open, open in the third ordinate    *)
(* only, curves that join up and curves that do not.  Those in the plane   *)
(* and those with a measure are hurt at every token.  Last come texts that *)
(* no writer makes.                                                        *)
(***************************************************************************)
EXTENDS Wkt

Deep(x, y, t, z, m) == <<x, y>> \o (IF z THEN <<t>> ELSE <<>>) \o (IF m THEN <<t>> ELSE <<>>)

Ring(z, m) == <<Deep(0, 0, 5, z, m), Deep(4, 0, 6, z, m), Deep(0, 4, 7, z, m), Deep(0, 0, 5, z, m)>>
\* Closed in the plane, open in the third ordinate.
Rising(z, m) == [Ring(z, m) EXCEPT ![4] = Deep(0, 0, 9, z, m)]
Arc(z, m) == SubSeq(Ring(z, m), 1, 3)
Back(z, m) == <<Deep(0, 4, 7, z, m), Deep(0, 0, 5, z, m)>>

\* Geometries without and with an empty part, with and without a fault.
Of(z, m) ==
  LET g(type, parts) == Geom(type, z, m, parts)
      point == g("POINT", <<Deep(3, 2, 1, z, m)>>)
      noPoint == g("POINT", <<>>)
      line == g("LINESTRING", Back(z, m))
      noLine == g("LINESTRING", <<>>)
      ringLine == g("LINESTRING", Ring(z, m))
      arc == g("CIRCULARSTRING", Arc(z, m))
      poly == g("POLYGON", <<Ring(z, m), Ring(z, m)>>)
      noPoly == g("POLYGON", <<>>)
      rising == g("POLYGON", <<Rising(z, m)>>)
      triangle == g("TRIANGLE", Ring(z, m))
      steep == g("TRIANGLE", Rising(z, m))
      compound == g("COMPOUNDCURVE", <<arc, line>>)
      curvePoly == g("CURVEPOLYGON", <<compound, ringLine>>)
  IN  {point, noPoint, line, noLine, ringLine, g("LINESTRING", <<Deep(3, 2, 1, z, m)>>),
       arc, g("CIRCULARSTRING", Back(z, m)), g("CIRCULARSTRING", Ring(z, m)),
       poly, noPoly, rising, g("POLYGON", <<Ring(z, m), <<>>>>), g("POLYGON", <<<<>>, Ring(z, m)>>),
       g("POLYGON", <<Arc(z, m)>>), g("POLYGON", <<Ring(z, m), Arc(z, m) \o Arc(z, m)>>), g("POLYGON", <<Back(z, m) \o Back(z, m) \o Arc(z, m)>>),
       triangle, steep, g("TRIANGLE", <<>>), g("TRIANGLE", Arc(z, m)),
       compound, g("COMPOUNDCURVE", <<line, arc, line>>), g("COMPOUNDCURVE", <<arc, arc>>),
       g("COMPOUNDCURVE", <<noLine, line>>), g("COMPOUNDCURVE", <<line, noLine>>),
       curvePoly, g("CURVEPOLYGON", <<noLine>>), g("CURVEPOLYGON", <<arc>>),
       g("CURVEPOLYGON", <<g("LINESTRING", Rising(z, m))>>),
       g("MULTIPOINT", <<point, noPoint, point>>), g("MULTIPOINT", <<noPoint, point>>),
       g("MULTILINESTRING", <<line, noLine>>), g("MULTIPOLYGON", <<noPoly, poly>>), g("MULTIPOLYGON", <<rising>>),
       g("MULTICURVE", <<line, arc, compound>>), g("MULTISURFACE", <<poly, curvePoly>>), g("MULTISURFACE", <<>>),
       g("TIN", <<triangle, g("TRIANGLE", <<>>)>>), g("TIN", <<steep>>),
       g("POLYHEDRALSURFACE", <<poly>>), g("POLYHEDRALSURFACE", <<rising>>), g("POLYHEDRALSURFACE", <<poly, noPoly>>),
       g("GEOMETRYCOLLECTION", <<g("GEOMETRYCOLLECTION", <<noPoint, point>>), g("MULTIPOINT", <<point>>), line>>),
       g("GEOMETRYCOLLECTION", <<noPoly>>)}

Intact == [kind |-> "none", at |-> 0]
Source(g, s, variant, check, hurt) ==
  [is |-> "source", geom |-> g, srid |-> s, variant |-> variant, check |-> check, hurt |-> hurt,
   text |-> TextOf(g, s, variant, hurt)]

Hurts(g, variant) == [kind : {"cut", "drop", "double"}, at : DOMAIN LwgeomToWkt(g, 0, variant)]

\* What is hurt at every token, one of every kind of construct.
Fragile(z, m) == {g \in Of(z, m) : Len(GeomToWkt(g, "ISO")) \in 5..30}

\* Texts no writer makes: letters that reach below the members they are compared with, and
\* a ring that closes only without its third ordinate.
Strange ==
  LET xyz == Letters(TRUE, FALSE)
      point(pt) == <<Tok("POINT")>> \o PtarrayToWkt(<<pt>>, "ISO", TRUE)
      members == Comma \o point(<<1, 2>>)
  IN  {<<Tok("GEOMETRYCOLLECTION"), xyz>>
         \o Bracketed(<<Tok("GEOMETRYCOLLECTION")>> \o Bracketed(point(<<1, 2, 3>>) \o members)),
       <<Tok("GEOMETRYCOLLECTION"), xyz>> \o Bracketed(point(<<1, 2, 3>>) \o members),
       <<Tok("CURVEPOLYGON"), xyz>>
         \o Bracketed(<<Tok("LINESTRING"), Letters(FALSE, TRUE)>>
                         \o PtarrayToWkt(Rising(TRUE, FALSE), "ISO", TRUE))}

MCSources ==
  LET all == UNION {Of(z, m) : z, m \in BOOLEAN}
  IN  {Source(g, 0, "ISO", check, Intact) : g \in all, check \in {{}, AllChecks}}
      \cup {Source(g, 4326, "EXTENDED", AllChecks, Intact) : g \in all}
      \cup {Source(g, 0, "SFSQL", AllChecks, Intact) : g \in Of(TRUE, TRUE)}
      \cup {Source(Geom("POINT", FALSE, FALSE, <<>>), s, "EXTENDED", {}, Intact) : s \in {999998, 999999}}
      \cup UNION {{Source(g, 0, "ISO", AllChecks, hurt) : hurt \in Hurts(g, "ISO")} : g \in Fragile(FALSE, FALSE) \cup Fragile(FALSE, TRUE)}
      \cup {[Source(Geom("POINT", FALSE, FALSE, <<>>), 0, "ISO", AllChecks, [kind |-> "written", at |-> 0])
               EXCEPT !.text = tokens] : tokens \in Strange}

=============================================================================
