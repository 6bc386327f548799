------------------------------- MODULE WktOut -------------------------------
(***************************************************************************)
(* The writer of well-known text.  The text is a sequence of the tokens    *)
(* the lexer finds in it: a word, a bracket or a comma, the letters of the *)
(* dimensions, or a number, which is shown with enough digits to be read   *)
(* back.                                                                   *)
(*                                                                         *)
(* A geometry has a type, the flags for Z and M, and parts: points for the *)
(* types that have one array of points, rings of points for a polygon,     *)
(* geometries for all others.  A point is a sequence of its ordinates.     *)
(***************************************************************************)
EXTENDS Integers, SequencesExt

ArrayTypes == {"POINT", "LINESTRING", "CIRCULARSTRING", "TRIANGLE"}

Geom(type, z, m, parts) == [type |-> type, z |-> z, m |-> m, parts |-> parts]

Tok(t) == [t |-> t, v |-> 0]
Number(n) == [t |-> "DOUBLE", v |-> n]
SridToken(n) == [t |-> "SRID", v |-> n]

\* The letters of the dimensions: Z is 1, M is 2, ZM is 3.
Letters(z, m) == [t |-> "DIMENSIONALITY", v |-> (IF z THEN 1 ELSE 0) + (IF m THEN 2 ELSE 0)]

Comma == <<Tok(",")>>
Bracketed(tokens) == <<Tok("(")>> \o tokens \o <<Tok(")")>>

\* Sequences of tokens one after another, with commas between them.
Listed(seqs) == FlattenSeq([i \in DOMAIN seqs |-> IF i = 1 THEN seqs[i] ELSE Comma \o seqs[i]])

\* lwpoly_is_empty goes by the first ring; the writers of the others count their parts.
ShownEmpty(g) == g.parts = <<>> \/ (g.type = "POLYGON" /\ g.parts[1] = <<>>)

-----------------------------------------------------------------------------

\* ISO names all dimensions beyond two, the extended form only an M without Z.
DimensionQualifiers(g, variant) ==
  IF (variant = "EXTENDED" /\ g.m /\ ~ g.z) \/ (variant = "ISO" /\ (g.z \/ g.m))
  THEN <<Letters(g.z, g.m)>> ELSE <<>>

EmptyToWkt == <<Tok("EMPTY")>>

\* SFSQL has no more than two dimensions.
PtarrayToWkt(pts, variant, parens) ==
  LET shown(pt) == IF variant = "SFSQL" THEN SubSeq(pt, 1, 2) ELSE pt
      coordinates ==
        Listed([i \in DOMAIN pts |-> [k \in DOMAIN shown(pts[i]) |-> Number(pts[i][k])]])
  IN  IF parens THEN Bracketed(coordinates) ELSE coordinates

\* What every writer begins with, and what follows unless there is nothing to show.
Named(g, variant, named, body) ==
  (IF named THEN <<Tok(g.type)>> \o DimensionQualifiers(g, variant) ELSE <<>>)
    \o (IF ShownEmpty(g) THEN EmptyToWkt ELSE body)

LwpointToWkt(g, variant, parens, named) ==
  Named(g, variant, named, PtarrayToWkt(g.parts, variant, parens))

LwlineToWkt(g, variant, named) == Named(g, variant, named, PtarrayToWkt(g.parts, variant, TRUE))

LwcircstringToWkt(g, variant) == Named(g, variant, TRUE, PtarrayToWkt(g.parts, variant, TRUE))

LwtriangleToWkt(g, variant, named) ==
  Named(g, variant, named, Bracketed(PtarrayToWkt(g.parts, variant, TRUE)))

LwpolyToWkt(g, variant, named) ==
  Named(g, variant, named,
        Bracketed(Listed([i \in DOMAIN g.parts |-> PtarrayToWkt(g.parts[i], variant, TRUE)])))

\* A geometry of geometries, each written by Member.
Collected(g, variant, Member(_)) ==
  Named(g, variant, TRUE, Bracketed(Listed([i \in DOMAIN g.parts |-> Member(g.parts[i])])))

\* The points of a multipoint have no brackets of their own.
LwmpointToWkt(g, variant) ==
  Collected(g, variant, LAMBDA part : LwpointToWkt(part, variant, FALSE, FALSE))

LwmlineToWkt(g, variant) == Collected(g, variant, LAMBDA part : LwlineToWkt(part, variant, FALSE))

LwmpolyToWkt(g, variant) == Collected(g, variant, LAMBDA part : LwpolyToWkt(part, variant, FALSE))

LwtinToWkt(g, variant) == Collected(g, variant, LAMBDA part : LwtriangleToWkt(part, variant, FALSE))

LwpsurfaceToWkt(g, variant) == Collected(g, variant, LAMBDA part : LwpolyToWkt(part, variant, FALSE))

\* Among curves only a line goes without its name.
LwcompoundToWkt(g, variant) ==
  Collected(g, variant, LAMBDA part :
    IF part.type = "LINESTRING" THEN LwlineToWkt(part, variant, FALSE) ELSE LwcircstringToWkt(part, variant))

CurveToWkt(part, variant) ==
  CASE part.type = "LINESTRING" -> LwlineToWkt(part, variant, FALSE)
    [] part.type = "CIRCULARSTRING" -> LwcircstringToWkt(part, variant)
    [] part.type = "COMPOUNDCURVE" -> LwcompoundToWkt(part, variant)

LwcurvepolyToWkt(g, variant) == Collected(g, variant, LAMBDA part : CurveToWkt(part, variant))

LwmcurveToWkt(g, variant) == Collected(g, variant, LAMBDA part : CurveToWkt(part, variant))

LwmsurfaceToWkt(g, variant) ==
  Collected(g, variant, LAMBDA part :
    IF part.type = "POLYGON" THEN LwpolyToWkt(part, variant, FALSE) ELSE LwcurvepolyToWkt(part, variant))

RECURSIVE GeomToWkt(_, _)

LwcollectionToWkt(g, variant) == Collected(g, variant, LAMBDA part : GeomToWkt(part, variant))

\* lwgeom_to_wkt_sb
GeomToWkt(g, variant) ==
  CASE g.type = "POINT" -> LwpointToWkt(g, variant, TRUE, TRUE)
    [] g.type = "LINESTRING" -> LwlineToWkt(g, variant, TRUE)
    [] g.type = "POLYGON" -> LwpolyToWkt(g, variant, TRUE)
    [] g.type = "MULTIPOINT" -> LwmpointToWkt(g, variant)
    [] g.type = "MULTILINESTRING" -> LwmlineToWkt(g, variant)
    [] g.type = "MULTIPOLYGON" -> LwmpolyToWkt(g, variant)
    [] g.type = "GEOMETRYCOLLECTION" -> LwcollectionToWkt(g, variant)
    [] g.type = "CIRCULARSTRING" -> LwcircstringToWkt(g, variant)
    [] g.type = "COMPOUNDCURVE" -> LwcompoundToWkt(g, variant)
    [] g.type = "CURVEPOLYGON" -> LwcurvepolyToWkt(g, variant)
    [] g.type = "MULTICURVE" -> LwmcurveToWkt(g, variant)
    [] g.type = "MULTISURFACE" -> LwmsurfaceToWkt(g, variant)
    [] g.type = "TRIANGLE" -> LwtriangleToWkt(g, variant, TRUE)
    [] g.type = "TIN" -> LwtinToWkt(g, variant)
    [] g.type = "POLYHEDRALSURFACE" -> LwpsurfaceToWkt(g, variant)

\* lwgeom_to_wkt: only the extended form tells the SRID, when there is one.
LwgeomToWkt(g, srid, variant) ==
  (IF variant = "EXTENDED" /\ srid # 0 THEN <<SridToken(srid), Tok(";")>> ELSE <<>>)
    \o GeomToWkt(g, variant)

=============================================================================
