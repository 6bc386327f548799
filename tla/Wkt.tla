--------------------------------- MODULE Wkt ---------------------------------
(***************************************************************************)
(* Well-known text, there and back: a geometry is written, the text may be *)
(* hurt, and the parser reads it.                                          *)
(***************************************************************************)
EXTENDS WktOut, WktIn

\* The text of a geometry, or what is left of it.
TextOf(g, n, variant, hurt) ==
  LET whole == LwgeomToWkt(g, n, variant)
  IN  CASE hurt.kind = "none" -> whole
        [] hurt.kind = "cut" -> SubSeq(whole, 1, hurt.at)
        [] hurt.kind = "drop" -> RemoveAt(whole, hurt.at)
        [] hurt.kind = "double" -> InsertAt(whole, hurt.at, whole[hurt.at])
        [] OTHER -> <<>>

-----------------------------------------------------------------------------
(* What is expected of the way there and back *)

RECURSIVE Plain(_), Kept(_, _)

\* What was read, without its blocks.
Plain(v) ==
  LET block == Root(v)
  IN  IF block.type = "array" THEN block.pts
      ELSE Geom(block.type, block.z, block.m,
                IF block.type \in ArrayTypes THEN PointsOf(v)
                ELSE [i \in 1 .. block.parts |-> Plain(Part(v, i))])

\* Whether the dimensions are in letters, or can only be told from the coordinates.
Lettered(g, variant) == variant = "ISO" \/ (variant = "EXTENDED" /\ g.m /\ ~ g.z)

\* What the text of a geometry says: a polygon without a shell has no rings; without
\* letters, what has no coordinates has two dimensions, and a collection those of its first
\* member.
Kept(g, variant) ==
  LET flat(pt) == IF variant = "SFSQL" THEN SubSeq(pt, 1, 2) ELSE pt
      simple == g.type \in ArrayTypes \cup {"POLYGON"}
      parts ==
        CASE ShownEmpty(g) -> <<>>
          [] ~ ShownEmpty(g) /\ g.type \in ArrayTypes -> [i \in DOMAIN g.parts |-> flat(g.parts[i])]
          [] ~ ShownEmpty(g) /\ g.type = "POLYGON" ->
               [i \in DOMAIN g.parts |-> [j \in DOMAIN g.parts[i] |-> flat(g.parts[i][j])]]
          [] OTHER -> [i \in DOMAIN g.parts |-> Kept(g.parts[i], variant)]
      told == parts # <<>> /\ variant # "SFSQL"
  IN  CASE Lettered(g, variant) -> Geom(g.type, g.z, g.m, parts)
        [] ~ Lettered(g, variant) /\ simple -> Geom(g.type, told /\ g.z, told /\ g.m, parts)
        [] OTHER -> Geom(g.type, told /\ parts[1].z, told /\ parts[1].m, parts)

\* How many ordinates must agree where a ring closes: the measure counts as a height
\* where the letters have not been seen, since it comes third.
Closing(g, lettered) == IF g.z \/ (g.m /\ ~ lettered) THEN 3 ELSE 2

Closed(pts, n) == pts # <<>> /\ EndsMeet(pts, n)

RECURSIVE Ends(_), Count(_), Unread(_, _, _)

\* The points of a curve, a compound one's parts one after another.
Ends(g) == IF g.type \in ArrayTypes THEN g.parts ELSE FlattenSeq([i \in DOMAIN g.parts |-> Ends(g.parts[i])])

Count(g) == Len(Ends(g))

\* What the reader refuses: what cannot be shown, curves that do not join up, triangles
\* that are none, empty ones in a TIN though they are written, and with checks short, even
\* or open ones.
Unread(g, lettered, check) ==
  LET n == Closing(g, lettered)
      short(pts, least) == "MINPOINTS" \in check /\ Len(pts) < least
      open(pts, k) == "CLOSURE" \in check /\ ~ Closed(pts, k)
      bare(part) ==
        \/ part.type \in {"LINESTRING", "POLYGON"} /\ g.type # "GEOMETRYCOLLECTION"
        \/ part.type = "TRIANGLE" /\ g.type = "TIN"
      readDims(part) == IF bare(part) /\ part.parts = <<>> THEN 2 ELSE NDims(part)
      badRing(part) ==
        \/ readDims(part) # NDims(g)
        \/ "MINPOINTS" \in check /\ Count(part) < (IF part.type = "LINESTRING" THEN 4 ELSE 3)
        \/ open(Ends(part), Closing(part, ~ bare(part)))
      badJoint(i) ==
        \/ g.parts[i].parts = <<>>
        \/ i > 1 /\ g.parts[i - 1].parts # <<>>
             /\ ~ EndsMeet(<<Head(Ends(g.parts[i])), Ends(g.parts[i - 1])[Count(g.parts[i - 1])]>>, 2)
      badPatch(part) == ShownEmpty(part) \/ \E i \in DOMAIN part.parts : open(part.parts[i], IF part.z \/ part.m THEN 3 ELSE 2)
  IN  /\ ~ ShownEmpty(g)
      /\ CASE g.type = "POINT" -> FALSE
           [] g.type = "LINESTRING" -> short(g.parts, 2)
           [] g.type = "CIRCULARSTRING" -> short(g.parts, 3) \/ ("ODD" \in check /\ Len(g.parts) % 2 = 0)
           [] g.type = "TRIANGLE" -> Len(g.parts) # 4 \/ ~ Closed(g.parts, n)
           [] g.type = "POLYGON" ->
                \E i \in DOMAIN g.parts : g.parts[i] = <<>> \/ short(g.parts[i], 4) \/ open(g.parts[i], 2)
           [] OTHER ->
                \E i \in DOMAIN g.parts :
                  \/ Unread(g.parts[i], ~ bare(g.parts[i]), check)
                  \/ g.type = "CURVEPOLYGON" /\ badRing(g.parts[i])
                  \/ g.type = "COMPOUNDCURVE" /\ badJoint(i)
                  \/ g.type = "POLYHEDRALSURFACE" /\ badPatch(g.parts[i])
                  \/ g.type = "TIN" /\ ShownEmpty(g.parts[i])

-----------------------------------------------------------------------------
(* Properties *)

Whole == source.hurt.kind = "none"

\* A text the writer wrote is read back as the geometry it says, with its SRID, whatever
\* was read before; what cannot be read is refused, and nothing else is.
ReadBack ==
  phase = "returned" /\ Whole =>
    LET said == Kept(source.geom, source.variant)
        told == source.variant = "EXTENDED" /\ source.srid < SridMaximum
    IN  IF Unread(said, Lettered(source.geom, source.variant), source.check)
        THEN result.geom = Nothing /\ result.error # ""
        ELSE /\ result.geom # Nothing /\ result.error = ""
             /\ Plain(result.geom) = said
             /\ srid = IF told THEN source.srid ELSE 0

=============================================================================
