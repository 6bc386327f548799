-------------------------------- MODULE Twkb --------------------------------
(***************************************************************************)
(* Tiny well-known binary, there and back: a geometry is written with some *)
(* options, the stream may be cut off, and it is read with or without the  *)
(* checks of the parser.                                                   *)
(***************************************************************************)
EXTENDS TwkbIn

CONSTANTS
  Sources,    \* the geometries written
  Precisions  \* their precisions, records with xy, z and m

VARIABLES
  source,     \* what was written, and how
  stream,     \* the bytes
  cut,        \* whether some of them are missing
  outcome     \* what reading them gave

vars == <<source, stream, cut, outcome>>

Nothing == [status |-> "none"]
Error == [status |-> "error"]

\* IDs for the members of a collection, negative ones among them.
IdsFor(g) == [i \in DOMAIN g.geoms |-> 5 * i - 7]

TwkbInit == source = Nothing /\ stream = NoStream /\ cut = FALSE /\ outcome = Nothing

\* lwgeom_to_twkb_with_idlist
WriteTwkb(g, variant, prec, ids) ==
  LET o == Options(variant, prec, ids)
  IN  /\ source = Nothing
      /\ source' = [status |-> "written", geom |-> g, o |-> o]
      /\ stream' = ToTwkb(g, o)
      /\ outcome' = IF stream' = NoStream THEN Error ELSE Nothing
      /\ UNCHANGED cut

CutOff(n) ==
  /\ outcome = Nothing /\ stream # NoStream /\ ~ cut
  /\ stream' = SubSeq(stream, 1, n)
  /\ cut' = TRUE
  /\ UNCHANGED <<source, outcome>>

\* lwgeom_from_twkb
ReadTwkb(check) ==
  LET read == FromTwkb(stream, check)
  IN  /\ outcome = Nothing /\ source # Nothing
      /\ outcome' = [status |-> IF read.s.ok THEN "read" ELSE "error", check |-> check,
                     beyond |-> read.s.beyond, geom |-> read.geom]
      /\ UNCHANGED <<source, stream, cut>>

TwkbNext ==
  \/ \E g \in Sources, variant \in SUBSET {"bbox", "size"}, prec \in Precisions :
       \E ids \in {NoIds, IdsFor(g)} : WriteTwkb(g, variant, prec, ids)
  \/ \E n \in 0 .. Len(stream) - 1 : CutOff(n)
  \/ \E check \in BOOLEAN : ReadTwkb(check)

TwkbSpec == TwkbInit /\ [][TwkbNext]_vars

-----------------------------------------------------------------------------
(* What is expected of the way there and back *)

RECURSIVE PointsOf(_), Arrived(_, _, _), ShortRing(_, _), Skim(_, _), Stretch(_), Sized(_, _)

Abs(v) == IF v < 0 THEN - v ELSE v

\* The nearest multiple of a step, of two the one farther from zero.
Nearest(v, step) ==
  LET below == step * (v \div step)
      better(n, other) ==
        Abs(v - n) < Abs(v - other) \/ (Abs(v - n) = Abs(v - other) /\ Abs(n) > Abs(other))
  IN  IF better(below, below + step) THEN below ELSE below + step

Grid(pt, g, prec) == [k \in DOMAIN pt |-> Nearest(pt[k], Step(PrecisionOf(prec, g.z, k)))]

\* A ring without its first doubled points, of which some remain when too few are left.
Thinned(ring, minpoints) ==
  LET doubled == SelectSeq([i \in DOMAIN ring |-> i], LAMBDA i : i > 1 /\ ring[i] = ring[i - 1])
      spare == IF Len(ring) > minpoints THEN Len(ring) - minpoints ELSE 0
      dropped == {doubled[j] : j \in 1 .. Min({Len(doubled), spare})}
      kept == SelectSeq([i \in DOMAIN ring |-> i], LAMBDA i : i \notin dropped)
  IN  [j \in DOMAIN kept |-> ring[kept[j]]]

PointsOf(g) ==
  IF g.type \in SimpleTypes THEN UNION {ToSet(g.rings[i]) : i \in DOMAIN g.rings}
  ELSE UNION {PointsOf(g.geoms[i]) : i \in DOMAIN g.geoms}

Bounds(g) ==
  LET on(k) == {pt[k] : pt \in PointsOf(g)} \ {Leftover}
  IN  [k \in 1 .. Dimensions(g) |-> <<Min(on(k)), Max(on(k))>>]

Needed == [Point |-> 1, Line |-> 2, Triangle |-> 2, Polygon |-> 4]

ArrivedType(g) == CASE g.type = "Triangle" -> "Polygon" [] g.type = "Tin" -> "Collection" [] OTHER -> g.type

\* What comes out of writing and reading: rounded and thinned, triangles as polygons,
\* without empty points in multipoints, without members where there are no points, with
\* a box where there was a header; and with a point in every empty hole.
Arrived(g, o, headed) ==
  LET ring(i) ==
        IF i > 1 /\ g.rings[i] = <<>> THEN <<[k \in 1 .. Dimensions(g) |-> Leftover]>>
        ELSE Thinned([j \in DOMAIN g.rings[i] |-> Grid(g.rings[i][j], g, o.prec)], Needed[g.type])
      shown == SelectSeq([i \in DOMAIN g.geoms |-> i], LAMBDA i : i \in Shown(g))
      geoms == [j \in DOMAIN shown |-> Arrived(g.geoms[shown[j]], o, g.type \notin MultiTypes)]
      arrived == Boxed(ArrivedType(g), g.z, g.m, [i \in DOMAIN g.rings |-> ring(i)], geoms, NoBox)
  IN  IF IsEmpty(g) THEN Boxed(ArrivedType(g), g.z, g.m, Empty(ArrivedType(g), 0, FALSE, FALSE).rings, <<>>, NoBox)
      ELSE IF headed /\ "bbox" \in o.variant THEN [arrived EXCEPT !.box = Bounds(arrived)]
      ELSE arrived

\* Rings with fewer points than the parser wants: of triangles that rounding made so
\* small that the writer left some out, and the empty holes of polygons.
ShortRing(g, o) ==
  IF g.type \in {"Triangle", "Polygon"}
  THEN ~ IsEmpty(g) /\ \E i \in DOMAIN g.rings : Len(Arrived(g, o, FALSE).rings[i]) < 4
  ELSE \E i \in DOMAIN g.geoms : ShortRing(g.geoms[i], o)

\* The streams of n geometries that follow each other from the start of s on, found by
\* their sizes alone; NoStream where a size leads past the end.
Skim(bytes, n) ==
  IF n = 0 THEN <<>>
  ELSE LET headed == Header(Start(bytes, FALSE))
           end == headed.pos - 1 + headed.h.size
       IN  IF ~ headed.ok \/ end > Len(bytes) THEN <<NoStream>>
           ELSE <<SubSeq(bytes, 1, end)>> \o Skim(SubSeq(bytes, end + 1, Len(bytes)), n - 1)

StretchOn(count) == Skim(SubSeq(count.bytes, PastIds(count).pos, Len(count.bytes)), count.value)

\* The members' streams in the stream of a collection.
Stretch(bytes) == StretchOn(Uvarint(AfterHeader(Header(Start(bytes, FALSE))).s))

\* The stream of a geometry ends where its size says; so do those of its members, and
\* each of them can be read by itself.
Sized(g, bytes) ==
  /\ Skim(bytes, 1) = <<bytes>>
  /\ ~ IsEmpty(g) /\ g.type \notin SimpleTypes \cup MultiTypes =>
       LET members == Stretch(bytes)
       IN  /\ FlattenSeq(members) = SubSeq(bytes, Len(bytes) - Len(FlattenSeq(members)) + 1, Len(bytes))
           /\ Len(members) = Len(g.geoms)
           /\ \A i \in DOMAIN members :
                /\ Sized(g.geoms[i], members[i])
                /\ FromTwkb(members[i], FALSE).s.ok
                /\ FromTwkb(members[i], FALSE).geom = FromTwkb(bytes, FALSE).geom.geoms[i]

-----------------------------------------------------------------------------
(* Properties *)

\* What is read is the geometry that was written, on the grid of its precision, and
\* rounding errors do not add up along it; nothing beyond the end of it is looked at.
\* The checks of the parser refuse the geometries with short rings, and no others.
\* Without them an empty hole, which the reader means to skip (lwpoly_from_twkb_state),
\* becomes a ring of one point that was never set.
RoundTrip ==
  outcome # Nothing /\ ~ cut /\ stream # NoStream =>
    LET g == source.geom
        o == source.o
    IN  /\ ~ outcome.beyond
        /\ IF outcome.check /\ ShortRing(g, o) THEN outcome.status = "error"
           ELSE outcome.status = "read" /\ outcome.geom = Arrived(g, o, TRUE)

\* Whatever the end of a stream that is missing, reading it is an error (though a byte of
\* a header is only tested after it was read, byte_from_twkb_state).
CutFails == cut /\ outcome # Nothing => outcome.status = "error"

\* A reader that only goes by the sizes finds every geometry of a collection, at its
\* start and its end.
SizesLead ==
  stream # NoStream /\ ~ cut /\ "size" \in source.o.variant => Sized(source.geom, stream)

=============================================================================
