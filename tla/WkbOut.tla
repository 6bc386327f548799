------------------------------- MODULE WkbOut ------------------------------
(***************************************************************************)
(* The writer of well-known binary, lwout_wkb.c.  One recursion computes   *)
(* the size of the buffer, another fills it.  A variant has: form, one of  *)
(* iso, sfsql and extended; order; noSrid, for parts of a collection.      *)
(* Hexadecimal output, which doubles every byte, is left out.              *)
(***************************************************************************)
EXTENDS WkbFormat, SequencesExt, FiniteSetsExt

Part(v) == [v EXCEPT !.noSrid = TRUE]

RECURSIVE IsEmpty(_)
IsEmpty(g) ==
    CASE g.type \in SimpleTypes \ {"Polygon"} -> g.rings[1] = <<>>
      [] g.type = "Polygon" -> g.rings = <<>> \/ g.rings[1] = <<>>
      [] OTHER -> \A k \in DOMAIN g.geoms : IsEmpty(g.geoms[k])

\* The parent's SRID is not repeated, and only the extended form has one.
NeedsSrid(g, v) == ~v.noSrid /\ v.form = "extended" /\ g.srid # 0

TypeField(g, v) ==
    Field("type", v.order,
          TypeNumber[g.type] + (IF v.form # "iso" THEN 0
                                ELSE (IF g.z THEN 1000 ELSE 0) + (IF g.m THEN 2000 ELSE 0)),
          IF v.form # "extended" THEN {}
          ELSE (IF g.z THEN {"Z"} ELSE {}) \cup (IF g.m THEN {"M"} ELSE {})
               \cup (IF NeedsSrid(g, v) THEN {"SRID"} ELSE {}))

\* Only the first two ordinates go into sfsql.
OutDims(g, v) == IF v.form = "sfsql" THEN 2 ELSE NDims(g.z, g.m)

-----------------------------------------------------------------------------
(***************************************************************************)
(* The first recursion.                                                    *)
(***************************************************************************)
FrontSize(g, v) ==
    Width.mark + Width.type + (IF NeedsSrid(g, v) THEN Width.srid ELSE 0)

\* An empty point has NaNs, as many as it has dimensions in whatever form.
EmptySize(g, v) ==
    FrontSize(g, v)
    + (IF g.type = "Point" THEN NDims(g.z, g.m) * Width.ordinate ELSE Width.count)

RingSize(ring, g, v) == Width.count + Len(ring) * OutDims(g, v) * Width.ordinate

\* Defect: no room is made for the number of rings of a triangle.
BodySizeNoRingCount(g, v) ==
    CASE g.type = "Point" -> Len(g.rings[1]) * OutDims(g, v) * Width.ordinate
      [] g.type \in LineTypes \cup {"Triangle"} -> RingSize(g.rings[1], g, v)
      [] g.type = "Polygon" -> Width.count + FoldSeq(LAMBDA r, n : n + RingSize(r, g, v), 0, g.rings)

BodySize(g, v) ==
    CASE g.type = "Point" -> Len(g.rings[1]) * OutDims(g, v) * Width.ordinate
      [] g.type \in LineTypes -> RingSize(g.rings[1], g, v)
      [] g.type = "Triangle" -> Width.count + RingSize(g.rings[1], g, v)
      [] g.type = "Polygon" -> Width.count + FoldSeq(LAMBDA r, n : n + RingSize(r, g, v), 0, g.rings)

\* In the extended form the emptiness of a collection is that of its parts.
AsEmpty(g, v) == IsEmpty(g) /\ (v.form # "extended" \/ g.type \in SimpleTypes)

RECURSIVE Size(_, _)
Size(g, v) ==
    IF AsEmpty(g, v) THEN EmptySize(g, v)
    ELSE FrontSize(g, v)
         + IF g.type \in SimpleTypes THEN BodySize(g, v)
           ELSE Width.count + FoldSeq(LAMBDA part, n : n + Size(part, Part(v)), 0, g.geoms)

-----------------------------------------------------------------------------
(***************************************************************************)
(* The second recursion.                                                   *)
(***************************************************************************)
CountField(n, v) == Field("count", v.order, n, {})
Ordinate(n, v) == Field("ordinate", v.order, n, {})

HeadFields(g, v) ==
    <<Field("mark", v.order, v.order, {}), TypeField(g, v)>>
    \o (IF NeedsSrid(g, v) THEN <<Field("srid", v.order, g.srid, {})>> ELSE <<>>)

EmptyFields(g, v) ==
    HeadFields(g, v)
    \o (IF g.type = "Point" THEN [d \in 1 .. NDims(g.z, g.m) |-> Ordinate(NaN, v)]
        ELSE <<CountField(0, v)>>)

Ordinates(ring, g, v) ==
    FlattenSeq([k \in DOMAIN ring |-> [d \in 1 .. OutDims(g, v) |-> Ordinate(ring[k][d], v)]])

RingFields(ring, g, v) == <<CountField(Len(ring), v)>> \o Ordinates(ring, g, v)

BodyFields(g, v) ==
    CASE g.type = "Point" -> Ordinates(g.rings[1], g, v)
      [] g.type \in LineTypes -> RingFields(g.rings[1], g, v)
      [] g.type \in {"Polygon", "Triangle"} ->
            <<CountField(Len(g.rings), v)>>
            \o FlattenSeq([k \in DOMAIN g.rings |-> RingFields(g.rings[k], g, v)])

RECURSIVE Written(_, _)
Written(g, v) ==
    IF AsEmpty(g, v) THEN EmptyFields(g, v)
    ELSE HeadFields(g, v)
         \o IF g.type \in SimpleTypes THEN BodyFields(g, v)
            ELSE <<CountField(Len(g.geoms), v)>>
                 \o FlattenSeq([k \in DOMAIN g.geoms |-> Written(g.geoms[k], Part(v))])

BytesOf(fields) == FoldSeq(LAMBDA f, n : n + Width[f.kind], 0, fields)

=============================================================================
