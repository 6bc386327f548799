----------------------------- MODULE Serialized -----------------------------
(***************************************************************************)
(* Serialized geometries of either version: made from a geometry, edited   *)
(* in place, read back, looked into without reading, and compared.         *)
(*                                                                         *)
(* A column holds serializations of both versions, since a database keeps  *)
(* what older releases wrote.                                              *)
(***************************************************************************)
EXTENDS SerialBody

CONSTANTS
  Sources,    \* what is serialized: geometries with their flags, without a box
  Srids,      \* the SRIDs a serialization is given
  Compared,   \* which of them are put in the column to be sorted
  OneSrid     \* whether a column holds geometries of one SRID, as a declared one does

VARIABLES
  lw,         \* the geometry that gs stands for
  gs,         \* a serialization
  column      \* serializations put aside

vars == <<lw, gs, column>>

G1 == INSTANCE Gserialized1
G2 == INSTANCE Gserialized2

NoLw == Lw(NoGeometry, FALSE, FALSE, NoBox)
NoGs == [size |-> 0, srid |-> <<0, 0, 0>>, gflags |-> {}, data |-> <<>>]

IsVersion2(s) == VERSION \in s.gflags

-----------------------------------------------------------------------------
(* Header *)

SRID_UNKNOWN == 0
SRID_MAXIMUM == 999999
SRID_USER_MAXIMUM == 998999

ClampedSrid(srid) ==
  CASE srid <= 0 -> SRID_UNKNOWN
    [] srid > SRID_MAXIMUM -> SRID_USER_MAXIMUM + 1 + (srid % (SRID_MAXIMUM - SRID_USER_MAXIMUM - 1))
    [] OTHER -> srid

\* gserialized_set_srid: 21 bits in three bytes.
SridBytes(srid) ==
  LET n == ClampedSrid(srid) IN <<(n \div 65536) % 32, (n \div 256) % 256, n % 256>>

\* gserialized_get_srid: the highest bit is the sign.
GetSrid(s) ==
  LET n == s.srid[1] * 65536 + s.srid[2] * 256 + s.srid[3]
  IN  IF n < 1048576 THEN n ELSE n - 2097152

HeaderSize(s) == IF IsVersion2(s) THEN G2!HeaderSize(s) ELSE G1!HeaderSize(s)
BodyAt(s) == IF IsVersion2(s) THEN G2!BodyAt(s) ELSE G1!BodyAt(s)
ReadBox(s) == IF IsVersion2(s) THEN G2!ReadBox(s) ELSE G1!ReadBox(s)
IsSolid(s) == IF IsVersion2(s) THEN G2!IsSolid(s) ELSE G1!IsSolid(s)
FromBuffer(s) == IF IsVersion2(s) THEN G2!FromBuffer(s, GetSrid(s)) ELSE G1!FromBuffer(s, GetSrid(s))
IsEmptyIn(s) == IF IsVersion2(s) THEN G2!IsEmptyIn(s) ELSE G1!IsEmptyIn(s)
PeekGbox(s) == IF IsVersion2(s) THEN G2!PeekGbox(s) ELSE G1!PeekGbox(s)
PeekFirstPoint(s) == IF IsVersion2(s) THEN G2!PeekFirstPoint(s) ELSE G1!PeekFirstPoint(s)

\* gserialized_max_header_size: the longest header, box, flags and type.
MaxHeaderSize == 8 + 8 * 4 + 8 + 4

BodyOf(s) == SubSeq(s.data, BodyAt(s), Len(s.data))

-----------------------------------------------------------------------------
(* There and back *)

\* The geometry gets a box where it needs one and has points.
Boxed(x) ==
  IF x.box = NoBox /\ NeedsBox(x.geom) /\ ~ IsEmpty(x.geom)
  THEN [x EXCEPT !.box = CalculatedBox(x)] ELSE x

\* gserialized1_from_lwgeom, gserialized2_from_lwgeom; nothing is returned when the
\* size that was computed is not the size that was written.
FromLwgeom(version, x) ==
  LET boxed == Boxed(x)
      expected == IF version = 2 THEN G2!SizeFor(boxed) ELSE G1!SizeFor(boxed)
      data == IF version = 2 THEN G2!Data(boxed) ELSE G1!Data(boxed)
      flags == IF version = 2 THEN G2!FlagsOf(boxed) ELSE G1!FlagsOf(boxed)
  IN  IF expected # 8 + 4 * Len(data) THEN NoGs
      ELSE [size |-> expected, srid |-> SridBytes(x.geom.srid), gflags |-> flags, data |-> data]

\* lwgeom_from_gserialized
ToLwgeom(s) ==
  LET read == Lw(FromBuffer(s).geom, GEODETIC \in s.gflags, IsSolid(s), ReadBox(s))
  IN  IF read.box = NoBox /\ NeedsBox(read.geom) THEN [read EXCEPT !.box = CalculatedBox(read)]
      ELSE read

\* gserialized_get_gbox_p: the box stored, the one seen at a glance, the one computed.
GetBox(s) ==
  LET stored == ReadBox(s)
      seen == PeekGbox(s)
  IN  IF stored # NoBox THEN stored
      ELSE IF seen # NoBox THEN seen
      ELSE Rounded(CalculatedBox(ToLwgeom(s)))

\* gserialized_fast_gbox_p
FastBox(s) ==
  IF ReadBox(s) # NoBox THEN ReadBox(s) ELSE PeekGbox(s)

SetBoxOf(s, box) == IF IsVersion2(s) THEN G2!SetGbox(s, box) ELSE G1!SetGbox(s, box)
WithoutBox(s) == IF IsVersion2(s) THEN G2!DropGbox(s) ELSE G1!DropGbox(s)

-----------------------------------------------------------------------------
(* Comparing *)

\* memcmp of two bodies: any total order of words serves.
Rank(word) == 4 * word.value + (CASE word.kind = "int" -> 0 [] word.kind = "float" -> 1
                                  [] word.kind = "low" -> 2 [] word.kind = "high" -> 3)

Sign(n) == IF n > 0 THEN 1 ELSE IF n < 0 THEN -1 ELSE 0

MemCmp(s, t) ==
  LET differ == {i \in 1 .. Min({Len(s), Len(t)}) : s[i] # t[i]}
  IN  IF differ = {} THEN 0 ELSE Sign(Rank(s[Min(differ)]) - Rank(t[Min(differ)]))

\* gbox_get_sortable_hash: a place on a curve through the plane, by the middle of the
\* box; for the most used SRID the curve is another one.
SortableHash(box, srid) ==
  LET middle(k) == box[k][1] + box[k][2] + 100
      place == middle(1) * 1000 + middle(2)
  IN  IF srid = 4326 THEN 1000000 + place ELSE place

HasZ(s) == IF Z \in s.gflags THEN 1 ELSE 0
HasM(s) == IF M \in s.gflags THEN 1 ELSE 0

\* Where hashes are the same: the shorter of two with a common beginning, the SRID,
\* the dimensions, the bytes.
CompareRest(s, t) ==
  LET b == BodyOf(s)
      c == BodyOf(t)
      cmp == MemCmp(b, c)
  IN  CASE Len(b) # Len(c) /\ cmp = 0 -> Sign(Len(b) - Len(c))
        [] s.srid # t.srid -> IF GetSrid(s) > GetSrid(t) THEN 1 ELSE -1
        [] HasZ(s) # HasZ(t) -> HasZ(s) - HasZ(t)
        [] HasM(s) # HasM(t) -> HasM(s) - HasM(t)
        [] OTHER -> IF cmp > 0 THEN 1 ELSE -1

\* Defect: the box is compared with the rest.
SameWithBox(s, t) ==
  /\ s.data = t.data
  /\ s.srid = t.srid /\ HasZ(s) = HasZ(t) /\ HasM(s) = HasM(t)

Same(s, t) ==
  /\ BodyOf(s) = BodyOf(t)
  /\ s.srid = t.srid /\ HasZ(s) = HasZ(t) /\ HasM(s) = HasM(t)

CompareBoxed(s, t, boxS, boxT) ==
  CASE Same(s, t) -> 0
    [] boxS = NoBox /\ boxT # NoBox -> -1
    [] boxS # NoBox /\ boxT = NoBox -> 1
    [] boxS # NoBox /\ boxT # NoBox /\ SortableHash(boxS, GetSrid(s)) # SortableHash(boxT, GetSrid(t)) ->
         Sign(SortableHash(boxS, GetSrid(s)) - SortableHash(boxT, GetSrid(t)))
    [] OTHER -> CompareRest(s, t)

\* gserialized_cmp
Compare(s, t) == CompareBoxed(s, t, GetBox(s), GetBox(t))

\* gserialized_hash: of the SRID and the body.
Hashed(s) == <<GetSrid(s), BodyOf(s)>>

-----------------------------------------------------------------------------
(* A session of the database *)

SerialInit == lw = NoLw /\ gs = NoGs /\ column = {}

\* What is kept of the box in floats.
Stored(x) == [x EXCEPT !.box = Rounded(@), !.geom = WithSrid(@, ClampedSrid(@.srid))]

Serialize(version, x, srid) ==
  LET y == [x EXCEPT !.geom = WithSrid(@, srid)]
  IN  /\ gs = NoGs
      /\ column # {} => x \in Compared
      /\ OneSrid => \A s \in column : s.srid = SridBytes(srid)
      /\ gs' = FromLwgeom(version, y)
      /\ lw' = Stored(Boxed(y))
      /\ UNCHANGED column

SetSrid(srid) ==
  /\ gs # NoGs
  /\ column = {}
  /\ gs' = [gs EXCEPT !.srid = SridBytes(srid)]
  /\ lw' = [lw EXCEPT !.geom = WithSrid(@, ClampedSrid(srid))]
  /\ UNCHANGED column

\* Extended flags leave no place that set_gbox and drop_gbox know of.
Plain == EXTENDED \notin gs.gflags

SetGbox(box) ==
  /\ gs # NoGs
  /\ Plain
  /\ gs' = SetBoxOf(gs, box)
  /\ lw' = IF Len(box) = NDimsBox(gs.gflags) THEN [lw EXCEPT !.box = Rounded(box)] ELSE lw
  /\ UNCHANGED column

\* Only where there is a box: without one drop_gbox cuts the end off.
DropGbox ==
  /\ gs # NoGs
  /\ Plain /\ BBOX \in gs.gflags
  /\ gs' = WithoutBox(gs)
  /\ lw' = [lw EXCEPT !.box = NoBox]
  /\ UNCHANGED column

\* Read and written again, as any function of the database does.
Rewrite ==
  /\ gs # NoGs
  /\ gs' = FromLwgeom(2, ToLwgeom(gs))
  /\ lw' = Stored(Boxed(lw))
  /\ UNCHANGED column

\* Compared geometries with boxes of their own, at most two (a bound).
PutAside ==
  /\ gs # NoGs
  /\ lw.box \in {NoBox, Rounded(CalculatedBox(lw))}
  /\ Cardinality(column) < 2
  /\ \E x \in Compared : [x EXCEPT !.geom = WithSrid(@, lw.geom.srid)] = [lw EXCEPT !.box = NoBox]
  /\ column' = column \cup {gs}
  /\ lw' = NoLw /\ gs' = NoGs

\* Boxes a caller may set on what has points: the geometry's own, a larger one, one that
\* may have too few dimensions.
Boxes ==
  LET own == CalculatedBox(lw)
  IN  IF own = NoBox THEN {}
      ELSE {own, [k \in DOMAIN own |-> <<own[k][1] - 3, own[k][2] + 3>>], SubSeq(own, 1, 2)}

SerialNext ==
  \/ \E version \in {1, 2}, x \in Sources, srid \in Srids : Serialize(version, x, srid)
  \/ \E srid \in Srids : SetSrid(srid)
  \/ \E box \in Boxes : SetGbox(box)
  \/ DropGbox
  \/ Rewrite
  \/ PutAside

SerialSpec == SerialInit /\ [][SerialNext]_vars

-----------------------------------------------------------------------------
(* Properties *)

Low(i) == gs.data[i].kind = "low"

\* In either version, after any edit, what is read is the geometry that was written: no
\* count, flag or dimension is lost, no word is read in another one's place, the size in
\* the header is that of the data, and every double is where doubles may be read.
ReadBack ==
  lw # NoLw =>
    LET read == ToLwgeom(gs)
    IN  /\ gs # NoGs
        /\ gs.size = 8 + 4 * Len(gs.data)
        /\ [read EXCEPT !.box = NoBox] = [lw EXCEPT !.box = NoBox]
        /\ \A i \in DOMAIN gs.data : Low(i) => i % 2 = 1

RECURSIVE HasHollow(_)

\* A polygon of empty rings, at any depth: it counts as empty when it is read
\* (lwpoly_is_empty looks at the first ring), but not when it is looked into
\* (gserialized1_is_empty_recurse and gserialized2_is_empty_recurse count rings).
HasHollow(g) ==
  \/ g.type = "Polygon" /\ g.rings # <<>> /\ g.rings[1] = <<>>
  \/ \E i \in DOMAIN g.geoms : HasHollow(g.geoms[i])

\* Type, emptiness and first point, seen without reading; the one difference about
\* emptiness is named.
ContentsSeen ==
  lw # NoLw =>
    LET first == PeekFirstPoint(gs)
    IN  /\ TypeOf(IntAt(gs.data, BodyAt(gs))) = lw.geom.type
        /\ IsEmptyIn(gs) <=> IsEmpty(lw.geom) /\ ~ HasHollow(lw.geom)
        /\ first # <<>> => first = PointsOf(lw.geom)[1]
        /\ HeaderSize(gs) + 4 <= MaxHeaderSize

\* A box is the same whether it was stored, is seen at a glance or has to be computed;
\* only an empty geometry has none, and the quick answer is never another one.
BoxSeen ==
  lw # NoLw =>
    LET full == IF lw.box # NoBox THEN lw.box ELSE Rounded(CalculatedBox(lw))
    IN  /\ GetBox(gs) = full
        /\ (full = NoBox) <=> IsEmpty(lw.geom)
        /\ FastBox(gs) \in {NoBox, full}

\* The functions that look into a serialization without reading it see what reading it
\* would give: type, emptiness (polygons of empty rings aside, which they must see as
\* they are counted), first point and box.
PeeksAgree == ContentsSeen /\ BoxSeen

Sortable == column \cup (IF gs = NoGs THEN {} ELSE {gs})

\* cmp is a total order of those in S that have one SRID; equal are those that read
\* gives one geometry for, and they have the same hash.
Orders(cmp, read, S) ==
  /\ \A s, t \in S :
       GetSrid(s) = GetSrid(t) =>
         /\ cmp[s, t] = - cmp[t, s]
         /\ cmp[s, t] = 0 => Hashed(s) = Hashed(t)
         /\ cmp[s, t] = 0 <=> read[s] = read[t]
  /\ \A s, t, u \in S :
       /\ GetSrid(s) = GetSrid(t) /\ GetSrid(t) = GetSrid(u)
       /\ cmp[s, t] < 0 /\ cmp[t, u] <= 0
       => cmp[s, u] < 0

\* In a column of one SRID the comparison is a total order whatever the versions are and
\* whoever dropped a box, and serializations that are equal to it have the same hash.
Sorted ==
  Orders([s, t \in Sortable |-> Compare(s, t)], [s \in Sortable |-> ToLwgeom(s).geom], Sortable)

=============================================================================
