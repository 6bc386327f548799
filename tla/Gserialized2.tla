---------------------------- MODULE Gserialized2 ----------------------------
(***************************************************************************)
(* The second version of the serialization: optional extended flags of two *)
(* words, an optional box, then the body.                                  *)
(***************************************************************************)
EXTENDS SerialBody

\* lwflags_uses_extended_flags; the other flag it looks for, READONLY, is set on arrays
\* of points only.
UsesExtended(lw) == lw.solid

\* lwflags_get_g2flags
FlagsOf(lw) ==
  {VERSION} \cup
  {f \in {Z, M, BBOX, GEODETIC, EXTENDED} :
     CASE f = Z -> lw.geom.z [] f = M -> lw.geom.m [] f = BBOX -> lw.box # NoBox
       [] f = GEODETIC -> lw.geodetic [] f = EXTENDED -> UsesExtended(lw)}

\* gserialized2_get_float_box_p
FloatBoxAt(gs) == IF EXTENDED \in gs.gflags THEN 3 ELSE 1

\* gserialized2_get_geometry_p
BodyAt(gs) == FloatBoxAt(gs) + (IF BBOX \in gs.gflags THEN BoxWords(gs.gflags) ELSE 0)

\* gserialized2_header_size
HeaderSize(gs) ==
  8 + (IF EXTENDED \in gs.gflags THEN 8 ELSE 0)
    + (IF BBOX \in gs.gflags THEN 4 * BoxWords(gs.gflags) ELSE 0)

\* gserialized2_get_lwflags
IsSolid(gs) == EXTENDED \in gs.gflags /\ IntAt(gs.data, 1) = 1

\* gserialized2_read_gbox_p
ReadBox(gs) ==
  IF BBOX \in gs.gflags THEN BoxFrom(gs.data, FloatBoxAt(gs), NDimsBox(gs.gflags)) ELSE NoBox

\* gserialized2_from_any_size and what it calls: as in the other version.
FromAnySize(g) == BodySize(g)

\* gserialized2_from_lwgeom_size
SizeFor(lw) ==
  8 + (IF UsesExtended(lw) THEN 8 ELSE 0)
    + 4 * (IF lw.box = NoBox THEN 0 ELSE BoxWords(FlagsOf(lw))) + FromAnySize(lw.geom)

\* gserialized2_from_lwgeom_any and what it calls: as in the other version.
FromLwgeomAny(g) == Body(g)

\* gserialized2_from_extended_flags
ExtendedBody(lw) == When(UsesExtended(lw), Int4(1) \o Int4(0))

\* gserialized2_from_lwgeom
Data(lw) == ExtendedBody(lw) \o BoxBody(lw.box) \o FromLwgeomAny(lw.geom)

\* lwgeom_from_gserialized2_buffer and what it calls: as in the other version.
FromBuffer(gs, srid) == ReadBody(gs.data, BodyAt(gs), srid, Z \in gs.gflags, M \in gs.gflags)

\* gserialized2_is_empty
IsEmptyIn(gs) == EmptyAt(gs.data, BodyAt(gs)).empty

\* gserialized2_peek_gbox_p
PeekGbox(gs) == PeekBox(gs.gflags, gs.data, BodyAt(gs))

\* gserialized2_peek_first_point
PeekFirstPoint(gs) == PeekFirst(gs.gflags, gs.data, BodyAt(gs))

\* gserialized2_set_gbox; the box is put down where the data begin, extended flags
\* or not.
SetGbox(gs, box) ==
  LET floats == BoxBody(Rounded(box))
      head == When(EXTENDED \in gs.gflags, SubSeq(gs.data, 1, 2))
      body == SubSeq(gs.data, Len(head) + 1, Len(gs.data))
      room == IF BBOX \in gs.gflags THEN gs.data ELSE head \o floats \o body
      grown == IF BBOX \in gs.gflags THEN 0 ELSE 4 * BoxWords(gs.gflags)
  IN  IF NDimsBox(gs.gflags) # Len(box) THEN gs
      ELSE [gs EXCEPT !.size = @ + grown, !.gflags = @ \cup {BBOX},
                      !.data = floats \o SubSeq(room, Len(floats) + 1, Len(room))]

\* gserialized2_drop_gbox; with extended flags eight bytes more are copied than are left.
DropGbox(gs) ==
  LET n == 2 * NDimsBox(gs.gflags)
      head == When(EXTENDED \in gs.gflags, SubSeq(gs.data, 1, 2))
  IN  IF BBOX \in gs.gflags
      THEN [gs EXCEPT !.size = @ - 4 * n, !.gflags = @ \ {BBOX},
                      !.data = head \o SubSeq(@, Len(head) + n + 1, Len(@))]
      ELSE [gs EXCEPT !.data = SubSeq(@, 1, Len(@) - n)]

=============================================================================
