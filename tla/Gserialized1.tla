---------------------------- MODULE Gserialized1 ----------------------------
(***************************************************************************)
(* The first version of the serialization: an optional box, then the body. *)
(***************************************************************************)
EXTENDS SerialBody

\* lwflags_get_g1flags
FlagsOf(lw) ==
  {f \in {Z, M, BBOX, GEODETIC, SOLID} :
     CASE f = Z -> lw.geom.z [] f = M -> lw.geom.m [] f = BBOX -> lw.box # NoBox
       [] f = GEODETIC -> lw.geodetic [] f = SOLID -> lw.solid}

\* The word the body begins with.
BodyAt(gs) == 1 + (IF BBOX \in gs.gflags THEN BoxWords(gs.gflags) ELSE 0)

\* gserialized1_header_size
HeaderSize(gs) == 8 + 4 * (BodyAt(gs) - 1)

\* gserialized1_get_lwflags
IsSolid(gs) == SOLID \in gs.gflags

\* gserialized1_read_gbox_p
ReadBox(gs) ==
  IF BBOX \in gs.gflags THEN BoxFrom(gs.data, 1, NDimsBox(gs.gflags)) ELSE NoBox

\* gserialized1_from_any_size and what it calls: as in the other version.
FromAnySize(g) == BodySize(g)

\* gserialized1_from_lwgeom_size
SizeFor(lw) == 8 + 4 * (IF lw.box = NoBox THEN 0 ELSE BoxWords(FlagsOf(lw))) + FromAnySize(lw.geom)

\* gserialized1_from_lwgeom_any and what it calls: as in the other version.
FromLwgeomAny(g) == Body(g)

\* gserialized1_from_lwgeom
Data(lw) == BoxBody(lw.box) \o FromLwgeomAny(lw.geom)

\* lwgeom_from_gserialized1_buffer and what it calls: as in the other version.
FromBuffer(gs, srid) == ReadBody(gs.data, BodyAt(gs), srid, Z \in gs.gflags, M \in gs.gflags)

\* gserialized1_is_empty
IsEmptyIn(gs) == EmptyAt(gs.data, BodyAt(gs)).empty

\* gserialized1_peek_gbox_p
PeekGbox(gs) == PeekBox(gs.gflags, gs.data, BodyAt(gs))

\* gserialized1_peek_first_point
PeekFirstPoint(gs) == PeekFirst(gs.gflags, gs.data, BodyAt(gs))

\* gserialized1_set_gbox; a box of another dimension is refused.
SetGbox(gs, box) ==
  LET floats == BoxBody(Rounded(box))
      kept == IF BBOX \in gs.gflags THEN SubSeq(gs.data, Len(floats) + 1, Len(gs.data)) ELSE gs.data
      grown == IF BBOX \in gs.gflags THEN 0 ELSE 4 * BoxWords(gs.gflags)
  IN  IF NDimsBox(gs.gflags) # Len(box) THEN gs
      ELSE [gs EXCEPT !.size = @ + grown, !.gflags = @ \cup {BBOX}, !.data = floats \o kept]

\* gserialized1_drop_gbox
DropGbox(gs) ==
  LET n == 2 * NDimsBox(gs.gflags)
  IN  IF BBOX \in gs.gflags
      THEN [gs EXCEPT !.size = @ - 4 * n, !.gflags = @ \ {BBOX},
                      !.data = SubSeq(@, n + 1, Len(@))]
      ELSE [gs EXCEPT !.data = SubSeq(@, 1, Len(@) - n)]

=============================================================================
