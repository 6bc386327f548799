------------------------------ MODULE GeomHeap ------------------------------
(***************************************************************************)
(* Geometries in memory: points and lines with their point arrays, and the *)
(* collections made of them (lwgeom.c, lwcollection.c, lwline.c,           *)
(* lwpoint.c, ptarray.c, lwhomogenize.c).                                  *)
(*                                                                         *)
(* A heap holds geometries and point lists (the blocks that                *)
(* serialized_pointlist points to).  Whatever a function does, it does to  *)
(* the heap, step by step; what an allocator would object to is noted in   *)
(* the heap's faults.                                                      *)
(***************************************************************************)
EXTENDS Integers, SequencesExt, TLC

NoBox == <<>>

Multi == [Point |-> "MultiPoint", Line |-> "MultiLine"]

IsSingle(o) == o.type \in DOMAIN Multi

\* lwcollection_allows_subtype
Allows(type, part) == type = "Collection" \/ (part \in DOMAIN Multi /\ type = Multi[part])

-----------------------------------------------------------------------------
(* The allocator *)

Unused(f) == CHOOSE i \in 1 .. Cardinality(DOMAIN f) + 1 :
                 i \notin DOMAIN f /\ 1 .. i - 1 \subseteq DOMAIN f

Without(f, x) == Restrict(f, DOMAIN f \ {x})

Fault(h, what) == [h EXCEPT !.faults = @ \cup {what}]

\* A new geometry, and a new block of points: the heap with it, and its number.
NewObject(h, o) ==
    LET id == Unused(h.obj)
    IN  [heap |-> [h EXCEPT !.obj = @ @@ (id :> o)], id |-> id]

NewList(h, room, at) ==
    LET id == Unused(h.list)
    IN  [heap |-> [h EXCEPT !.list = @ @@ (id :> [room |-> room, at |-> at])], id |-> id]

Single(type, list, n, max, box) ==
    [type |-> type, list |-> list, n |-> n, max |-> max, readonly |-> FALSE, box |-> box]

\* room: the members that geoms has been allocated for, 0 if it is NULL.
Several(type, geoms, max, room, box) ==
    [type |-> type, geoms |-> geoms, max |-> max, room |-> room, box |-> box]

\* ptarray_construct with points, and the geometry on top of it.
Made(h, type, at) ==
    IF at = <<>> THEN NewObject(h, Single(type, 0, 0, 0, NoBox))
    ELSE LET l == NewList(h, Len(at), at)
         IN  NewObject(l.heap, Single(type, l.id, Len(at), Len(at), NoBox))

-----------------------------------------------------------------------------
(* What a geometry is *)

PointsOf(h, g) ==
    LET o == h.obj[g]
    IN  IF o.list \in DOMAIN h.list THEN SubSeq(h.list[o.list].at, 1, o.n) ELSE <<>>

\* The points and lines below g, in order.
RECURSIVE Leaves(_, _)
Leaves(h, g) ==
    IF IsSingle(h.obj[g]) THEN <<g>>
    ELSE FlattenSeq([i \in DOMAIN h.obj[g].geoms |-> Leaves(h, h.obj[g].geoms[i])])

RECURSIVE Tree(_, _)
Tree(h, g) ==
    {g} \cup IF IsSingle(h.obj[g]) THEN {} ELSE UNION {Tree(h, m) : m \in Range(h.obj[g].geoms)}

IsEmpty(h, g) == \A s \in Range(Leaves(h, g)) : h.obj[s].n = 0

\* lwgeom_calculate_gbox: <<xmin, ymin, xmax, ymax>>
BoxOf(h, g) ==
    LET at == UNION {Range(PointsOf(h, s)) : s \in Range(Leaves(h, g))}
        xs == {p[1] : p \in at}
        ys == {p[2] : p \in at}
    IN  IF at = {} THEN NoBox ELSE <<Min(xs), Min(ys), Max(xs), Max(ys)>>

-----------------------------------------------------------------------------
(* Freeing *)

FreeArray(h, o) ==
    IF o.list = 0 \/ o.readonly THEN h
    ELSE IF o.list \notin DOMAIN h.list THEN Fault(h, "freed twice")
    ELSE [h EXCEPT !.list = Without(@, o.list)]

\* lwgeom_release, and the member list: the members stay.
Release(h, g) == [h EXCEPT !.obj = Without(@, g)]

RECURSIVE FreeGeom(_, _)
FreeGeom(h, g) ==
    IF g \notin DOMAIN h.obj THEN Fault(h, "freed twice")
    ELSE LET o == h.obj[g]
         IN  IF IsSingle(o) THEN Release(FreeArray(h, o), g)
             ELSE Release(FoldLeft(LAMBDA k, m : FreeGeom(k, m), h, o.geoms), g)

-----------------------------------------------------------------------------
(* Copying *)

\* ptarray_clone: the list is not copied, and not the copy's to free.
Shared(o) == [o EXCEPT !.readonly = TRUE]

\* Defect: the copy has the list of the original.
ArrayCopyNot(h, o, at) == NewObject(h, o)

\* Defect: the copy keeps maxpoints.
ArrayCopyMax(h, o, at) ==
    LET l == NewList(h, Len(at), at)
    IN  IF at = <<>> THEN NewObject(h, [o EXCEPT !.list = 0, !.max = 0, !.readonly = FALSE])
        ELSE NewObject(l.heap, [o EXCEPT !.list = l.id, !.readonly = FALSE])

\* ptarray_clone_deep
ArrayCopy(h, o, at) ==
    IF at = <<>>
    THEN NewObject(h, [o EXCEPT !.list = 0, !.max = 0, !.readonly = FALSE])
    ELSE LET l == NewList(h, Len(at), at)
         IN  NewObject(l.heap, [o EXCEPT !.list = l.id, !.max = o.n, !.readonly = FALSE])

\* lwgeom_clone and lwgeom_clone_deep: a copied collection keeps maxgeoms, and
\* gets room for the members there are.
RECURSIVE Copy(_, _, _)
Copy(h, g, deep) ==
    LET o == h.obj[g]
        next(acc, m) == LET c == Copy(acc.heap, m, deep)
                        IN  [heap |-> c.heap, geoms |-> Append(acc.geoms, c.id)]
    IN  IF IsSingle(o)
        THEN IF deep THEN ArrayCopy(h, o, PointsOf(h, g)) ELSE NewObject(h, Shared(o))
        ELSE LET all == FoldLeft(next, [heap |-> h, geoms |-> <<>>], o.geoms)
                 box == IF o.geoms = <<>> THEN NoBox ELSE o.box
             IN  NewObject(all.heap, Several(o.type, all.geoms, o.max, Len(o.geoms), box))

-----------------------------------------------------------------------------
(* Collections *)

EmptyCollection(type) == Several(type, <<>>, 1, 1, NoBox)

\* lwgeom_construct_empty: there is room for one point, or for one member.
MadeEmpty(h, type) ==
    LET l == NewList(h, 1, <<>>)
    IN  IF type \in DOMAIN Multi THEN NewObject(l.heap, Single(type, l.id, 0, 1, NoBox))
        ELSE NewObject(h, EmptyCollection(type))

\* A NULL member list with counts that are not 0, or a part of the wrong type,
\* is an error.
CanAdd(h, c, g) ==
    /\ ~IsSingle(h.obj[c])
    /\ h.obj[c].room = 0 => h.obj[c].max = 0
    /\ Allows(h.obj[c].type, h.obj[g].type)

\* lwcollection_reserve goes by maxgeoms.
Reserved(o, n) ==
    IF n <= o.max THEN o ELSE [o EXCEPT !.max = 2 * @, !.room = 2 * o.max]

\* lwcollection_add_lwgeom
Added(h, c, g) ==
    LET o == h.obj[c]
        n == Len(o.geoms) + 1
        ready == Reserved(IF o.room = 0 THEN [o EXCEPT !.max = 2, !.room = 2] ELSE o, n)
        k == [h EXCEPT !.obj[c] = [ready EXCEPT !.geoms = Append(@, g)]]
    IN  IF n <= ready.room THEN k ELSE Fault(k, "room")

\* lwgeom_as_multi: the copy's box becomes the collection's.
Promoted(h, g) ==
    LET o == h.obj[g]
    IN  IF ~IsSingle(o) THEN Copy(h, g, FALSE)
        ELSE IF o.n = 0 THEN NewObject(h, EmptyCollection(Multi[o.type]))
        ELSE LET c == Copy(h, g, FALSE)
             IN  NewObject([c.heap EXCEPT !.obj[c.id].box = NoBox],
                           Several(Multi[o.type], <<c.id>>, 1, 1, o.box))

\* lwcollection_extract lets go of a part's collection when it has its members.
Discard(h, c) == Release(h, c)

\* lwcollection_extract: copies of the parts of one type, at any depth.
RECURSIVE Extracted(_, _, _)
Extracted(h, c, type) ==
    LET next(acc, m) ==
            LET o == acc.heap.obj[m]
            IN  IF IsEmpty(acc.heap, m) \/ (IsSingle(o) /\ o.type # type) THEN acc
                ELSE IF IsSingle(o)
                THEN LET d == Copy(acc.heap, m, FALSE)
                     IN  [heap |-> d.heap, geoms |-> Append(acc.geoms, d.id)]
                ELSE LET d == Extracted(acc.heap, m, type)
                     IN  [heap |-> Discard(d.heap, d.id),
                          geoms |-> acc.geoms \o d.heap.obj[d.id].geoms]
        all == FoldLeft(next, [heap |-> h, geoms |-> <<>>], h.obj[c].geoms)
        n == Len(all.geoms)
        out == NewObject(all.heap, Several(Multi[type], all.geoms, n, n, NoBox))
    IN  IF n = 0 THEN NewObject(all.heap, EmptyCollection(Multi[type]))
        ELSE [out EXCEPT !.heap.obj[out.id].box = BoxOf(out.heap, out.id)]

\* The points and lines of c, without those of parts that are empty altogether.
RECURSIVE Parts(_, _)
Parts(h, c) ==
    FlattenSeq([i \in DOMAIN h.obj[c].geoms |->
        LET m == h.obj[c].geoms[i]
        IN  IF IsSingle(h.obj[m]) THEN <<m>>
            ELSE IF IsEmpty(h, m) THEN <<>> ELSE Parts(h, m)])

\* lwcollection_build_buffer: copies of them, in a collection per type.
Sorted(h, c) ==
    LET next(acc, m) ==
            LET type == acc.heap.obj[m].type
                buf == IF type \in DOMAIN acc.buf
                       THEN [heap |-> acc.heap, id |-> acc.buf[type]]
                       ELSE NewObject(acc.heap, EmptyCollection(Multi[type]))
                d == Copy(buf.heap, m, FALSE)
            IN  [heap |-> Added(d.heap, buf.id, d.id), buf |-> (type :> buf.id) @@ acc.buf]
    IN  FoldLeft(next, [heap |-> h, buf |-> [t \in {} |-> 0]], Parts(h, c))

\* Defect: the collection stays.
UnwrappedKept(h, c) ==
    IF Len(h.obj[c].geoms) # 1 THEN [heap |-> h, id |-> c]
    ELSE [heap |-> [h EXCEPT !.obj[c].geoms = <<>>], id |-> h.obj[c].geoms[1]]

\* The only part of a type stands for itself: ngeoms is set to 0 first.
Unwrapped(h, c) ==
    IF Len(h.obj[c].geoms) # 1 THEN [heap |-> h, id |-> c]
    ELSE [heap |-> FreeGeom([h EXCEPT !.obj[c].geoms = <<>>], c), id |-> h.obj[c].geoms[1]]

\* lwgeom_homogenize
Homogenized(h, g) ==
    LET o == h.obj[g]
        gather(acc, c) == LET part == Unwrapped(acc.heap, c)
                          IN  [acc EXCEPT !.heap = Added(part.heap, acc.id, part.id)]
    IN  IF IsSingle(o) THEN Copy(h, g, FALSE)
        ELSE IF IsEmpty(h, g) THEN NewObject(h, EmptyCollection(o.type))
        ELSE IF o.type # "Collection" /\ Len(o.geoms) # 1 THEN Copy(h, g, FALSE)
        ELSE IF o.type # "Collection"
        THEN LET d == Copy(h, o.geoms[1], FALSE)
             IN  IF o.box = NoBox THEN d ELSE [d EXCEPT !.heap.obj[d.id].box = o.box]
        ELSE LET parts == Sorted(h, g)
                 bufs == SelectSeq(<<"Point", "Line">>, LAMBDA t : t \in DOMAIN parts.buf)
             IN  IF Len(bufs) = 1 THEN Unwrapped(parts.heap, parts.buf[bufs[1]])
                 ELSE FoldLeft(gather, NewObject(parts.heap, EmptyCollection("Collection")),
                               [i \in DOMAIN bufs |-> parts.buf[bufs[i]]])

-----------------------------------------------------------------------------
(* Changing points in place *)

WithBox(h, g, box) == [h EXCEPT !.obj[g].box = box]

\* lwgeom_add_bbox, lwgeom_refresh_bbox
BoxAdded(h, g) == IF h.obj[g].box = NoBox THEN WithBox(h, g, BoxOf(h, g)) ELSE h

\* Defect: the box is left as it is.
RefreshedNot(h, g) == h

Refreshed(h, g) == IF h.obj[g].box = NoBox THEN h ELSE WithBox(h, g, BoxOf(h, g))

\* lwgeom_add_bbox_deep: a part without a box gets the one of the whole.
RECURSIVE BoxAddedDeep(_, _, _)
BoxAddedDeep(h, g, box) ==
    LET k == IF h.obj[g].box # NoBox THEN h
             ELSE WithBox(h, g, IF box = NoBox THEN BoxOf(h, g) ELSE box)
    IN  IF IsEmpty(h, g) THEN h
        ELSE IF IsSingle(h.obj[g]) THEN k
        ELSE FoldLeft(LAMBDA a, m : BoxAddedDeep(a, m, k.obj[g].box), k, h.obj[g].geoms)

\* The points of a point or line are written over, from the first.
Written(h, g, at) ==
    LET o == h.obj[g]
        k == [h EXCEPT !.obj[g].n = Len(at), !.list[o.list].at = at]
    IN  IF o.list = 0 THEN h
        ELSE IF Len(at) <= h.list[o.list].room THEN k ELSE Fault(k, "room")

Each(h, g, F(_)) == LET at == PointsOf(h, g) IN Written(h, g, [i \in DOMAIN at |-> F(at[i])])

EachLeaf(h, g, Op(_, _)) == FoldLeft(Op, h, Leaves(h, g))

\* lwgeom_reverse_in_place
Reversed(h, g) ==
    EachLeaf(h, g, LAMBDA k, s : IF k.obj[s].type = "Point" THEN k
                                 ELSE Written(k, s, Reverse(PointsOf(k, s))))

\* lwgeom_swap_ordinates: every box on the way is made again.
RECURSIVE Swapped(_, _)
Swapped(h, g) ==
    IF IsEmpty(h, g) THEN h
    ELSE Refreshed(IF IsSingle(h.obj[g]) THEN Each(h, g, LAMBDA p : <<p[2], p[1]>>)
                   ELSE FoldLeft(LAMBDA k, m : Swapped(k, m), h, h.obj[g].geoms), g)

Times(p, f) == <<p[1] * f[1], p[2] * f[2]>>

\* lwgeom_scale: boxes are scaled like points.
Scaled(h, g, f) ==
    LET points == EachLeaf(h, g, LAMBDA k, s : Each(k, s, LAMBDA p : Times(p, f)))
        box(b) == IF b = NoBox THEN b ELSE Times(SubSeq(b, 1, 2), f) \o Times(SubSeq(b, 3, 4), f)
    IN  [points EXCEPT !.obj =
            [x \in DOMAIN @ |-> IF x \in Tree(h, g) THEN [@[x] EXCEPT !.box = box(@)] ELSE @[x]]]

\* lwgeom_affine leaves every box as it was.  m: two rows of two factors and
\* an offset.
Affine(h, g, m) ==
    LET row(r, p) == m[r][1] * p[1] + m[r][2] * p[2] + m[r][3]
    IN  EachLeaf(h, g, LAMBDA k, s : Each(k, s, LAMBDA p : <<row(1, p), row(2, p)>>))

NoRepeat(at) ==
    FoldLeft(LAMBDA acc, p : IF acc # <<>> /\ Last(acc) = p THEN acc ELSE Append(acc, p), <<>>, at)

\* The parts that have become empty are freed, the others move up.
EmptiesFreed(h, g) ==
    LET keep == SelectSeq(h.obj[g].geoms, LAMBDA m : ~IsEmpty(h, m))
    IN  [FoldLeft(FreeGeom, h, SelectSeq(h.obj[g].geoms, LAMBDA m : IsEmpty(h, m)))
            EXCEPT !.obj[g].geoms = keep]

\* rint(c / 2) * 2, half to even
Snap(c) == IF c % 2 = 0 THEN c ELSE IF (c - 1) % 4 = 0 THEN c - 1 ELSE c + 1

\* lwgeom_grid_in_place with a grid of size two; boxes are left alone.
RECURSIVE Gridded(_, _)
Gridded(h, g) ==
    LET o == h.obj[g]
        at == PointsOf(h, g)
        to == NoRepeat([i \in DOMAIN at |-> <<Snap(at[i][1]), Snap(at[i][2])>>])
    IN  IF ~IsSingle(o)
        THEN EmptiesFreed(FoldLeft(LAMBDA k, m : Gridded(k, m), h, o.geoms), g)
        ELSE Written(h, g, IF o.type = "Line" /\ Len(to) < 2 THEN <<>> ELSE to)

\* ptarray_remove_repeated_points_in_place, nothing tolerated and at least two
\* points kept: a point is dropped only if enough of them are left.
Fewer(at) ==
    LET n == Len(at)
        next(acc, i) == IF n + Len(acc) > 2 + i - 1 /\ at[i] = Last(acc) THEN acc
                        ELSE Append(acc, at[i])
    IN  IF n <= 2 THEN at ELSE FoldLeft(next, <<at[1]>>, [i \in 1 .. n - 1 |-> i + 1])

\* A line of one point ends where it begins, if there is room.
Ended(o, at) == IF Len(at) = 1 /\ o.max > 1 THEN <<at[1], at[1]>> ELSE at

\* The points of a multipoint that are where none before them is.
Firsts(h, geoms) ==
    FoldLeft(LAMBDA acc, m : IF \E i \in DOMAIN acc : PointsOf(h, acc[i]) = PointsOf(h, m)
                             THEN acc ELSE Append(acc, m), <<>>, geoms)

\* lwgeom_remove_repeated_points_in_place: the heap, and whether a point went.
RECURSIVE Deduped(_, _)
Deduped(h, g) ==
    LET o == h.obj[g]
        at == PointsOf(h, g)
        first == Firsts(h, o.geoms)
        members == FoldLeft(LAMBDA acc, m : LET d == Deduped(acc.heap, m)
                                            IN  [heap |-> d.heap, less |-> acc.less \/ d.less],
                            [heap |-> h, less |-> FALSE], o.geoms)
        done == IF o.type = "Point" THEN [heap |-> h, less |-> FALSE]
                ELSE IF o.type = "Line"
                THEN [heap |-> Written(h, g, Ended(o, Fewer(at))), less |-> Fewer(at) # at]
                ELSE IF o.type = "MultiPoint"
                THEN [heap |-> [FoldLeft(FreeGeom, h, SelectSeq(o.geoms, LAMBDA m : m \notin Range(first)))
                                   EXCEPT !.obj[g].geoms = first],
                      less |-> first # o.geoms]
                ELSE [members EXCEPT !.heap = EmptiesFreed(@, g)]
    IN  IF done.less THEN [done EXCEPT !.heap = WithBox(@, g, NoBox)] ELSE done

-----------------------------------------------------------------------------
(* lwgeom_wrapx: what is left (amount > 0) or right (amount < 0) of cut is moved *)

Shift(h, g, amount) == Affine(h, g, <<<<1, 0, amount>>, <<0, 1, 0>>>>)

\* Lines with a box on both sides are cut by GEOS, and not modelled.
Crosses(h, s, cut) ==
    LET box == BoxAdded(h, s).obj[s].box
    IN  h.obj[s].type = "Line" /\ box # NoBox /\ box[1] < cut /\ cut < box[3]

RECURSIVE Wrapped(_, _, _, _)
Wrapped(h, g, cut, amount) ==
    LET o == h.obj[g]
        boxed == BoxAdded(h, g)
        point == Copy(h, g, TRUE)
        line == Copy(boxed, g, TRUE)
        moved(c, is) == IF is THEN [c EXCEPT !.heap = Shift(@, c.id, amount)] ELSE c
        next(acc, m) ==
            LET d == Wrapped(acc.heap, m, cut, amount)
            IN  [heap |-> d.heap, geoms |-> Append(acc.geoms, d.id),
                 type |-> IF ~Allows(acc.type, d.heap.obj[d.id].type)
                          THEN "Collection" ELSE acc.type]
        all == FoldLeft(next, [heap |-> h, geoms |-> <<>>, type |-> o.type], o.geoms)
        n == Len(all.geoms)
        x == PointsOf(h, g)[1][1]
        box == boxed.obj[g].box
    IN  IF IsEmpty(h, g) \/ amount = 0 THEN point
        ELSE IF o.type = "Point" THEN moved(point, (amount < 0 /\ x > cut) \/ (amount > 0 /\ x < cut))
        ELSE IF o.type = "Line"
        THEN moved(line, (amount < 0 /\ box[1] >= cut) \/ (amount > 0 /\ box[3] <= cut))
        ELSE NewObject(all.heap, Several(all.type, all.geoms, n, n, NoBox))

=============================================================================
