------------------------------ MODULE Objects ------------------------------
(***************************************************************************)
(* A program that makes, copies, changes and frees geometries.             *)
(*                                                                         *)
(* It holds some of the geometries in the heap, and keeps to what the      *)
(* comments ask of it:                                                     *)
(*   - a geometry added to a collection is the collection's from then on;  *)
(*   - points are only written where no other geometry reads them ("make   *)
(*     sure you have permissions for this");                               *)
(*   - a geometry is freed after those that share its points.              *)
(***************************************************************************)
EXTENDS GeomHeap

CONSTANTS
    MaxObject, MaxList,     \* bounds of the heap
    MaxHeld,                \* bound of what the program holds at a time
    MaxCalls,               \* bound of the calls it makes
    MaxCoord, MaxPoints,    \* coordinates are 0 .. MaxCoord, lines this long
    FirstRoom,              \* points the first block of an array is made for
    PointLists,             \* the points lines are made of
    Points,                 \* the points that are set or inserted
    Affines                 \* affine maps

ASSUME BoundsAssumption ==
    /\ {MaxObject, MaxList, MaxHeld, MaxCalls, FirstRoom} \subseteq Nat \ {0}
    /\ PointLists \subseteq Seq(Int \X Int) /\ Points \subseteq Int \X Int

VARIABLES heap, held, calls

vars == <<heap, held, calls>>

Init ==
    /\ calls = 0
    /\ heap = [obj |-> <<>>, list |-> <<>>, faults |-> {}]
    /\ held = {}

-----------------------------------------------------------------------------
(* Bounds, and what the program sees to *)

Fits(h) ==
    /\ DOMAIN h.obj \subseteq 1 .. MaxObject
    /\ DOMAIN h.list \subseteq 1 .. MaxList
    /\ \A l \in DOMAIN h.list :
           /\ Len(h.list[l].at) <= MaxPoints
           /\ \A p \in Range(h.list[l].at) : {p[1], p[2]} \subseteq 0 .. MaxCoord

Becomes(h) ==
    /\ calls < MaxCalls /\ calls' = calls + 1
    /\ Fits(h) /\ heap' = h

\* What was made is held.
Gives(r) ==
    /\ Becomes(r.heap)
    /\ Cardinality(held) < MaxHeld
    /\ held' = held \cup {r.id}

Changes(h) == Becomes(h) /\ UNCHANGED held

ListsBelow(g) == {heap.obj[s].list : s \in Range(Leaves(heap, g))} \ {0}

ReadBy(l) == {x \in DOMAIN heap.obj : IsSingle(heap.obj[x]) /\ heap.obj[x].list = l}

\* Every point below g is g's own, and nobody else's.
Exclusive(g) ==
    /\ \A s \in Range(Leaves(heap, g)) : ~heap.obj[s].readonly
    /\ \A l \in ListsBelow(g) : Cardinality(ReadBy(l)) = 1

\* No geometry that stays shares points that go.
Freeable(g) ==
    LET below == Tree(heap, g)
    IN  \A l \in ListsBelow(g) :
            \/ ReadBy(l) \subseteq below
            \/ \A x \in ReadBy(l) \cap below : heap.obj[x].readonly

Boxless(g) == \A x \in Tree(heap, g) : heap.obj[x].box = NoBox

HasType(g, types) == heap.obj[g].type \in types

Collections == {"MultiPoint", "MultiLine", "Collection"}

-----------------------------------------------------------------------------
(* Making *)

NewPoint == \E p \in Points : Gives(Made(heap, "Point", <<p>>))

NewLine == \E at \in PointLists : Gives(Made(heap, "Line", at))

NewEmpty == \E type \in Collections \cup DOMAIN Multi : Gives(MadeEmpty(heap, type))

\* lwcollection_construct takes the member list it is given.
NewCollection ==
    \E type \in Collections : \E parts \in SUBSET held :
        LET geoms == SetToSeq(parts)
            n == Len(geoms)
            c == NewObject(heap, Several(type, geoms, n, n, NoBox))
        IN  /\ parts # {} /\ \A g \in parts : Allows(type, heap.obj[g].type)
            /\ Becomes(c.heap)
            /\ held' = (held \ parts) \cup {c.id}

\* lwcollection_add_lwgeom does not look at the box, and goes by maxgeoms: the
\* program adds to collections it has made for that, and not to copies.
AddMember(c, g) ==
    /\ c # g /\ CanAdd(heap, c, g) /\ heap.obj[c].box = NoBox
    /\ Becomes(Added(heap, c, g))
    /\ held' = held \ {g}

OwnRoom(c) == heap.obj[c].room = heap.obj[c].max

Making ==
    \/ NewPoint \/ NewLine \/ NewEmpty \/ NewCollection
    \/ \E c \in held : ~IsSingle(heap.obj[c]) /\ OwnRoom(c) /\ \E g \in held : AddMember(c, g)

-----------------------------------------------------------------------------
(* Copying: the geometry stays what it is *)

\* lwgeom_reverse, lwgeom_grid, lwgeom_remove_repeated_points
ReversedCopy(h, g) == LET c == Copy(h, g, TRUE) IN [c EXCEPT !.heap = Reversed(@, c.id)]
GriddedCopy(h, g) == LET c == Copy(h, g, TRUE) IN [c EXCEPT !.heap = Gridded(@, c.id)]
DedupedCopy(h, g) == LET c == Copy(h, g, TRUE) IN [c EXCEPT !.heap = Deduped(@, c.id).heap]

\* A multipoint with an empty point cannot be asked where its points are.
Located(g) ==
    \A x \in Tree(heap, g) : heap.obj[x].type = "MultiPoint" /\ Len(heap.obj[x].geoms) > 1
        => \A m \in Range(heap.obj[x].geoms) : heap.obj[m].n > 0

\* lwline_removepoint
PointRemoved(h, g, i) ==
    LET r == Made(h, "Line", RemoveAt(PointsOf(h, g), i))
    IN  [r EXCEPT !.heap = BoxAdded(@, r.id)]

Clone(g) == \E deep \in BOOLEAN : Gives(Copy(heap, g, deep))

AsMulti(g) == Gives(Promoted(heap, g))

Extract(g) == HasType(g, Collections) /\ \E type \in DOMAIN Multi : Gives(Extracted(heap, g, type))

Homogenize(g) == Gives(Homogenized(heap, g))

ReverseCopy(g) == Gives(ReversedCopy(heap, g))

GridCopy(g) == Boxless(g) /\ Gives(GriddedCopy(heap, g))

DedupeCopy(g) == Located(g) /\ Gives(DedupedCopy(heap, g))

RemovePoint(g) ==
    /\ HasType(g, {"Line"}) /\ heap.obj[g].n >= 3
    /\ \E i \in 1 .. heap.obj[g].n : Gives(PointRemoved(heap, g, i))

Copying ==
    \E g \in held :
        \/ Clone(g) \/ AsMulti(g) \/ Extract(g) \/ Homogenize(g)
        \/ ReverseCopy(g) \/ GridCopy(g) \/ DedupeCopy(g) \/ RemovePoint(g)

-----------------------------------------------------------------------------
(* Changing points in place *)

\* ptarray_insert_point: 32 points of room at first, then twice as many when
\* there is no room left.
Inserted(h, g, p, i) ==
    LET o == h.obj[g]
        at == InsertAt(PointsOf(h, g), i, p)
        first == NewList(h, FirstRoom, at)
        more == NewList(h, 2 * o.max, at)
    IN  IF o.list = 0 THEN [first.heap EXCEPT !.obj[g] = [@ EXCEPT !.list = first.id, !.n = 1, !.max = FirstRoom]]
        ELSE IF o.n < o.max THEN Written(h, g, at)
        ELSE [more.heap EXCEPT !.list = Without(@, o.list),
                               !.obj[g] = [@ EXCEPT !.list = more.id, !.n = Len(at), !.max = 2 * o.max]]

\* lwline_add_lwpoint
InsertPoint(g) ==
    /\ HasType(g, {"Line"})
    /\ \E p \in Points : \E i \in 1 .. heap.obj[g].n + 1 :
           Changes(Refreshed(Inserted(heap, g, p, i), g))

\* lwline_setPoint4d
SetPoint(g) ==
    /\ HasType(g, {"Line"})
    /\ \E p \in Points : \E i \in 1 .. heap.obj[g].n :
           Changes(Refreshed(Written(heap, g, [PointsOf(heap, g) EXCEPT ![i] = p]), g))

ReverseInPlace(g) == Changes(Reversed(heap, g))

SwapOrdinates(g) == Changes(Swapped(heap, g))

Scale(g) == Changes(Scaled(heap, g, <<2, 1>>))

\* lwgeom_affine and lwgeom_grid_in_place leave the boxes alone.
AffineInPlace(g) == Boxless(g) /\ \E m \in Affines : Changes(Affine(heap, g, m))
GridInPlace(g) == Boxless(g) /\ Changes(Gridded(heap, g))

DedupeInPlace(g) == Located(g) /\ Changes(Deduped(heap, g).heap)

Changing ==
    \E g \in {x \in held : Exclusive(x)} :
        \/ InsertPoint(g) \/ SetPoint(g) \/ ReverseInPlace(g) \/ SwapOrdinates(g)
        \/ Scale(g) \/ AffineInPlace(g) \/ GridInPlace(g) \/ DedupeInPlace(g)

-----------------------------------------------------------------------------
(* Boxes, and the end *)

DropBox(g) == Changes(WithBox(heap, g, NoBox))

AddBox(g) == Changes(BoxAdded(heap, g))

AddBoxDeep(g) == Changes(BoxAddedDeep(heap, g, NoBox))

Free(g) == Freeable(g) /\ Becomes(FreeGeom(heap, g)) /\ held' = held \ {g}

\* A line that lwgeom_wrapx moves gets the box of where it was, and so does a point that
\* has one: such geometries are not wrapped here.
BoxesMove(g, cut, amount) ==
    \E s \in Range(Leaves(heap, g)) :
        LET o == heap.obj[s]
            box == BoxAdded(heap, s).obj[s].box
        IN  IF o.type = "Point" THEN o.box # NoBox
            ELSE box # NoBox /\ IF amount < 0 THEN box[1] >= cut ELSE box[3] <= cut

WrapX(g) ==
    \E cut \in 0 .. MaxCoord : \E amount \in {-1, 1} :
        /\ \A s \in Range(Leaves(heap, g)) : ~Crosses(heap, s, cut)
        /\ ~BoxesMove(g, cut, amount)
        /\ Gives(Wrapped(heap, g, cut, amount))

Next ==
    \/ Making \/ Copying \/ Changing
    \/ \E g \in held : DropBox(g) \/ AddBox(g) \/ AddBoxDeep(g) \/ WrapX(g) \/ Free(g)

Spec == Init /\ [][Next]_vars

-----------------------------------------------------------------------------
(* Properties *)

ObjectOK(o) ==
    IF IsSingle(o)
    THEN /\ o.n \in 0 .. o.max /\ o.list \in 0 .. MaxList
         /\ o.list = 0 => o.n = 0
         /\ o.list \in DOMAIN heap.list => o.max <= heap.list[o.list].room
    ELSE /\ Range(o.geoms) \subseteq DOMAIN heap.obj
         /\ \A m \in Range(o.geoms) : Allows(o.type, heap.obj[m].type)

\* Types; a point array has the room it says it has, and a collection only
\* members it allows.
TypeOK ==
    /\ held \subseteq DOMAIN heap.obj /\ calls \in 0 .. MaxCalls
    /\ DOMAIN heap.obj \subseteq 1 .. MaxObject /\ DOMAIN heap.list \subseteq 1 .. MaxList
    /\ \A x \in DOMAIN heap.obj : ObjectOK(heap.obj[x])

Uses(g) ==
    LET places == {<<c, i>> \in (DOMAIN heap.obj) \X (1 .. MaxObject) :
                      /\ ~IsSingle(heap.obj[c]) /\ i \in DOMAIN heap.obj[c].geoms
                      /\ heap.obj[c].geoms[i] = g}
    IN  Cardinality(places) + IF g \in held THEN 1 ELSE 0

\* Whatever is made, copied, taken apart and freed: nothing is freed twice or
\* written past its end, every geometry has one place (a collection, or the
\* program's hands), and every list is there as long as a geometry reads it
\* and has exactly one geometry to free it.
Owned ==
    LET owners(l) == {x \in ReadBy(l) : ~heap.obj[x].readonly}
        read == {heap.obj[x].list : x \in {y \in DOMAIN heap.obj : IsSingle(heap.obj[y])}} \ {0}
    IN  /\ TypeOK
        /\ heap.faults = {}
        /\ \A g \in DOMAIN heap.obj : Uses(g) = 1
        /\ read = DOMAIN heap.list
        /\ \A l \in DOMAIN heap.list : Cardinality(owners(l)) = 1

\* A cached box holds the points of its geometry, whatever was done since it
\* was computed (lwgeom_get_bbox returns it as the geometry's box).
BoxEncloses ==
    \A x \in DOMAIN heap.obj :
        LET box == heap.obj[x].box
            now == BoxOf(heap, x)
        IN  box # NoBox /\ now # NoBox =>
                /\ box[1] <= now[1] /\ box[2] <= now[2]
                /\ box[3] >= now[3] /\ box[4] >= now[4]

RECURSIVE Value(_, _)
Value(h, g) ==
    IF IsSingle(h.obj[g]) THEN <<h.obj[g].type, PointsOf(h, g)>>
    ELSE <<h.obj[g].type, [i \in DOMAIN h.obj[g].geoms |-> Value(h, h.obj[g].geoms[i])]>>

\* A call that returns a new geometry changes none of the others (its arguments
\* are const), and a call that changes a geometry in place changes no other.
ConstKept ==
    [][ LET changed == {g \in held \cap held' : Value(heap, g) # Value(heap', g)}
        IN  IF held' \ held = {} THEN Cardinality(changed) <= 1 ELSE changed = {} ]_vars

=============================================================================
