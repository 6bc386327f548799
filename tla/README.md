# A TLA+ model of lwgeom

lwgeom is an R package around a copy of liblwgeom, the C library of geometries
from PostGIS. The R side is thin: a list of geometries goes to C++ as WKB, is
read by `lwin_wkb.c` into `LWGEOM` objects, one function of the library runs on
each, and the results go back as WKB through `lwout_wkb.c`. What can go wrong is
in the library: sequential C that keeps tables of edges and faces consistent over
long series of edits, shares memory between copies, reads and writes compact
binary forms, and combines answers of an index and of GEOS in an order that
neither promises.

This directory holds specifications of the parts whose correctness depends on
such orders and histories, configurations that check them with TLC, and proofs
that TLAPS checks. Every action names the function it stands for by carrying its
name; `PROJECT.json` maps each definition to its lines.

## 1. Inventory

There is one thread. Nothing is persisted by the library itself: a topology lives in a
backend reached through callbacks (`LWT_BE_CALLBACKS`), everything else in memory.
"Order" below is therefore the order of calls, of candidates from an index, of
bytes in a stream.

| Component | State | Operations | Interacts with | What is hard | What makes it correct |
|---|---|---|---|---|---|
| ISO topology (`lwgeom_topo.c`) | node, edge and face tables | add, split, heal, remove, move, change shape | backend callbacks, GEOS, `ptarray.c` | links and labels are caches of the geometry, maintained by local edits over long histories; several writes per call | links walk each ring, agree with the drawing; each label names the region beside it |
| Union-find (`lwunionfind.c`) | parents, sizes, counter | create, find, union, order, renumber | clustering | compression during find; size kept at roots only | forest, sizes and counter agree with one partition |
| Clustering (`lwgeom_geos_cluster.c`) | union-find, flags, result of the last index query | intersecting, within distance, DBSCAN | index and measures | any order of candidates; border geometries; failing measurements | answers depend on the relation, not on the order |
| WKB reader (`lwin_wkb.c`) | one parse state shared by all nested geometries | one function per geometry type | R glue | truncated or damaged streams; state left by members | what was written is read; no read past the end |
| WKB writer (`lwout_wkb.c`) | none | size and bytes, by two recursions | R glue | two recursions that must agree | size is the number of bytes |
| Geometry objects (`lwgeom.c`, `ptarray.c`, `lwcollection.c`, ...) | ordinates, members, cached box | construct, copy, add, change in place, free | everything | copies that share ordinates; capacity; stale boxes | each list has one owner; boxes enclose what they are boxes of |
| Serialized geometries (`gserialized*.c`) | none | write, read, peek | PostGIS only | computed sizes, peeking without reading | round trip, peeks agree |
| TWKB (`lwin_twkb.c`, `lwout_twkb.c`, `varint.c`, `bytebuffer.c`) | running coordinate | write, read | R (`twkb.R`) | deltas, rounding, sizes written first | round trip up to precision |
| Cutting (`lwgeom.c` subdivide, `lwgeom_wrapx.c`, `lwgeom_geos_split.c`, `lwlinearreferencing.c`) | none | subdivide, wrap, split, substring | GEOS overlay | recursion and its limit; pieces on the cut | pieces add up to the whole |
| Geodetic (`lwgeodetic.c`, `lwgeodetic_tree.c`, `lwspheroid.c`) | distance tree | distance, area, covers, segmentize | R (`geod.R`) | pruning; antipodal edges | the pruned search finds the minimum |
| Measures and algorithms (`measures*.c`, `lwalgorithm.c`, `lwstroke.c`, ...) | none | | everything | floating point | |
| Text forms (`lwout_gml.c`, `lwout_geojson.c`, `lwout_svg.c`, `lwout_kml.c`, `lwout_x3d.c`) | string buffer | one writer per format and type | nothing from R | sizes computed before writing; indices into a list of points | never shorter than the text; every ordinate once |
| Well-known text (`lwin_wkt*`, `lwout_wkt.c`) | parser stack, global result | write, read | R (`wkt.R`) | what an error leaves behind; dimensions known late | what was written is read or refused for a reason; each block freed once |
| GEOS and PROJ bridges | none | conversion | GEOS, PROJ | errors reported through handlers | |
| R glue and R code | handlers set at attach | one loop per function | all | errors that unwind through C; ignored return values | |

The hazards of these components, each at its line, are in `PROJECT.json`.

## 2. Modules

```
TopoGeom, TopoLinks <- Topo <- MCTopo
          TopoLinks <- TopoLinksProofs
           TopoGeom <- TopoGeomProofs -> Induction

Topo, TopoLinksProofs, TopoGeomProofs <- TopoProofs

Partition <--INSTANCE-- UnionFind
                            ^
                         Cluster <- ClusterProofs
                            ^
                        MCCluster

WkbFormat <- WkbIn <- WkbInProofs -> Induction
    ^          ^
  WkbOut <--- Wkb <- MCWkb

GeomHeap <- Objects <- MCObjects

TopoGeom <- Topo <- TopoBulk <- MCTopoBulk

WkbFormat <- SerialBody <- Serialized --INSTANCE--> Gserialized1, Gserialized2
                               ^
                         MCSerialized

Varint <- VarintProofs -> Induction

Varint, WkbFormat <- TwkbOut <- TwkbIn <- Twkb <- MCTwkb

WkbFormat <- TextPieces <- GmlOut <- MarkupOut <- TextOut <- MCTextOut

WktOut, WktIn <- Wkt <- MCWkt
         WktIn <- WktProofs -> Induction
```

(`A <- B`: B extends A.)

### Topology

A row of the edge table is two *darts*: `e` is edge e walked from start to end,
`-e` the same edge walked back, as the code itself writes signed edge numbers.
`next[e]` is `next_left`, `next[-e]` is `next_right`, `org[e]` the start node,
`org[-e]` the end node, `left[e]` is `face_left` and `left[-e]` `face_right`.

* `TopoLinks.tla` keeps nodes, darts, origins and links only. Where the code
  chooses a corner by azimuth, any corner is allowed. One action per operation:
  `AddIsoNode`, `RemoveIsoNode`, `AddIsoEdge`, `AddEdge` (both
  `lwt_AddEdgeModFace` and `lwt_AddEdgeNewFaces`, whose links are the same),
  `RemEdge`, `RemIsoEdge`, `ModEdgeSplit`, `NewEdgesSplit`, `ModEdgeHeal`,
  `NewEdgeHeal`, each with `Links` before its name.
* `TopoGeom.tla` is the geometry those operations compute, on integers: side of a
  segment, crossing, winding number, signed area, clockwise order of directions.
* `Topo.tla` has the whole tables and the whole handlers: guards in the order of the
  code, azimuths, face splitting with its relabelling of edges and nodes, joining of
  faces, boxes, `lwt_MoveIsoNode`, `lwt_ChangeEdgeGeom`. It extends `TopoLinks`, whose actions are part of
  its own where the effect on the links is the same; `ImplementsLinks` states that every step is one of `TopoLinks`. `SpecAnyChange` leaves
  `lwt_ChangeEdgeGeom` unrestricted (see below); the drawing and the links hold for it too.

* `TopoBulk.tla` composes them: `lwt_AddPoint`, `lwt_AddLine`, `lwt_AddLineNoFace` and
  `lwt_AddPolygon` are calls that run piece by piece through the steps of `Topo`, with
  snapping, splitting and the reuse of edges that coincide; `lwt_Polygonize` traces the
  rings and names all faces at once; `lwt_GetFaceByPoint`, `lwt_GetNodeByPoint`,
  `lwt_GetEdgeByPoint`, `lwt_GetFaceEdges` and `lwt_GetRingEdges` are operators. Noding and
  snapping by GEOS are exact here because lines run along the axes between grid points. What is
  loaded is either named edge by edge or not at all before `Polygonize` (`Unlabelled`): the code
  stops with "faces mismatch" on a mixture. `Polygonize` leaves `containing_face` of isolated
  nodes as it was, so it is called where there are none (`NoIsolatedNodes`).

An operation that fails is no step: every failing path returns before the
caller commits, and the backend's transaction undoes what was written.

Three operations are restricted in `Next`, because the code does more than it
should; the definition of each action is the code's, the restriction stands in
`Next` beside it. `NewEdgesSplit` is taken when no other edge's `next_right` is the
edge that is split (`NoRightReference`); without this the run `links_all` breaks
the links. `ChangeEdgeGeom` keeps the orientation of the rings on both
sides (`KeepsOrientation`); without this an open edge of a two-edge ring may be moved across
the other one (`lwgeom_topo.c:3275` looks at closed edges only, while `liblwgeom_topo.h:1255`
wants the topology kept), and the labels no longer name the regions.
`MoveIsoNode` moves within a face; the code does not look, and says so in a TODO
(line 3574).

### Union-find and clustering

`UnionFind.tla` has the arrays of `UNIONFIND` and `Find`, `Union` with path
compression as the code does it. `Partition.tla` is what it promises: a set of
disjoint blocks that unions merge; `PartitionSpec` maps blocks to the sets of
elements with one root.

`Cluster.tla` extends it and adds the loops. A *scene* says which pairs
are near, which only have close boxes, which geometries are empty and
which measurements fail; the index may return candidates in any order, so
each visit picks any candidate left. Emission (`Collect`, `Assign`) goes set by
set and within a set in any order, as the comparison of the sort is by address.

### WKB

A stream is a sequence of *fields* (mark, type, srid, count, points) with their width in
bytes, in the order and the byte order written. `WkbOut.tla` has both recursions of the
writer, `Size` and `Written`. `WkbIn.tla` is the reader as a state machine: the
parse state (`pos`, swapping, dimensions, SRID, checks) is one for all levels, as in the
code; the C stack is `stack`; a read is a look at the bounds (`LetThrough`) and then a use. A field read at
a wrong offset or in the wrong byte order gives an arbitrary number; the model calls it
garbled and follows the stream no further. `Wkb.tla` joins the two:
a geometry is written, the stream maybe damaged, cut off, written in the other byte order at
some depth or in the old numbering of dimensions (`Turned`, `Aged`, `Spoilt`), and read.
A count that passes the limit of `ReadNPoints` is multiplied by the size of a point in the width of
`unsigned int` (`UINT_MAX`), and the test for the end goes by that product, while the ordinates are taken
by the count: `far` is the last byte looked at, which no definition keeps inside the stream. The width is a parameter, 16 bits in the
run, so that products do wrap. An array without points is not closed, as `ptarray_is_closed_2d` has it.
`RoundTrip` leaves out empty points in the SFSQL form, of which the code writes as many NaNs as
they have dimensions while the type announces two (`lwout_wkb.c:361`).

### Serialized geometries

A serialization is a header and a sequence of words of four bytes. `SerialBody.tla` has what
both versions share: the recursion that computes the size, the one that writes, the one that
reads, and the walks that look for the type of a member, emptiness, the first point or a box
without reading; doubles take two words, floats one, and a double read from anything but its
two halves is garbled, so that a wrong offset shows. `Gserialized1.tla` and `Gserialized2.tla`
have the headers, flags and edits of each version, `Serialized.tla` keeps a column of
serializations of both versions that are made, edited in place, read and compared. Boxes are not set over
extended flags (`Plain`): `gserialized2_set_gbox` writes them where the flags are. Flags are extended for solids only:
the read-only flag, which also asks for it (`gserialized2.c:76`), is set on arrays of points and never on a geometry.
A polygon whose rings are all empty is empty when it is read (`lwpoly_is_empty` looks at the first ring) and not to the
look inside, which counts rings (`gserialized2.c:246`); `PeeksAgree` names this one difference (`HasHollow`).

### TWKB

`Varint.tla` has numbers of variable length and zig-zag, in digits of `Base`.
`TwkbOut.tla` rounds as the code does (half away from zero) and threads the state
of the writer through its functions: the bytes so far, the box, the last point
written, the IDs left. `TwkbIn.tla` does the same for the reader; an error empties what follows.
A byte is read first and then tested against the end, as in
`byte_from_twkb_state`: `beyond` remembers that the one behind the stream was read. `RoundTrip` says that a whole stream is read without it.
A word has a width (`Half` is 2^63 in the code): the least signed word is read back as 0.
The reader means to skip rings without points and does not: with the checks they are an error, without them each becomes a ring of one point that
was never set (`Leftover`).
`Twkb.tla` writes with any options, cuts the stream anywhere, reads. What the format cannot
hold is named in the expectation: points that rounding brings together are left
out (down to what the type needs), boxes are those of the rounded points.

### Text formats

A text is the sequence of pieces it is printed from, each with its length, so that room and
brackets are counted without characters. Each writer has its room function and its print
function, paired as in the code (`Gml3PolyRoom`, `Gml3Poly`). `TextOut.tla` has a caller ask for
one text after another. Where the code goes by memory it never set, the model does not follow:
SVG and X3D of empties, the box of an empty GeoJSON (`Defined`).

The writers that compute a size first (GML, GeoJSON, SVG) print with `snprintf(ptr, strlen(ptr), ...)` into a block
fresh from `lwalloc` (`lwout_gml.c:287`, `lwout_geojson.c:191`, `lwout_svg.c:172` and all others): the limit is the length of what
the block happens to hold, and once a call has fit, the zero it wrote is the limit of the next. So at most what the first
call prints is in the text the caller gets. `out` is what is printed, `got` is what arrives (`Arrivals`), any beginning of
the first call. `TextFits` is about `out`: the pointer runs through all of it whatever arrives, because
`snprintf` answers with the length it would have printed. `WellFormed` and `ShowsPoints` speak of `got`, of texts that arrive whole
(`Arrived`): all of KML and X3D, which print into a string buffer, and of the others those that one call prints.
No property promises that texts of the sized writers arrive, because they need not.

Cases that are known to go wrong are excluded by name: too little room (`Measured` and large numbers in a box of GeoJSON, in `TextFits`), an exponent that loses a zero
(`Exponents`), an element of X3D closed in two dimensions that was not opened (`Spatial`), and indices of a polyhedral
surface with inner rings (`Unpierced`).

### Well-known text

The text is a sequence of tokens. `WktOut.tla` is the writer in its three forms. `WktIn.tla` is
the reader: the functions that the grammar's reductions call, each with the blocks it makes, those it frees
and the error it sets, and the parser around them. A geometry is a tree of blocks, a function from
the path of each block to the block, so that nothing about it needs recursion. `Grammar` gives the productions construct by construct
(what may stand between its brackets), the stack holds the constructs that are open, an
action is one shift or reduction, and `GiveUp` is what bison does on an error: the symbols of
the failing rule are popped without being destroyed, those below are destroyed, and
`lwgeom_parse_wkt` frees a geometry that was complete. The heap records blocks that are live and any that is
freed twice. `Wkt.tla` is the way there and back. Texts are whole, cut off, or have a token missing or twice;
some are written by hand, as no writer makes them.

What can be relied on is less than one would think. A collection's flags are those of its first member unless
letters name them; letters are compared with the number of dimensions of direct members only (`lwin_wkt.c:805`), and
`wkt_parser_set_dims` then gives them to all that is below. So `GEOMETRYCOLLECTION Z (GEOMETRYCOLLECTION (POINT (0 0 0),
POINT (0 0)))` is read with a point of two ordinates that is called Z, and in `CURVEPOLYGON Z (LINESTRING M (...))` a ring that
was closed in the plane becomes one that may be open in Z. `ChecksKept` therefore promises rings that are closed in the plane, and
`DimensionsKept` speaks of a geometry and of a collection's direct members, not of what is deeper.

`ReadBack` says exactly which written texts are refused (`Unread`). Some of them are surprises
in the code: a ring of a `TIN M` closes only if its measure does, since three ordinates are taken
for Z until the letters are seen; an empty ring, patch or triangle of a TIN is written and cannot be read; the
SRID 999999 is allowed by `clamp_srid` and dropped by `wkt_parser_geometry_new`.

### Geometry objects

`GeomHeap.tla` has the functions: each takes a heap (geometries and lists of points, with
what an allocator would object to) and gives the heap it leaves. A point array is part of
its geometry, as in the code, where none is shared; the list behind it
may be. A collection has the room its member array was allocated for beside `maxgeoms`.
`Objects.tla` is a program that calls them in any order. Sharing is the caller's burden
in liblwgeom, so the rules a caller has to keep are guards with names of their own:

* `Exclusive`: points are written in place only where nobody else reads them;
* `Freeable`: the owner of a list goes after its readers, or with them;
* `Boxless`: `lwgeom_affine` and `lwgeom_grid_in_place` leave the boxes alone and are used
  where there are none;
* `OwnRoom`: members are added to collections that were not copied; a copy takes `maxgeoms`
  along but gets room for `ngeoms` only (`lwcollection.c:123`), and adding to it writes past
  its array (`lwcollection_reserve` promises to hold at least `ngeoms`);
* `Located`: repeated points are not looked for in a multipoint with an empty member.

* `BoxesMove`: `lwgeom_wrapx` caches a box in its input, copies it and shifts the points of the copy;
  lines are wrapped where they stay, points where they have no box. Geometries that are cut need GEOS and are left out.

## 3. Runs

Each property is also shown to fail when a definition of the model is replaced by a defective
one (the definitions commented "A defect" or "Mutation"). The types of the variables are checked with
the first invariant of `topo`, `cluster`, `objects` and `unionfind`, and proved for `links`, `topo`, `unionfind`, `cluster` and the readers of WKB and WKT.

| Run | Instance | States | Shows |
|---|---|---|---|
| `links` | 4 edge ids, 3 node ids | 386,855 | `LinksOK`: links lead where the dart ends and are a permutation; `OneRotation`: all ends at a node are one cycle; `RemEdgeArraysFit` |
| `topo` | 4 edges, 4 nodes, 4 faces on the drawing of `MCTopo` | 38,385 | `Planar`, `NextIsClockwise`, `FacesOK`, `FaceTableOK`, and the step by step implementation of `TopoLinks` |
| `unionfind` | 6 elements | 736 | `ForestOK`: `Rooted`, `SizesCount`, `NumClustersCounts`; `PartitionSpec` |
| `cluster` | 7 geometries, min_points 1 to 4, 5 kinds of scene | 49,521 | `CollectionsAreChains`, and nothing but a failed measurement fails; `DbscanCorrect`, but for exactly `min_points` inputs (`lwgeom_geos_cluster.c:404` finds no cluster among them) |
| `wkb` | all 15 types, depth 3, 4 dimensionalities, 3 forms, 2 byte orders, cuts and damages, counts up to where a 16-bit product wraps | 75,322 | `NeverPastEnd`, `SridInherited`, `SizeAgrees`, `RoundTrip`, `DamageFails`, `ChecksKept` |
| `objects` | 5 calls, 2 geometries held, points on a 3 by 3 grid, lines of up to 4 points | 156,205 | `Owned`: nothing freed twice, lost, or read after it is gone; `BoxEncloses`; `ConstKept` |
| `bulk` | 3 calls out of four lines, two polygons, three spots with and without tolerance, on nested squares and a knotted line | 6,613 | `Labelled`, `LinesSewn`, `PointsPlaced`, `PolygonsCovered`, `QueriesAgree` |
| `serial` | 26 layouts in four dimensionalities, geodetic and solid flags, three SRIDs, both versions, a column of six | 27,709 | `ReadBack`, `PeeksAgree` (contents and boxes), `Sorted` (within one SRID) |
| `twkb` | 20 layouts in three dimensionalities, three precisions, 8 values to a byte, words of 2,000,000 values, every option, cut anywhere | 67,710 | `RoundTrip`, `CutFails`, `SizesLead` |
| `text` | 20 layouts in two to four dimensions, eight formats, five sets of options | 4,997 | `TextFits`, `WellFormed`, `ShowsPoints` |
| `wkt` | 45 layouts in four dimensionalities, three forms, with checks and without, hurt at every token; texts that no writer makes | 37,122 | `ReadBack`, `NothingLost`, `ChecksKept`, `DimensionsKept`, `CallsReturn` |
| `links_all` | as `links` | | violation: `NewEdgesSplit` and `EndsMeet` |

`links_all` is the one run that is expected to fail; its counterexample is a split of an edge with a neighbour.

**Why the bounds are enough.** Three nodes and four edges hold every local situation the
linking code distinguishes: bridge, dangling edge, closed edge alone and among others, two edges
between the same nodes, two closed edges at one node, a split followed by healing.
The drawing of `topo` has a face split in two, a hole that becomes a face of its own,
an island, an edge with the same face on both sides. Seven geometries are enough for two
cores of three with a border geometry both reach. A depth of three has a
member whose state could leak into its sibling and its parent's sibling.
Five calls make two geometries, collect them, copy or nest the collection, and edit, take apart
or free one side before the other is looked at; the first block of a point array
has room for 2 points and not 32 (`FirstRoom`), so that growing happens.
In `bulk` three calls are enough for a line that runs across and along two others, and a polygon that shares
edges with one drawn before. With 8 values to a byte a count of 7 points fills its byte and one of
8 needs another, as 127 and 128 do. The geometries of `text` have the numbers at both ends of what is
printed without an exponent, and members at depth three. `serial` has rings in odd and even number,
since the padding depends on it, and points with one middle but different bytes, which the hash cannot tell apart.
`wkt` has every construct empty, with an empty part, too short, open, and open in the third ordinate only.
The identifier sequences are the only counters of the topology and are bounded by `MaxEdge`, `MaxNode` and
`MaxFace`; identifiers are never reused, so runs end when they are used up,
and `CHECK_DEADLOCK FALSE` is said for that. The reader and the clusterings are calls that
return and the program of `Objects` ends after `MaxCalls` calls, which are the other
reasons to say it.

**Fairness.** `WktIn` assumes weak fairness of `Parse`, the steps of a call that has begun: it is
one sequential C function that nothing suspends. `CallsReturn` says that the parser comes to an end on any tokens.
Nothing else is assumed; a caller need never call. The other properties are safety.

## 4. Proofs

| Module | Theorem | For every |
|---|---|---|
| `TopoLinksProofs` | `TypeCorrect`, `LinksCorrect`, `RotationCorrect`, `RemEdgeArraysSafe` | bound on edges and nodes |
| `TopoProofs` | `PlanarCorrect`, `TablesCorrect`, `ClockwiseCorrect`, `TopoLinksImplemented`, `AnyChangeDrawn` | number of nodes, edges and faces, set of points and of lines with integer coordinates, nodes loaded at the start |
| `TopoGeomProofs` | lemmas about segments, order around a point, simple lines, lines reversed, cut and joined | coordinates, number of points of a line, number of ends at a node |
| `ClusterProofs` | `TypeCorrect`, `RootedCorrect`, `SizesCorrect`, `NumClustersCorrect`, `ForestCorrect`, `ImplementsPartition` (union-find) | number of elements |
| | `ClusterTypeCorrect`, `CollectionsCorrect`, `NumbersCorrect` | number of geometries, scene, order of candidates |
| `WkbInProofs` | `TypeCorrect`, `StaysWithin`, `SridCorrect`, `ChecksCorrect` | stream, valid or not |
| `WktProofs` | `WktInvariant`, `NothingLostCorrect`, `WktSound`, `ChecksKeptCorrect`, `DimensionsKeptCorrect` | sequence of tokens, well-formed or not, any depth, any checks |
| `VarintProofs` | `ZigzagInverse`, `ZigzagInjective`, `UnsignedReadBack`, `ReadBack`, `CutOffFails` | number in a word, base, width of a word, place in a stream |
| `Induction` | `LeastNumber`, `StrongInduction`, `NumberInduction`, `RecursionExists` | set of numbers, step |

*Links.* The inductive invariant is `TypeOK /\ LinksOK`. Neither half is
inductive: removing an edge redirects the darts before it to the darts after it, which leaves
two darts with one successor unless each had one before. The array bound follows
without induction: each of the two darts of an edge has one predecessor, hence at most two
rows on each side. Each operation is a lemma on functions (what `Bypass`,
`InsertEdge`, `Renamed` do to an injective function whose ends meet).

*Union-find.* That every element reaches a root is stated without recursion: a non-empty
set of elements that the pointers never leave contains a root. This form is preserved by
compression and by linking one root to another, and implies by well-foundedness what
the recursive one would. Sizes need that the members of two roots are disjoint
and that the size is 0 elsewhere; the counter needs that a union removes exactly one root.
The refinement maps each step to a step of `Partition` or to a stutter.

*WKB reader.* `IInv` is `Within /\ Progress /\ Inherited`: the bounds that were looked at still hold when the bytes are
touched (`LookedAt`), and nothing beyond the end was (`NeverPastEnd`); the stack is well formed; every geometry made or open has the SRID in force.
The look goes by one product, the use by two others, all of them in the width of `unsigned int`; `SumsAgree` shows
that the limit on counts (`maxpoints`) keeps the three the same, whatever the width. Without it they differ and `NeverPastEnd` fails.
No assumption is made about the stream, so the theorems hold for damaged ones too.

`ChecksKept` speaks of every depth of what was read. The invariant says instead that each
geometry on the stack or finished is `Sound`: it is in a set whose members meet the checks and which holds the members
of what is in it. A geometry that is made from sound members is sound by adding it to the union
of their sets, which needs no induction; that the levels inside a sound geometry
stay in its set is one induction over their number. `Meets` looks at a geometry alone, and each action that
makes one has just tested it (`Refused`), under checks that no other action takes away.

*WKT reader.* No assumption is made about the tokens but that they are tokens. The invariant of the heap, `Inv`, is
`TypeOK /\ Stacked /\ Nested /\ OwnedOnce`: each live block belongs to exactly one construct on the stack, or the symbol just
reduced, or the finished geometry; what is on the stack is of the kind its construct builds; and only the innermost
construct waits for an element. A lemma per function of the parser gives its `Contract`: the blocks of what
it returns and of what it frees are together those of its arguments and those it made, each once, and on an error all are freed.
`GiveUp` then frees what each remaining owner has, which is disjoint from the rest. `NothingLost` follows.

`ChecksKept` and `DimensionsKept` need a second invariant, `AllSound`, beside the first:

* `StackSound`, `ValueSound`: what is open, waits or is finished is `Even` (one number of dimensions where they are promised)
  and `Plain` (only arrays have points), and `Fine` (`Promise` holds at every path) if all checks were asked for.
* `Promised` says of a construct that is still open more than the property says of a closed one: the
  parts of a compound curve are a `Chain`, whose joints are in place before the name `COMPOUNDCURVE` is given by the last
  reduction. `Assembled` does so for dimensions: a ring list is uniform before its letters are looked at.
* `FitsIn`: what a construct may hold is decided by `Grammar` when it is opened, many steps before it is added.
  Without it a collection could stand where a ring is expected.
* Relabelling: `SetDims` keeps points, so it keeps every promise that looks at the plane (`Relabelled`). Letters are
  compared with members that are not empty; an empty member has no arrays, so relabelling cannot make its points wrong (`Bare`).

Trees are functions on paths, so that a part of a part is a part, and no induction over depth is needed.
TLC checked `Inv /\ AllSound` on the instance of `wkt` before they were proved.

*Numbers.* Zig-zag is by cases on the sign; the division by two is given its quotient and remainder. Decoding adds one in
the width of the word, so that the largest word wraps: it is the form of the least number, which is read back as 0 (`Back`). The theorems say so,
and that for every other number nothing wraps.
The writer and the reader are recursive functions: the writer takes the last digits first, the reader
adds up from the last byte back. Strong induction on the number shows that
what is written ends in its only byte below `Base` and carries the number; `ReadBack` puts it anywhere
in a stream. A stream cut inside a number has no such byte left.

*Induction.* The provers cannot instantiate the library's induction theorems, whose parameters
are operators. `Induction.tla` has the same facts with sets in place of operators, from the
well-foundedness of the order of the numbers: a non-empty set of numbers has a least one. `RecursionExists` shows that a
function on the numbers given by recursion exists, by a least counterexample.

*Rotation.* The darts that leave a node are one cycle of `next[-d]` exactly if no proper
part of them, not empty, is closed under it. In this form the property is inductive together
with `TypeOK /\ LinksOK`, and the operations are three kinds of change: a dart spliced into a cycle after
another (adding, splitting), a dart taken out (removing, healing), a dart renamed (splitting, healing). A closed
part of the rotation after the change gives one of the rotation before, which is everything or nothing.
`OneRotation` counts the steps back to a dart instead; that the darts reached by steps are closed, and that a closed
set is reached in as many steps as it has members, connects the two.

*Drawing.* `Planar` and `NextIsClockwise` speak of what the code looks at: signs of products at the vertices
of lines, and the one end that `_lwt_FindAdjacentEdges` finds. Neither is inductive, since a
part of a line has vertices the whole does not have. `TopoInv` says the same of all points:

* `Drawn`: lines are simple and any two of them apart, segment by segment (`Clear`: at most one point in common, which is an end
  of one), and whatever node lies on an edge is an end of it. `ApartMeaning` and `SimpleMeaning` show
  that `InteriorsMeet` and `IsSimple` decide this; a part of a segment stays clear of what the segment was clear of
  (`ClearPart`), so that lines cut at a point and joined at a node stay simple and apart.
* `Clockwise`: around every node `Turned`, the dart that follows in the links, is the
  next end clockwise (`Turns`). Ends added, taken out, renamed by a split or heal, or moved by a change of
  shape keep it, provided that ends at one node leave in different directions; they do because edges
  are apart. `ClockwiseBefore` is shown to be a cyclic order of directions, wherever it is started, from signs of
  determinants, and the loop of `_lwt_FindAdjacentEdges` to find the first and the last of it.
* `IsolatedAlone`: a node has a `containing_face` exactly if no edge ends there. The calls for isolated nodes
  look at that field and at no edges, so the drawing needs it.
* `Tables`, `LabelsTypeOK` and the invariant of the links.

The parts need each other: the corner that is chosen must be one of the node's for the links to stay a
permutation, and the links are followed to find which edges a removal leaves behind. Each action
has a lemma (`AddEdgeKeeps`, `SplitKeeps`, `HealKeeps`, ...) that its step keeps `TopoInv` and is a step of
`TopoLinks` or leaves its variables alone. The assumptions are `BoundsAssumption` and `GeometryAssumption`: points and lines have integer
coordinates, lines have at least two points and repeat none at once, and the nodes loaded at the start are at different
places. The theorems cover every sequence of calls in `Spec`, and in `SpecAnyChange`, where an edge may be moved
across another ring: that disturbs the labels, not the drawing.

*Clustering.* `ClusterInv` has a part per phase and mode. During the scan every block of the
union-find lies within a chain of near geometries (of near cores for DBSCAN, but for the border
geometries each joined to one core), and every pair already visited is joined; DBSCAN adds that what is in a cluster is near
a core of its own block and what is in none is alone, that near cores are in one block unless one of them is still to be looked at, and what the neighbours counted so far can be (`PlainOK`, `DbscanOK`). When the scan is over all pairs have been visited, so
that blocks are chains. Emission keeps the array in bounds because each collection or number
uses up a root, and the counter counts the roots: this is where the invariant of the union-find is used, whose
lemmas about `Find` and `Union` are cited for each step. TLC checked `ClusterInv` on small scenes before it was proved.

Only model-checked: `FacesOK` and `FaceTableOK` in `Topo` and everything in `TopoBulk`, which
rest on what a closed line winds around (that a ring splits a face in two is the
Jordan curve theorem on integer polygons, with winding numbers that are sums over lines of any length); what is about operators that are RECURSIVE over geometries or texts, from which tlapm takes
its arithmetic away: the properties of `Wkb` and `Wkt` that compare with the writer, `Objects`, and the serialized, TWKB and
text forms; and `CallsReturn`, which is liveness.

## 5. Not modelled

Named in `PROJECT.json` with the reason. In short: floating point itself (geodesics, areas,
measures), the overlay and relation algorithms of GEOS, projections of PROJ, cutting
(`lwgeom_subdivide` and `lwgeom_split` are GEOS calls in a loop), encoded polylines, GeoJSON input
(compiled only with json-c), the digits of numbers, and the R glue.

## 6. Plan

1. Proofs: `TopoInv` for the steps of `TopoBulk`; `Size` and `Written` of the WKB writer as recursive
   functions, to prove that they agree; `ConstKept` and the sharing half of `Owned` in `Objects`. Of `FaceTableOK`, that
   every face referred to has a row needs winding too: `lwt_AddEdgeNewFaces` drops the old face after giving away
   what is inside one ring and outside the other, without looking whether anything kept it.
2. Geometry objects: polygons with their rings, simplification and the forced dimensions.
3. Cutting (subdivide, substring), pruned distance tree.
