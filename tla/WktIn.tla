-------------------------------- MODULE WktIn --------------------------------
(***************************************************************************)
(* The reader of well-known text: a parser generated from a grammar, and   *)
(* the functions its reductions call to build the geometry.  Every array   *)
(* of points and every geometry it makes is a block on the heap; a         *)
(* reduction that fails has to free the blocks of the symbols it replaces, *)
(* the parser frees those of the symbols below them.                       *)
(*                                                                         *)
(* A geometry is a tree of blocks: a function from the path of each block, *)
(* which says part after part how to come to it, to the block.             *)
(***************************************************************************)
EXTENDS Integers, SequencesExt, FiniteSets

CONSTANTS
  Sources,      \* what is read: records with text and check, and what the text was made of
  SridMaximum,  \* SRID_MAXIMUM
  SridUser      \* SRID_USER_MAXIMUM

\* LW_PARSER_CHECK_ALL
AllChecks == {"MINPOINTS", "ODD", "CLOSURE"}

ASSUME SourcesAssumption ==
  \A s \in Sources : s.text \in Seq([t : STRING, v : Int]) /\ s.check \subseteq AllChecks

VARIABLES
  source,  \* what is being read
  text,    \* its tokens
  at,      \* the place of the lookahead
  stack,   \* the constructs that are open, outermost first
  value,   \* the symbol just reduced, before it is added to the construct around it
  result,  \* global_parser_result
  srid,    \* the value of the SRID token
  phase,   \* idle, parsing, returned
  heap     \* which blocks are live, how many were made, whether one was freed twice

vars == <<source, text, at, stack, value, result, srid, phase, heap>>

NoSource == [is |-> "nothing"]

-----------------------------------------------------------------------------
(* Trees of blocks *)

\* The tree without a block.
Nothing == <<>>

\* A geometry, or an array with its points; parts counts the geometries, rings or arrays below.
Block(id, type, flags, pts) ==
  [id |-> id, type |-> type, z |-> flags.z, m |-> flags.m, pts |-> pts, parts |-> 0]

Leaf(block) == [path \in {<<>>} |-> block]

Root(v) == v[<<>>]

\* The tree from path p down, and the part of this number.
Subtree(v, p) ==
  LET paths == {SubSeq(q, Len(p) + 1, Len(q)) :
                  q \in {q \in DOMAIN v : Len(p) <= Len(q) /\ SubSeq(q, 1, Len(p)) = p}}
  IN  [r \in paths |-> v[p \o r]]

Part(v, i) == Subtree(v, <<i>>)

\* v with one more part.
With(v, part) ==
  LET k == Root(v).parts + 1
      paths == {<<k>> \o q : q \in DOMAIN part}
  IN  [p \in DOMAIN v \cup paths |->
         CASE p \in paths -> part[Tail(p)]
           [] p = <<>> -> [Root(v) EXCEPT !.parts = k]
           [] OTHER -> v[p]]

WithRoot(v, block) == [v EXCEPT ![<<>>] = block]

\* The blocks of an array or a geometry.
Blocks(v) == {v[p].id : p \in DOMAIN v}

-----------------------------------------------------------------------------
(* What a function of the parser does *)

\* The value it returns, the blocks it makes, those it frees, and the error it sets.
Returned(v, new) == [value |-> v, new |-> new, freed |-> {}, error |-> ""]
Refused(error, new, freed) == [value |-> Nothing, new |-> new, freed |-> freed, error |-> error]

\* The next block, and the one after a block that was just made.
Fresh == heap.made + 1
After(array) == IF Root(array).id > heap.made THEN Root(array).id + 1 ELSE Fresh

\* A list of conditions with the errors they are; the first that holds counts.
FirstFault(faults) ==
  LET found == {i \in DOMAIN faults : faults[i][1]}
  IN  IF found = {} THEN "" ELSE faults[Min(found)][2]

-----------------------------------------------------------------------------
(* Dimensions *)

FlatFlags == [z |-> FALSE, m |-> FALSE]
NDims(flags) == 2 + (IF flags.z THEN 1 ELSE 0) + (IF flags.m THEN 1 ELSE 0)

\* wkt_dimensionality.  The token is a pointer into the text, so what follows the letters
\* can be seen too; reading stops at what is neither a letter nor a space.
Dimensionality(place) ==
  LET letters == {k \in place .. Len(text) :
                    \A j \in place .. k : j \in DOMAIN text /\ text[j].t = "DIMENSIONALITY"}
  IN  [z |-> \E k \in letters : text[k].v % 2 = 1, m |-> \E k \in letters : text[k].v \div 2 = 1]

Flagged(block, flags) == [block EXCEPT !.z = flags.z, !.m = flags.m]

\* A defect: the parts keep their own flags.
SetDimsShallow(v, flags) == WithRoot(v, Flagged(Root(v), flags))

\* wkt_parser_set_dims
SetDims(v, flags) == [p \in DOMAIN v |-> Flagged(v[p], flags)]

\* wkt_pointarray_dimensionality: letters that name as many dimensions as there are.
Mismatch(v, flags) == NDims(flags) > 2 /\ NDims(flags) # NDims(Root(v))
Harmonized(v, flags) == IF NDims(flags) > 2 THEN SetDims(v, flags) ELSE v

-----------------------------------------------------------------------------
(* Points *)

\* wkt_parser_coord_2, wkt_parser_coord_3, wkt_parser_coord_4
Coordinate(ordinates) ==
  [z |-> Len(ordinates) > 2, m |-> Len(ordinates) > 3, point |-> ordinates]

\* wkt_parser_ptarray_new
PtarrayNew(c) == Returned(Leaf(Block(Fresh, "array", c, <<c.point>>)), {Fresh})

\* A defect: a coordinate may have any number of ordinates.
PtarrayAddAnyCoord(array, c) ==
  Returned(WithRoot(array, [Root(array) EXCEPT !.pts = Append(@, c.point)]), {})

\* wkt_parser_ptarray_add_coord
PtarrayAddCoord(array, c) ==
  IF NDims(Root(array)) # NDims(c) THEN Refused("MIXDIMS", {}, Blocks(array))
  ELSE Returned(WithRoot(array, [Root(array) EXCEPT !.pts = Append(@, c.point)]), {})

\* The first n ordinates of both ends are the same.
EndsMeet(pts, n) == pts # <<>> => SubSeq(pts[1], 1, n) = SubSeq(pts[Len(pts)], 1, n)

\* ptarray_is_closed_2d, ptarray_is_closed_z
IsClosed2d(array) == array.pts # <<>> /\ EndsMeet(array.pts, 2)
IsClosedZ(array) == array.pts # <<>> /\ EndsMeet(array.pts, IF array.z THEN 3 ELSE 2)

-----------------------------------------------------------------------------
(* Geometries *)

Built(id, type, flags) == Leaf(Block(id, type, flags, <<>>))

EmptyNew(type, flags) == Returned(Built(Fresh, type, flags), {Fresh})

\* What the constructors around one array have in common.
AroundArray(type, array, flags, faults) ==
  LET fault == IF Mismatch(array, flags) THEN "MIXDIMS" ELSE FirstFault(faults)
      whole == Harmonized(array, flags)
  IN  CASE array = Nothing -> EmptyNew(type, flags)
        [] array # Nothing /\ fault # "" -> Refused(fault, {}, Blocks(array))
        [] OTHER -> Returned(With(Built(After(array), type, Root(whole)), whole), {After(array)})

Checked(name) == name \in source.check

\* wkt_parser_point_new
PointNew(array, flags) ==
  AroundArray("POINT", array, flags, <<<<Len(Root(array).pts) # 1, "LESSPOINTS">>>>)

\* wkt_parser_linestring_new
LinestringNew(array, flags) ==
  AroundArray("LINESTRING", array, flags,
              <<<<Checked("MINPOINTS") /\ Len(Root(array).pts) < 2, "MOREPOINTS">>>>)

\* wkt_parser_circularstring_new
CircularstringNew(array, flags) ==
  AroundArray("CIRCULARSTRING", array, flags,
              <<<<Checked("MINPOINTS") /\ Len(Root(array).pts) < 3, "MOREPOINTS">>,
                <<Checked("ODD") /\ Len(Root(array).pts) % 2 = 0, "ODDPOINTS">>>>)

\* wkt_parser_triangle_new
TriangleNew(array, flags) ==
  AroundArray("TRIANGLE", array, flags,
              <<<<Len(Root(array).pts) # 4, "TRIANGLEPOINTS">>,
                <<~ IsClosedZ(Root(Harmonized(array, flags))), "UNCLOSED">>>>)

\* A ring is added unless there is a fault, which costs both.
RingAdded(poly, ring, fault) ==
  IF fault # "" THEN Refused(fault, {}, Blocks(ring) \cup Blocks(poly))
  ELSE Returned(With(poly, ring), {})

\* A defect: a ring may stay open.
PolygonAddAnyRing(poly, ring, dimcheck) ==
  RingAdded(poly, ring,
            FirstFault(<<<<NDims(Root(poly)) # NDims(Root(ring)), "MIXDIMS">>,
                         <<Checked("MINPOINTS") /\ Len(Root(ring).pts) < 4, "MOREPOINTS">>>>))

\* wkt_parser_polygon_add_ring
PolygonAddRing(poly, ring, dimcheck) ==
  LET closed == IF dimcheck = "Z" THEN IsClosedZ(Root(ring)) ELSE IsClosed2d(Root(ring))
  IN  RingAdded(poly, ring,
                FirstFault(<<<<NDims(Root(poly)) # NDims(Root(ring)), "MIXDIMS">>,
                             <<Checked("MINPOINTS") /\ Len(Root(ring).pts) < 4, "MOREPOINTS">>,
                             <<Checked("CLOSURE") /\ ~ closed, "UNCLOSED">>>>))

\* wkt_parser_polygon_new
PolygonNew(ring, dimcheck) ==
  [PolygonAddRing(Built(Fresh, "POLYGON", Root(ring)), ring, dimcheck) EXCEPT !.new = {Fresh}]

\* wkt_parser_polygon_finalize, wkt_parser_curvepolygon_finalize
PolygonFinalize(type, poly, flags) ==
  CASE poly = Nothing -> EmptyNew(type, flags)
    [] poly # Nothing /\ Mismatch(poly, flags) -> Refused("MIXDIMS", {}, Blocks(poly))
    [] OTHER -> Returned(Harmonized(poly, flags), {})

\* lwgeom_is_empty, for what the parser builds: no array is made without a point.
IsEmptyGeom(g) == \A p \in DOMAIN g : g[p].type # "array"

Total(f) == FoldFunctionOnSet(LAMBDA n, sum : n + sum, 0, f, DOMAIN f)

\* lwgeom_count_vertices
Vertices(g) == Total([p \in DOMAIN g |-> Len(g[p].pts)])

\* The points of a line or an arc.
PointsOf(curve) == IF <<1>> \in DOMAIN curve THEN curve[<<1>>].pts ELSE <<>>

\* Where one curve ends another begins, or it closes, in the first n ordinates.
Joined(before, next, n) ==
  EndsMeet(<<PointsOf(before)[Len(PointsOf(before))], PointsOf(next)[1]>>, n)

\* lwline_is_closed, lwcircstring_is_closed, lwcompound_is_closed.  The last one cannot do
\* without points; the check of their number comes before it.
ClosedCurve(ring, n) ==
  /\ Root(ring).parts # 0
  /\ IF Root(ring).type = "COMPOUNDCURVE" THEN Joined(Part(ring, Root(ring).parts), Part(ring, 1), n)
     ELSE EndsMeet(PointsOf(ring), n)

CurveIsClosed(ring) == ClosedCurve(ring, IF Root(ring).z THEN 3 ELSE 2)

\* An arc can close with three points.
TooShort(ring) == Vertices(ring) < (IF Root(ring).type = "LINESTRING" THEN 4 ELSE 3)

\* wkt_parser_curvepolygon_add_ring
CurvepolygonAddRing(poly, ring) ==
  RingAdded(poly, ring,
            FirstFault(<<<<NDims(Root(poly)) # NDims(Root(ring)), "MIXDIMS">>,
                         <<Checked("MINPOINTS") /\ TooShort(ring), "MOREPOINTS">>,
                         <<Checked("CLOSURE") /\ ~ CurveIsClosed(ring), "UNCLOSED">>>>))

\* wkt_parser_curvepolygon_new
CurvepolygonNew(ring) ==
  [CurvepolygonAddRing(Built(Fresh, "CURVEPOLYGON", Root(ring)), ring) EXCEPT !.new = {Fresh}]

\* wkt_parser_collection_new
CollectionNew(g) == Returned(With(Built(Fresh, "GEOMETRYCOLLECTION", Root(g)), g), {Fresh})

\* wkt_parser_collection_add_geom
CollectionAddGeom(col, g) == Returned(With(col, g), {})

\* wkt_parser_compound_new: what is empty cannot join up with anything.
CompoundNew(g) == IF IsEmptyGeom(g) THEN Refused("INCONTINUOUS", {}, Blocks(g)) ELSE CollectionNew(g)

\* lwcompound_add_lwgeom: the part begins where the part before it ends.
JoinsUp(col, g) == ~ IsEmptyGeom(g) /\ Joined(Part(col, Root(col).parts), g, 2)

\* The faults of a part.
CompoundFault(col, g) ==
  FirstFault(<<<<NDims(Root(col)) # NDims(Root(g)), "MIXDIMS">>, <<~ JoinsUp(col, g), "INCONTINUOUS">>>>)

\* A defect: only the curve so far is freed.
CompoundAddGeomLeak(col, g) ==
  IF CompoundFault(col, g) # "" THEN Refused(CompoundFault(col, g), {}, Blocks(col))
  ELSE CollectionAddGeom(col, g)

\* wkt_parser_compound_add_geom
CompoundAddGeom(col, g) ==
  IF CompoundFault(col, g) # "" THEN Refused(CompoundFault(col, g), {}, Blocks(col) \cup Blocks(g))
  ELSE CollectionAddGeom(col, g)

\* wkt_parser_collection_finalize
CollectionFinalize(type, col, flags) ==
  LET odd(part) == /\ ~ IsEmptyGeom(part)
                   /\ \/ NDims(flags) # NDims(Root(part))
                      \/ /\ type = "GEOMETRYCOLLECTION"
                         /\ flags.z # Root(part).z \/ flags.m # Root(part).m
      whole == Harmonized(col, flags)
  IN  CASE col = Nothing -> EmptyNew(type, flags)
        [] col # Nothing /\ NDims(flags) > 2 /\ (\E i \in 1 .. Root(col).parts : odd(Part(col, i))) ->
             Refused("MIXDIMS", {}, Blocks(col))
        [] OTHER -> Returned(WithRoot(whole, [Root(whole) EXCEPT !.type = type]), {})

-----------------------------------------------------------------------------
(* The grammar *)

\* A construct has elements between its brackets: coordinates, constructs with a name, or
\* the construct that a bracket or EMPTY begins.  It is closed by a function.
Rule(coordinates, names, bare) == [coordinates |-> coordinates, names |-> names, bare |-> bare]

Keywords ==
  {"POINT", "LINESTRING", "POLYGON", "MULTIPOINT", "MULTILINESTRING", "MULTIPOLYGON",
   "GEOMETRYCOLLECTION", "CIRCULARSTRING", "COMPOUNDCURVE", "CURVEPOLYGON", "MULTICURVE",
   "MULTISURFACE", "TRIANGLE", "TIN", "POLYHEDRALSURFACE"}

GeometryList == Rule(FALSE, Keywords, "none")
SurfaceList == Rule(FALSE, {"POLYGON", "CURVEPOLYGON"}, "polygon_untagged")
TriangleList == Rule(FALSE, {}, "triangle_untagged")
PolygonList == Rule(FALSE, {}, "polygon_untagged")
PatchList == Rule(FALSE, {}, "patch")
RingList == Rule(FALSE, {}, "ring")
CurveringList == Rule(FALSE, {"LINESTRING", "COMPOUNDCURVE", "CIRCULARSTRING"}, "linestring_untagged")
CompoundList == Rule(FALSE, {"CIRCULARSTRING", "LINESTRING"}, "linestring_untagged")
CurveList == Rule(FALSE, {"CIRCULARSTRING", "COMPOUNDCURVE", "LINESTRING"}, "linestring_untagged")
LinestringList == Rule(FALSE, {}, "linestring_untagged")
PointList == Rule(TRUE, {}, "point_untagged")
Ptarray == Rule(TRUE, {}, "none")

Grammar ==
  [GEOMETRYCOLLECTION |-> GeometryList, MULTISURFACE |-> SurfaceList, TIN |-> TriangleList,
   POLYHEDRALSURFACE |-> PatchList, MULTIPOLYGON |-> PolygonList, POLYGON |-> RingList,
   polygon_untagged |-> RingList, patch |-> RingList, CURVEPOLYGON |-> CurveringList,
   ring |-> Ptarray, COMPOUNDCURVE |-> CompoundList, MULTICURVE |-> CurveList,
   MULTILINESTRING |-> LinestringList, CIRCULARSTRING |-> Ptarray, LINESTRING |-> Ptarray,
   linestring_untagged |-> Ptarray, TRIANGLE |-> RingList, triangle_untagged |-> RingList,
   MULTIPOINT |-> PointList, point_untagged |-> Ptarray, POINT |-> Ptarray]

\* Constructs that a bracket begins and EMPTY cannot stand for.
NeverEmpty == {"none", "ring", "patch", "triangle_untagged"}

\* Constructs with exactly one element.
Single == {"TRIANGLE", "triangle_untagged", "point_untagged"}

-----------------------------------------------------------------------------
(* The functions of the reductions *)

\* What a construct becomes when it is closed, or EMPTY, for which acc is Nothing.
Reduction(construct, acc, flags) ==
  CASE construct \in {"POINT", "point_untagged"} -> PointNew(acc, flags)
    [] construct \in {"LINESTRING", "linestring_untagged"} -> LinestringNew(acc, flags)
    [] construct = "CIRCULARSTRING" -> CircularstringNew(acc, flags)
    [] construct \in {"TRIANGLE", "triangle_untagged"} -> TriangleNew(acc, flags)
    [] construct = "ring" -> Returned(acc, {})
    [] construct \in {"polygon_untagged", "patch"} ->
         IF acc = Nothing THEN EmptyNew("POLYGON", flags) ELSE Returned(acc, {})
    [] construct \in {"POLYGON", "CURVEPOLYGON"} -> PolygonFinalize(construct, acc, flags)
    [] OTHER -> CollectionFinalize(construct, acc, flags)

Rings == {"POLYGON", "polygon_untagged", "patch"}
Dimcheck(construct) == IF construct = "patch" THEN "Z" ELSE "2"

\* What begins with an element.
FirstElement(construct, v) ==
  CASE construct \in Rings -> PolygonNew(v, Dimcheck(construct))
    [] construct \in Single -> Returned(v, {})
    [] construct = "CURVEPOLYGON" -> CurvepolygonNew(v)
    [] construct = "COMPOUNDCURVE" -> CompoundNew(v)
    [] OTHER -> CollectionNew(v)

\* What becomes of the elements so far when one more is there.
Addition(construct, acc, v) ==
  CASE acc = Nothing -> FirstElement(construct, v)
    [] acc # Nothing /\ construct \in Rings -> PolygonAddRing(acc, v, Dimcheck(construct))
    [] acc # Nothing /\ construct = "CURVEPOLYGON" -> CurvepolygonAddRing(acc, v)
    [] acc # Nothing /\ construct = "COMPOUNDCURVE" -> CompoundAddGeom(acc, v)
    [] OTHER -> CollectionAddGeom(acc, v)

\* A function whose argument is what another one made.
Then(first, Second(_)) ==
  LET second == Second(first.value) IN [second EXCEPT !.new = @ \cup first.new]

-----------------------------------------------------------------------------
(* The parser *)

Token == IF at \in DOMAIN text THEN text[at] ELSE [t |-> "$end", v |-> 0]

Top == stack[Len(stack)]
Below == Front(stack)
Opened(construct, state) == [construct |-> construct, state |-> state, dim |-> 0, acc |-> Nothing]

\* The tokens the parser goes on with; named: after a name, letters: after the letters of
\* the dimensions, element: where an element begins, after: behind one.
Expected ==
  LET rule == Grammar[Top.construct]
  IN  CASE result.geom # Nothing -> {"$end"}
        [] result.geom = Nothing /\ stack = <<>> -> Keywords \cup (IF at = 1 THEN {"SRID"} ELSE {})
        [] OTHER ->
             CASE Top.state = "named" -> {"DIMENSIONALITY", "EMPTY", "("}
               [] Top.state = "letters" -> {"EMPTY", "("}
               [] Top.state = "after" -> {")"} \cup (IF Top.construct \in Single THEN {} ELSE {","})
               [] Top.state = "element" ->
                    rule.names \cup (IF rule.coordinates THEN {"DOUBLE"} ELSE {})
                      \cup (IF rule.bare # "none" THEN {"("} ELSE {})
                      \cup (IF rule.bare \in NeverEmpty THEN {} ELSE {"EMPTY"})

\* How many numbers follow, up to the four of a coordinate.
Numbers ==
  LET at4 == {n \in 0..4 : \A k \in 0 .. n - 1 : at + k \in DOMAIN text /\ text[at + k].t = "DOUBLE"}
  IN  Max(at4)

Parsing == phase = "parsing" /\ value = Nothing

\* The lookahead fits and is one of these.
Sees(tokens) == Parsing /\ Token.t \in Expected \cap tokens

\* Blocks are made and freed, some of them by each of several owners.
Freed(new, owners) ==
  LET all == UNION ToSet(owners)
  IN  heap' = [live |-> (heap.live \cup new) \ all,
               made |-> heap.made + Cardinality(new),
               twice |-> \/ heap.twice
                         \/ ~ (all \subseteq heap.live \cup new)
                         \/ \E i, j \in DOMAIN owners : i # j /\ owners[i] \cap owners[j] # {}]

\* A defect: the parser does not end on an error.
GiveUpAndGoOn(error, r, symbols) ==
  /\ Freed(r.new, <<r.freed, Blocks(result.geom)>> \o [i \in DOMAIN symbols |-> Blocks(symbols[i].acc)])
  /\ result' = [geom |-> Nothing, error |-> error]
  /\ stack' = <<>> /\ value' = Nothing
  /\ UNCHANGED <<source, text, srid, phase>>

\* YYERROR and yyerrlab: no construct takes the error, all symbols still on the stack are
\* destroyed, and lwgeom_parse_wkt frees a geometry that was complete.
GiveUp(error, r, symbols) ==
  /\ Freed(r.new, <<r.freed, Blocks(result.geom)>> \o [i \in DOMAIN symbols |-> Blocks(symbols[i].acc)])
  /\ result' = [geom |-> Nothing, error |-> error]
  /\ stack' = <<>> /\ value' = Nothing /\ phase' = "returned"
  /\ UNCHANGED <<source, text, srid>>

\* yyreduce and WKT_ERROR: on an error the symbols of the rule are popped without being
\* destroyed, on success Goes says where the value goes.
Reduce(r, symbols, Goes(_)) ==
  IF r.error # "" THEN GiveUp(r.error, r, symbols)
  ELSE /\ Freed(r.new, <<r.freed>>)
       /\ Goes(r.value)
       /\ UNCHANGED <<source, text, result, srid, phase>>

Shift(n, top) ==
  /\ at' = at + n
  /\ stack' = top
  /\ UNCHANGED <<source, text, value, result, srid, phase, heap>>

\* lwgeom_parse_wkt, up to wkt_yyparse
ParseWkt(s) ==
  /\ phase = "idle"
  /\ source' = s /\ text' = s.text /\ at' = 1
  /\ stack' = <<>> /\ value' = Nothing /\ srid' = 0
  /\ result' = [geom |-> Nothing, error |-> ""]
  /\ phase' = "parsing"
  /\ heap' = [live |-> {}, made |-> 0, twice |-> FALSE]

\* clamp_srid
ClampSrid(n) ==
  CASE n <= 0 -> 0
    [] n > SridMaximum -> SridUser + 1 + (n % (SridMaximum - SridUser - 1))
    [] OTHER -> n

\* wkt_lexer_read_srid, and the semicolon behind it
ReadSrid ==
  /\ Sees({"SRID"})
  /\ at + 1 \in DOMAIN text /\ text[at + 1].t = ";"
  /\ srid' = ClampSrid(Token.v)
  /\ at' = at + 2
  /\ UNCHANGED <<source, text, stack, value, result, phase, heap>>

Name == Sees(Keywords) /\ Shift(1, Append(stack, Opened(Token.t, "named")))

NameDimensions ==
  /\ Sees({"DIMENSIONALITY"})
  /\ Shift(1, Append(Below, [Top EXCEPT !.dim = at, !.state = "letters"]))

Open == Sees({"("}) /\ Top.state # "element" /\ Shift(1, Append(Below, [Top EXCEPT !.state = "element"]))

OpenBare ==
  /\ Sees({"("}) /\ Top.state = "element"
  /\ Shift(1, Append(stack, Opened(Grammar[Top.construct].bare, "element")))

Empty ==
  /\ Sees({"EMPTY"}) /\ Top.state # "element"
  /\ at' = at + 1
  /\ Reduce(Reduction(Top.construct, Nothing, Dimensionality(Top.dim)), Below,
            LAMBDA v : value' = v /\ stack' = Below)

EmptyBare ==
  /\ Sees({"EMPTY"}) /\ Top.state = "element"
  /\ at' = at + 1
  /\ Reduce(Reduction(Grammar[Top.construct].bare, Nothing, FlatFlags), stack,
            LAMBDA v : value' = v /\ UNCHANGED stack)

\* coordinate, and the array it begins or goes on; in a multipoint it is a point
ReadCoordinate ==
  LET c == Coordinate([k \in 1 .. Numbers |-> text[at + k - 1].v])
      grown == IF Top.acc = Nothing THEN PtarrayNew(c) ELSE PtarrayAddCoord(Top.acc, c)
      point == Then(PtarrayNew(c), LAMBDA array : PointNew(array, FlatFlags))
  IN  /\ Sees({"DOUBLE"}) /\ Numbers > 1
      /\ at' = at + Numbers
      /\ IF Top.construct = "MULTIPOINT"
         THEN Reduce(point, stack, LAMBDA v : value' = v /\ UNCHANGED stack)
         ELSE Reduce(grown, Below,
                     LAMBDA v : /\ stack' = Append(Below, [Top EXCEPT !.acc = v, !.state = "after"])
                                /\ UNCHANGED value)

NextElement == Sees({","}) /\ Shift(1, Append(Below, [Top EXCEPT !.state = "element"]))

Close ==
  /\ Sees({")"})
  /\ at' = at + 1
  /\ Reduce(Reduction(Top.construct, Top.acc, Dimensionality(Top.dim)), Below,
            LAMBDA v : value' = v /\ stack' = Below)

\* An element is added to the construct it is in.
Add ==
  /\ phase = "parsing" /\ value # Nothing /\ stack # <<>>
  /\ Reduce(Addition(Top.construct, Top.acc, value), Below,
            LAMBDA v : /\ stack' = Append(Below, [Top EXCEPT !.acc = v, !.state = "after"])
                       /\ value' = Nothing)
  /\ UNCHANGED at

\* wkt_parser_geometry_new
GeometryNew ==
  /\ phase = "parsing" /\ value # Nothing /\ stack = <<>>
  /\ result' = [result EXCEPT !.geom = value]
  /\ srid' = IF srid # 0 /\ srid < SridMaximum THEN srid ELSE 0
  /\ value' = Nothing
  /\ UNCHANGED <<source, text, at, stack, phase, heap>>

Accept ==
  /\ Sees({"$end"})
  /\ phase' = "returned"
  /\ UNCHANGED <<source, text, at, stack, value, result, srid, heap>>

\* wkt_yyerror: an error that is already there stays.
SyntaxError ==
  /\ Parsing
  /\ \/ Token.t \notin Expected
     \/ Token.t = "DOUBLE" /\ Numbers = 1
     \/ Token.t = "SRID" /\ ~ (at + 1 \in DOMAIN text /\ text[at + 1].t = ";")
  /\ GiveUp(IF result.error = "" THEN "OTHER" ELSE result.error, Returned(Nothing, {}), stack)
  /\ UNCHANGED at

\* lwgeom_from_wkt: the caller owns what it is given; global_parser_result stays as it is.
Return ==
  /\ phase = "returned"
  /\ phase' = "idle"
  /\ source' = NoSource /\ text' = <<>> /\ at' = 1 /\ srid' = 0
  /\ heap' = [live |-> {}, made |-> 0, twice |-> FALSE]
  /\ result' = [result EXCEPT !.geom = Nothing]
  /\ UNCHANGED <<stack, value>>

Init ==
  /\ source = NoSource /\ text = <<>> /\ at = 1
  /\ stack = <<>> /\ value = Nothing /\ srid = 0
  /\ result = [geom |-> Nothing, error |-> ""]
  /\ phase = "idle"
  /\ heap = [live |-> {}, made |-> 0, twice |-> FALSE]

Parse ==
  \/ ReadSrid \/ Name \/ NameDimensions \/ Open \/ OpenBare \/ Empty \/ EmptyBare \/ ReadCoordinate
  \/ NextElement \/ Close \/ Add \/ GeometryNew \/ Accept \/ SyntaxError

Next == (\E s \in Sources : ParseWkt(s)) \/ Parse \/ Return

\* A call that has begun runs on.
Spec == Init /\ [][Next]_vars /\ WF_vars(Parse)

-----------------------------------------------------------------------------
(* Properties *)

\* What the parser's checks promise of a geometry, whatever is below its parts: no curve or
\* ring too short, none open in the plane, one number of dimensions where it is asked for.
Promise(v) ==
  LET type == Root(v).type
      pts == PointsOf(v)
      parts == {Part(v, i) : i \in 1 .. Root(v).parts}
  IN  /\ type = "LINESTRING" => Len(pts) # 1
      /\ type = "CIRCULARSTRING" => pts = <<>> \/ (Len(pts) > 2 /\ Len(pts) % 2 = 1)
      /\ type = "TRIANGLE" => pts = <<>> \/ (Len(pts) = 4 /\ EndsMeet(pts, 2))
      /\ type = "POLYGON" => \A ring \in parts : Len(Root(ring).pts) > 3 /\ IsClosed2d(Root(ring))
      /\ type = "CURVEPOLYGON" => \A ring \in parts : ~ TooShort(ring) /\ ClosedCurve(ring, 2)
      /\ type = "COMPOUNDCURVE" =>
           \A i \in 2 .. Root(v).parts : Joined(Part(v, i - 1), Part(v, i), 2)
      /\ type \in {"POLYGON", "CURVEPOLYGON", "COMPOUNDCURVE"} =>
           \A part \in parts : NDims(Root(part)) = NDims(Root(v))

Sound(v) == \A p \in DOMAIN v : Promise(Subtree(v, p))

\* Geometries whose parts may differ in their dimensions.
Mixed == {"MULTIPOINT", "MULTILINESTRING", "MULTIPOLYGON", "MULTICURVE", "MULTISURFACE", "TIN",
          "POLYHEDRALSURFACE", "GEOMETRYCOLLECTION"}

\* One number of dimensions throughout, and as many ordinates in every point.
Uniform(v) ==
  \A p \in DOMAIN v :
    /\ NDims(v[p]) = NDims(Root(v))
    /\ \A i \in DOMAIN v[p].pts : Len(v[p].pts[i]) = NDims(v[p])

\* However a text is hurt and wherever its reading ends, every block was freed once, or is
\* part of the geometry the caller gets.
NothingLost ==
  /\ ~ heap.twice
  /\ phase = "returned" => heap.live = Blocks(result.geom)

\* What is read with all checks keeps their promises, however the text is hurt.
ChecksKept ==
  phase = "returned" /\ result.geom # Nothing /\ source.check = AllChecks => Sound(result.geom)

\* The points of a geometry have the ordinates its flags tell of, and so have those of the
\* members of a collection.  Deeper down they need not: the dimensions that a collection's
\* letters name are looked for in its members, and given to all that is below them.
DimensionsKept ==
  phase = "returned" /\ result.geom # Nothing =>
    LET geom == result.geom
        members == IF Root(geom).type \in Mixed THEN {Part(geom, i) : i \in 1 .. Root(geom).parts}
                   ELSE {geom}
    IN  \A part \in members : Root(part).type \notin Mixed => Uniform(part)

\* Every call comes to its end.
CallsReturn == phase = "parsing" ~> phase = "returned"

=============================================================================
