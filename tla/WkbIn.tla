------------------------------- MODULE WkbIn -------------------------------
(***************************************************************************)
(* The reader of well-known binary, lwin_wkb.c: a recursive descent whose  *)
(* parse state (position, byte order, dimensions, SRID, checks) is shared  *)
(* by all levels.  The recursion is the stack of geometries that are not   *)
(* complete.  lwerror does not come back to its caller: the handler the    *)
(* package installs stops the R call.                                      *)
(***************************************************************************)
EXTENDS WkbFormat

CONSTANTS
    Inputs,     \* records with: fields, the stream; size, the bytes given; check
    UINT_MAX,   \* the largest unsigned int, in which counts are kept and multiplied
    Native      \* the byte order of the machine

ASSUME InputsAssumption ==
    \A i \in Inputs :
        /\ i.fields \in Seq(Fields) /\ i.size \in Nat
        /\ \A k \in DOMAIN i.fields :
              i.fields[k].kind = "count" => i.fields[k].value \in 0 .. UINT_MAX

ASSUME MachineAssumption == UINT_MAX \in Nat /\ Native \in {NDR, XDR}

VARIABLES
    input,
    pos, at,                    \* bytes and fields consumed
    allowed,                    \* the bounds of the next read were looked at
    far,                        \* where the furthest byte ends that was touched
    phase,                      \* the field that is next, see Wanted
    order, hasZ, hasM, hasSrid, \* wkb_parse_state
    srid, lwtype, check,
    npoints,                    \* of the point array that is being read
    stack,                      \* the callers: each geometry so far, what it lacks
    geom                        \* what the call that returned last has made

place == <<pos, at, allowed, far>>
header == <<order, hasZ, hasM, hasSrid, srid, lwtype>>
vars == <<input, place, phase, header, check, npoints, stack, geom>>

Init ==
    /\ input \in Inputs
    /\ pos = 0 /\ at = 0 /\ allowed = FALSE /\ far = 0
    /\ phase = "mark"
    /\ order = NDR /\ hasZ = FALSE /\ hasM = FALSE /\ hasSrid = FALSE
    /\ srid = 0 /\ lwtype = "Point"
    /\ check = input.check
    /\ npoints = 0
    /\ stack = <<>>
    /\ geom = Empty("Point", 0, FALSE, FALSE)

-----------------------------------------------------------------------------
(***************************************************************************)
(* Reading fields.  wkb_parse_state_check looks at the bounds once, before *)
(* a field or a whole array; the bytes are touched afterwards, those of an *)
(* array without another look.  A field of another kind or in another byte *)
(* order than is expected is taken for what it is not, and nothing is said *)
(* of what comes after that.                                               *)
(***************************************************************************)
Dims == NDims(hasZ, hasM)

\* The kind of field that is read next, and how many of them at once.
Wanted ==
    CASE phase \in {"mark", "type", "srid"} -> [kind |-> phase, n |-> 1]
      [] phase \in {"npoints", "nrings", "ngeoms"} -> [kind |-> "count", n |-> 1]
      [] phase = "point" -> [kind |-> "ordinate", n |-> Dims]
      [] phase = "points" -> [kind |-> "ordinate", n |-> npoints * Dims]

Reading == phase \in {"mark", "type", "srid", "npoints", "nrings", "ngeoms", "point", "points"}

Bytes == Wanted.n * Width[Wanted.kind]

Swapped == order # Native

Wrapped(n) == n % (UINT_MAX + 1)

\* The bytes that are asked for: pa_size is a product of unsigned ints.
Asked == IF phase = "points" THEN Wrapped(Bytes) ELSE Bytes

\* The bytes that are touched: an array in the order of the machine is copied
\* by its number of points, another one is read double by double.
Touched ==
    IF phase = "points" /\ Swapped THEN Width.ordinate * Wrapped(Wanted.n) ELSE Bytes

Advance == IF Swapped THEN Touched ELSE Asked

\* Defect: where the field begins is compared with the size, not where it ends.
HoldsStart == pos < input.size

\* An array without points is not asked for.
Holds == (phase = "points" /\ npoints = 0) \/ pos + Asked <= input.size

LetThrough ==
    /\ Reading /\ ~allowed /\ Holds
    /\ allowed' = TRUE
    /\ UNCHANGED <<input, pos, at, far, phase, header, check, npoints, stack, geom>>

Aligned ==
    /\ at + Wanted.n <= Len(input.fields)
    /\ \A k \in at + 1 .. at + Wanted.n :
          /\ input.fields[k].kind = Wanted.kind
          /\ Wanted.kind = "mark" \/ input.fields[k].order = order

Touch == far' = IF pos + Touched > far THEN pos + Touched ELSE far

Take ==
    /\ Reading /\ allowed /\ Aligned
    /\ Touch
    /\ pos' = pos + Advance
    /\ at' = at + Wanted.n
    /\ allowed' = FALSE

Value == input.fields[at + 1].value

Points == [k \in 1 .. npoints |->
              [d \in 1 .. Dims |-> input.fields[at + (k - 1) * Dims + d].value]]

Stop(how) ==
    /\ phase' = how
    /\ UNCHANGED <<input, place, header, check, npoints, stack, geom>>

RunsOut == Reading /\ ~allowed /\ ~Holds /\ Stop("failed")

Misreads ==
    /\ Reading /\ allowed /\ ~Aligned
    /\ Touch
    /\ phase' = "garbled"
    /\ UNCHANGED <<input, pos, at, allowed, header, check, npoints, stack, geom>>

-----------------------------------------------------------------------------
(***************************************************************************)
(* The front of every geometry.                                            *)
(***************************************************************************)
\* Defect: the order is set by the first geometry and kept.
OrderFromFirst == IF at = 0 THEN Value ELSE order

MarkedOrder == Value

ReadMark ==
    /\ phase = "mark" /\ Take
    /\ \/ /\ Value \in {NDR, XDR}
          /\ order' = MarkedOrder /\ phase' = "type"
       \/ /\ Value \notin {NDR, XDR}
          /\ phase' = "failed" /\ UNCHANGED order
    /\ UNCHANGED <<input, hasZ, hasM, hasSrid, srid, lwtype, check, npoints, stack, geom>>

\* lwtype_from_wkb_state also knows two numbers of an older writer.
TypeOf(number) ==
    CASE number = 13 -> "CurvePoly"
      [] number = 14 -> "MultiCurve"
      [] OTHER -> CHOOSE t \in Types : TypeNumber[t] = number

IsType(number) == number \in {13, 14} \/ \E t \in Types : TypeNumber[t] = number

BodyOf(type) ==
    CASE type = "Point" -> "point"
      [] type \in LineTypes -> "npoints"
      [] type \in {"Polygon", "Triangle"} -> "nrings"
      [] OTHER -> "ngeoms"

\* Dimensions come as flags or as thousands; neither leaves those of the
\* geometry before.
ReadType ==
    LET flags == input.fields[at + 1].flags
        number == Value % 1000
        thousands == Value \div 1000
    IN  /\ phase = "type" /\ Take
        /\ hasZ' = ("Z" \in flags \/ thousands \in {1, 3})
        /\ hasM' = ("M" \in flags \/ thousands \in {2, 3})
        /\ hasSrid' = ("SRID" \in flags)
        /\ \/ /\ IsType(number)
              /\ lwtype' = TypeOf(number)
              /\ phase' = IF hasSrid' THEN "srid" ELSE BodyOf(lwtype')
           \/ /\ ~IsType(number)
              /\ phase' = "failed" /\ UNCHANGED lwtype
        /\ UNCHANGED <<input, order, srid, check, npoints, stack, geom>>

SRID_MAXIMUM == 999999
SRID_USER_MAXIMUM == 998999

\* Defect: a number below zero is let through.
clamp_sridAbove(n) ==
    IF n > SRID_MAXIMUM
    THEN SRID_USER_MAXIMUM + 1 + (n % (SRID_MAXIMUM - SRID_USER_MAXIMUM - 1))
    ELSE n

clamp_srid(n) ==
    CASE n <= 0 -> 0
      [] n > SRID_MAXIMUM ->
            SRID_USER_MAXIMUM + 1 + (n % (SRID_MAXIMUM - SRID_USER_MAXIMUM - 1))
      [] OTHER -> n

ReadSrid ==
    /\ phase = "srid" /\ Take
    /\ srid' = clamp_srid(Value)
    /\ phase' = BodyOf(lwtype)
    /\ UNCHANGED <<input, order, hasZ, hasM, hasSrid, lwtype, check, npoints, stack, geom>>

-----------------------------------------------------------------------------
(***************************************************************************)
(* Geometries without parts.                                               *)
(***************************************************************************)
\* Defect: only a geometry that says so has an SRID.
MadeIfSaid(rings) == Geometry(lwtype, IF hasSrid THEN srid ELSE 0, hasZ, hasM, rings, <<>>)

Made(rings) == Geometry(lwtype, srid, hasZ, hasM, rings, <<>>)

None == Empty(lwtype, srid, hasZ, hasM)

Return(g) == phase' = "returned" /\ geom' = g

PointOf(p) == IF p[1] = NaN /\ p[2] = NaN THEN None ELSE Made(<< <<p>> >>)

ReadPoint ==
    /\ phase = "point" /\ Take
    /\ Return(PointOf([d \in 1 .. Dims |-> input.fields[at + d].value]))
    /\ UNCHANGED <<input, header, check, npoints, stack>>

\* Defect: the ordinates that a point has are forgotten.
maxpointsFlat == UINT_MAX \div Width.ordinate

maxpoints == (UINT_MAX \div Width.ordinate) \div 4

ReadNPoints ==
    /\ phase = "npoints" /\ Take
    /\ npoints' = Value
    /\ phase' = IF Value > maxpoints THEN "failed" ELSE "points"
    /\ UNCHANGED <<input, header, check, stack, geom>>

\* An array without points is not closed.
ClosedIn(pa, n) == pa # <<>> /\ \A d \in 1 .. n : pa[1][d] = pa[Len(pa)][d]

Closed2d(pa) == ClosedIn(pa, 2)
ClosedZ(pa) == ClosedIn(pa, IF hasZ THEN 3 ELSE 2)

MinPoints == [Line |-> 2, CircString |-> 3, Polygon |-> 4, Triangle |-> 4]

\* Defect: only the outer ring of a polygon has to have four points.
RefusedOuter(pa) ==
    \/ /\ "MINPOINTS" \in check
       /\ Len(pa) < MinPoints[lwtype]
       /\ ~(lwtype \in LineTypes /\ pa = <<>>)
       /\ lwtype = "Polygon" => stack[Len(stack)].geom.rings = <<>>
    \/ "ODD" \in check /\ lwtype = "CircString" /\ Len(pa) % 2 = 0 /\ pa # <<>>
    \/ "CLOSURE" \in check /\ lwtype = "Polygon" /\ ~Closed2d(pa)
    \/ "ZCLOSURE" \in check /\ lwtype = "Triangle" /\ ~ClosedZ(pa)

\* The checks of the array that has been read, for the geometry it is part of.
Refused(pa) ==
    \/ /\ "MINPOINTS" \in check
       /\ Len(pa) < MinPoints[lwtype]
       /\ ~(lwtype \in LineTypes /\ pa = <<>>)
    \/ "ODD" \in check /\ lwtype = "CircString" /\ Len(pa) % 2 = 0 /\ pa # <<>>
    \/ "CLOSURE" \in check /\ lwtype = "Polygon" /\ ~Closed2d(pa)
    \/ "ZCLOSURE" \in check /\ lwtype = "Triangle" /\ ~ClosedZ(pa)

ReadLine ==
    /\ phase = "points" /\ lwtype \in LineTypes /\ Take
    /\ IF Refused(Points) THEN phase' = "failed" /\ UNCHANGED geom ELSE Return(Made(<<Points>>))
    /\ UNCHANGED <<input, header, check, npoints, stack>>

ReadTriangle ==
    /\ phase = "points" /\ lwtype = "Triangle" /\ Take
    /\ IF Refused(Points) THEN phase' = "failed" /\ UNCHANGED geom ELSE Return(Made(<<Points>>))
    /\ UNCHANGED <<input, header, check, npoints, stack>>

ReadNRingsOfTriangle ==
    /\ phase = "nrings" /\ lwtype = "Triangle" /\ Take
    /\ \/ Value = 0 /\ Return(None)
       \/ Value = 1 /\ phase' = "npoints" /\ UNCHANGED geom
       \/ Value > 1 /\ phase' = "failed" /\ UNCHANGED geom
    /\ UNCHANGED <<input, header, check, npoints, stack>>

-----------------------------------------------------------------------------
(***************************************************************************)
(* Geometries with parts, on the stack while their parts are read.         *)
(***************************************************************************)
Top == stack[Len(stack)]

Push(n) == stack' = Append(stack, [geom |-> None, left |-> n])

Grown(g) == [stack EXCEPT ![Len(stack)] = [geom |-> g, left |-> Top.left - 1]]

\* The loop over the parts ends when there are no more of them.
Complete ==
    /\ phase \in {"rings", "geoms"} /\ Top.left = 0
    /\ Return(Top.geom)
    /\ stack' = SubSeq(stack, 1, Len(stack) - 1)
    /\ UNCHANGED <<input, place, header, check, npoints>>

NextRing ==
    /\ phase = "rings" /\ Top.left > 0
    /\ phase' = "npoints"
    /\ UNCHANGED <<input, place, header, check, npoints, stack, geom>>

NextGeom ==
    /\ phase = "geoms" /\ Top.left > 0
    /\ phase' = "mark"
    /\ UNCHANGED <<input, place, header, check, npoints, stack, geom>>

ReadNRings ==
    /\ phase = "nrings" /\ lwtype = "Polygon" /\ Take
    /\ Push(Value)
    /\ phase' = "rings"
    /\ UNCHANGED <<input, header, check, npoints, geom>>

ReadRing ==
    /\ phase = "points" /\ lwtype = "Polygon" /\ Take
    /\ IF Refused(Points)
       THEN phase' = "failed" /\ UNCHANGED stack
       ELSE /\ phase' = "rings"
            /\ stack' = Grown([Top.geom EXCEPT !.rings = Append(@, Points)])
    /\ UNCHANGED <<input, header, check, npoints, geom>>

\* The closures of a polyhedral surface are to be checked; the flag is set for
\* all that is read from here on.
ReadNGeoms ==
    /\ phase = "ngeoms" /\ Take
    /\ Push(Value)
    /\ check' = IF lwtype = "PolyhedralSurface" /\ Value > 0 THEN check \cup {"ZCLOSURE"} ELSE check
    /\ phase' = "geoms"
    /\ UNCHANGED <<input, header, npoints, geom>>

\* Back in the caller, which adds what it is given.
Add ==
    /\ phase = "returned" /\ stack # <<>>
    /\ IF Allows(Top.geom.type, geom.type)
       THEN /\ phase' = "geoms"
            /\ stack' = Grown([Top.geom EXCEPT !.geoms = Append(@, geom)])
       ELSE phase' = "failed" /\ UNCHANGED stack
    /\ UNCHANGED <<input, place, header, check, npoints, geom>>

Finish ==
    /\ phase = "returned" /\ stack = <<>>
    /\ Stop("done")

Next ==
    \/ RunsOut \/ LetThrough \/ Misreads
    \/ ReadMark \/ ReadType \/ ReadSrid
    \/ ReadPoint \/ ReadNPoints \/ ReadLine \/ ReadTriangle \/ ReadNRingsOfTriangle
    \/ ReadNRings \/ NextRing \/ ReadRing
    \/ ReadNGeoms \/ NextGeom \/ Add \/ Complete \/ Finish

Spec == Init /\ [][Next]_vars

-----------------------------------------------------------------------------
TypeOK ==
    /\ pos \in Nat /\ at \in Nat /\ far \in Nat /\ allowed \in BOOLEAN
    /\ phase \in {"mark", "type", "srid", "npoints", "nrings", "ngeoms", "point", "points",
                  "rings", "geoms", "returned", "done", "failed", "garbled"}
    /\ order \in {NDR, XDR}
    /\ hasZ \in BOOLEAN /\ hasM \in BOOLEAN /\ hasSrid \in BOOLEAN
    /\ srid \in Nat /\ lwtype \in Types
    /\ npoints \in Nat

\* However long the stream says its arrays are, and wherever it was cut off, no
\* byte past the size that was given is touched.  The look at the bounds counts
\* the bytes of an array as an unsigned int, the copy counts them as a size_t:
\* the two agree for the arrays that maxpoints lets through.
NeverPastEnd == far <= input.size

\* A stream in which no geometry but the first says what its SRID is.
OnlyFirstSays == \A k \in DOMAIN input.fields : input.fields[k].kind = "srid" => k = 3

\* lwout_wkb.c leaves the SRID out of sub-geometries for they "inherit from
\* their parents": every geometry made, at every depth, has the first one's.
SridInherited ==
    OnlyFirstSays =>
        /\ \A k \in DOMAIN stack : stack[k].geom.srid = srid
        /\ phase = "returned" => geom.srid = srid

-----------------------------------------------------------------------------
Members(g) == {g.geoms[k] : k \in DOMAIN g.geoms}

\* Inside(g)[n] has the geometries n levels inside of g.
Inside(g) ==
    LET level[n \in Nat] ==
          IF n = 0 THEN {g} ELSE UNION {Members(h) : h \in level[n - 1]}
    IN  level

\* What the checks ask of the points of a geometry that is there.
Meets(checks, g) ==
    /\ "MINPOINTS" \in checks =>
          /\ g.type \in LineTypes \cup {"Triangle"} =>
                Len(g.rings[1]) \notin 1 .. MinPoints[g.type] - 1
          /\ g.type = "Polygon" => \A k \in DOMAIN g.rings : Len(g.rings[k]) >= MinPoints[g.type]
    /\ "ODD" \in checks /\ g.type = "CircString" => g.rings[1] = <<>> \/ Len(g.rings[1]) % 2 = 1
    /\ "CLOSURE" \in checks /\ g.type = "Polygon" =>
          \A k \in DOMAIN g.rings : Closed2d(g.rings[k])
    /\ "ZCLOSURE" \in checks /\ g.type = "Triangle" =>
          g.rings[1] = <<>> \/ ClosedIn(g.rings[1], IF g.z THEN 3 ELSE 2)

\* What is read meets the checks that the caller asked for at every depth; there are
\* no more levels than fields were read.
ChecksKept ==
    phase = "done" => \A n \in 0 .. at : \A h \in Inside(geom)[n] : Meets(input.check, h)

=============================================================================
