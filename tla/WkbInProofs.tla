---------------------------- MODULE WkbInProofs ----------------------------
(***************************************************************************)
(* For every stream, of whatever length and nesting: the reader stays      *)
(* within the bytes it was given, and sub-geometries get the SRID that the *)
(* first geometry of the stream gave.                                      *)
(***************************************************************************)
EXTENDS WkbIn, Induction, SequenceTheorems

LEMMA Positions ==
    ASSUME Reading, npoints \in Nat
    PROVE  /\ Wanted.n \in Nat /\ Bytes \in Nat
           /\ phase \in {"mark", "type", "srid", "npoints", "nrings", "ngeoms"} => Wanted.n = 1
           /\ phase = "point" => Wanted.n >= 2
           /\ phase = "points" => Wanted.n = npoints * Dims /\ Bytes = Wanted.n * 8
           /\ Dims \in 2 .. 4
<1>1. Dims \in 2 .. 4
  BY DEF Dims, NDims
<1>2. npoints * Dims \in Nat
  BY <1>1
<1>3. CASE phase \in {"mark", "type", "srid"}
  BY <1>1, <1>3 DEF Wanted, Bytes, Width
<1>4. CASE phase \in {"npoints", "nrings", "ngeoms"}
  BY <1>1, <1>4 DEF Wanted, Bytes, Width
<1>5. CASE phase = "point"
  BY <1>5, <1>1 DEF Wanted, Bytes, Width
<1>6. CASE phase = "points"
  BY <1>6, <1>1, <1>2 DEF Wanted, Bytes, Width
<1> QED BY <1>3, <1>4, <1>5, <1>6 DEF Reading

\* What fits into a word is not changed by it.
LEMMA NotWrapped ==
    ASSUME NEW n \in Nat, n <= UINT_MAX
    PROVE  Wrapped(n) = n
BY MachineAssumption DEF Wrapped

\* Three sums of the same bytes, one of them for the look and two for the use, are
\* one for an array that maxpoints lets through.
LEMMA SumsAgree ==
    ASSUME Reading, npoints \in Nat, phase = "points" => npoints <= maxpoints
    PROVE  Asked = Bytes /\ Touched = Bytes /\ Advance = Bytes
<1>1. CASE phase # "points"
  BY <1>1 DEF Asked, Touched, Advance
<1>2. CASE phase = "points"
  <2>1. /\ Wanted.n = npoints * Dims /\ Bytes = Wanted.n * 8
        /\ Wanted.n \in Nat /\ Bytes \in Nat /\ Dims \in 2 .. 4
    BY <1>2, Positions
  <2>2. 4 * npoints <= UINT_MAX \div 8
    BY <1>2, MachineAssumption DEF maxpoints, Width
  <2>3. 8 * (UINT_MAX \div 8) <= UINT_MAX
    BY MachineAssumption
  <2>4. UINT_MAX \div 8 \in Int
    BY MachineAssumption
  <2>5. npoints * Dims <= 4 * npoints
    BY <2>1
  <2>6. Bytes <= UINT_MAX /\ Wanted.n <= UINT_MAX
    <3>1. 8 * (4 * npoints) <= UINT_MAX
      BY <2>2, <2>3, <2>4, MachineAssumption
    <3> HIDE DEF Wanted, Bytes
    <3> QED BY <2>1, <2>5, <3>1, MachineAssumption
  <2>7. Wrapped(Bytes) = Bytes /\ Wrapped(Wanted.n) = Wanted.n
    BY <2>1, <2>6, NotWrapped
  <2>8. Asked = Bytes
    BY <1>2, <2>7 DEF Asked
  <2>9. Touched = Bytes
    <3>1. Width.ordinate = 8
      BY DEF Width
    <3>2. Width.ordinate * Wanted.n = Bytes
      BY <2>1, <3>1
    <3> QED BY <2>7, <3>2 DEF Touched
  <2> QED BY <2>8, <2>9 DEF Advance
<1> QED BY <1>1, <1>2

-----------------------------------------------------------------------------
(***************************************************************************)
(* Types and the end of the stream.  Between the look at the bounds and    *)
(* the use of what lies there, the bounds go on to hold.                   *)
(***************************************************************************)
LookedAt ==
    /\ pos <= input.size
    /\ phase = "points" => npoints <= maxpoints
    /\ allowed => phase = "garbled" \/ (Reading /\ Holds)

Within == input \in Inputs /\ TypeOK /\ LookedAt /\ NeverPastEnd

LEMMA Touching ==
    ASSUME Within, Reading, allowed
    PROVE  /\ Bytes \in Nat /\ Advance = Bytes
           /\ pos + Bytes <= input.size
           /\ Touch => far' \in Nat /\ far' <= input.size
<1>1. pos \in Nat /\ far \in Nat /\ npoints \in Nat /\ input.size \in Nat
      /\ pos <= input.size /\ far <= input.size
  BY InputsAssumption DEF Within, TypeOK, LookedAt, NeverPastEnd
<1>2. Asked = Bytes /\ Touched = Bytes /\ Advance = Bytes /\ Bytes \in Nat
  BY <1>1, SumsAgree, Positions DEF Within, LookedAt
<1>3. pos + Bytes <= input.size
  <2>1. Holds
    BY DEF Within, LookedAt, Reading
  <2>2. CASE phase = "points" /\ npoints = 0
    <3>1. Bytes = 0
      BY <1>1, <2>2, Positions
    <3> QED BY <1>1, <3>1
  <2>3. CASE pos + Asked <= input.size
    BY <1>2, <2>3
  <2> QED BY <2>1, <2>2, <2>3 DEF Holds
<1>4. Touch => far' \in Nat /\ far' <= input.size
  BY <1>1, <1>2, <1>3 DEF Touch
<1> QED BY <1>2, <1>3, <1>4

\* What a step that takes fields leaves behind it, and what it has looked at.
LEMMA Taken ==
    ASSUME Within, Take
    PROVE  /\ pos' \in Nat /\ at' \in Nat /\ pos' <= input.size
           /\ far' \in Nat /\ far' <= input.size /\ allowed' = FALSE
           /\ at' >= at
           /\ phase # "points" => at' >= at + 1
           /\ phase \in {"mark", "type", "srid", "npoints", "nrings", "ngeoms"} =>
                 /\ at' = at + 1
                 /\ at + 1 \in DOMAIN input.fields
                 /\ Value \in Int /\ input.fields[at + 1].kind = Wanted.kind
           /\ phase \in {"npoints", "nrings", "ngeoms"} => Value \in Nat
<1>1. /\ Reading /\ allowed /\ Aligned /\ Touch
      /\ pos' = pos + Advance /\ at' = at + Wanted.n /\ allowed' = FALSE
  BY DEF Take
<1>2. pos \in Nat /\ at \in Nat /\ npoints \in Nat /\ input.size \in Nat
      /\ input.fields \in Seq(Fields)
  BY InputsAssumption DEF Within, TypeOK
<1>3. /\ Wanted.n \in Nat /\ Bytes \in Nat
      /\ phase \in {"mark", "type", "srid", "npoints", "nrings", "ngeoms"} => Wanted.n = 1
      /\ phase = "point" => Wanted.n >= 2
  BY <1>1, <1>2, Positions
<1>4. /\ pos' \in Nat /\ at' \in Nat /\ pos' <= input.size /\ at' >= at
      /\ far' \in Nat /\ far' <= input.size
  BY <1>1, <1>2, <1>3, Touching
<1>5. phase # "points" => at' >= at + 1
  BY <1>1, <1>2, <1>3 DEF Reading
<1>6. ASSUME phase \in {"mark", "type", "srid", "npoints", "nrings", "ngeoms"}
      PROVE  /\ at' = at + 1 /\ at + 1 \in DOMAIN input.fields
             /\ Value \in Int /\ input.fields[at + 1].kind = Wanted.kind
  <2>1. Wanted.n = 1 /\ at' = at + 1
    BY <1>1, <1>2, <1>3, <1>6
  <2>2. at + 1 <= Len(input.fields)
        /\ \A k \in at + 1 .. at + 1 : input.fields[k].kind = Wanted.kind
    BY <1>1, <2>1 DEF Aligned
  <2>3. at + 1 \in DOMAIN input.fields /\ input.fields[at + 1] \in Fields
    BY <1>2, <2>2
  <2> QED BY <1>2, <2>1, <2>2, <2>3 DEF Value, Fields
<1>7. ASSUME phase \in {"npoints", "nrings", "ngeoms"} PROVE Value \in Nat
  <2>1. Wanted.kind = "count"
    BY <1>7, Zenon DEF Wanted
  <2>2. at + 1 \in DOMAIN input.fields /\ input.fields[at + 1].kind = "count"
    BY <1>6, <1>7, <2>1
  <2>3. Value \in 0 .. UINT_MAX
    BY <2>2, InputsAssumption DEF Value, Within
  <2> QED BY <2>3, MachineAssumption
<1> QED BY <1>1, <1>4, <1>5, <1>6, <1>7

LEMMA BodyPhase ==
    ASSUME NEW t
    PROVE  BodyOf(t) \in {"point", "npoints", "nrings", "ngeoms"}
BY DEF BodyOf, LineTypes

LEMMA TypeOfTypes ==
    ASSUME NEW n, IsType(n)
    PROVE  TypeOf(n) \in Types
<1>1. CASE n = 13
  BY <1>1 DEF TypeOf, Types, TypeNumber
<1>2. CASE n = 14
  BY <1>2 DEF TypeOf, Types, TypeNumber
<1>3. CASE n \notin {13, 14}
  <2>1. \E t \in Types : TypeNumber[t] = n
    BY <1>3 DEF IsType
  <2>2. TypeOf(n) = CHOOSE t \in Types : TypeNumber[t] = n
    BY <1>3 DEF TypeOf
  <2> QED BY <2>1, <2>2
<1> QED BY <1>1, <1>2, <1>3

LEMMA ClampNat ==
    ASSUME NEW n \in Int
    PROVE  clamp_srid(n) \in Nat
<1>1. CASE n <= 0
  BY <1>1 DEF clamp_srid, SRID_MAXIMUM
<1>2. CASE n > SRID_MAXIMUM
  <2>1. n % 999 \in 0 .. 998
    BY <1>2
  <2>2. clamp_srid(n) = 999000 + (n % 999)
    BY <1>2 DEF clamp_srid, SRID_MAXIMUM, SRID_USER_MAXIMUM
  <2> QED BY <2>1, <2>2
<1>3. CASE ~(n <= 0) /\ ~(n > SRID_MAXIMUM)
  BY <1>3 DEF clamp_srid
<1> QED BY <1>1, <1>2, <1>3

LEMMA WithinStep ==
    ASSUME Within, Next
    PROVE  Within'
<1> USE DEF Within, TypeOK, LookedAt, NeverPastEnd
<1>0. CASE LetThrough
  <2>1. Holds' = Holds
    BY <1>0 DEF LetThrough, header, Holds, Asked, Wrapped, Bytes, Wanted, Dims
  <2> QED BY <1>0, <2>1 DEF LetThrough, header, Reading
<1>1. CASE RunsOut
  BY <1>1 DEF RunsOut, Stop, place, header, Reading
<1>2. CASE Misreads
  BY <1>2, Touching DEF Misreads, header, Reading
<1>3. CASE ReadMark
  BY <1>3, Taken DEF ReadMark, MarkedOrder
<1>4. CASE ReadType
  <2>1. /\ input' = input /\ order' = order /\ srid' = srid /\ npoints' = npoints
        /\ hasZ' \in BOOLEAN /\ hasM' \in BOOLEAN /\ hasSrid' \in BOOLEAN
    BY <1>4 DEF ReadType
  <2>2. /\ lwtype' \in Types
        /\ phase' \in {"failed", "srid", "point", "npoints", "nrings", "ngeoms"}
    BY <1>4, BodyPhase, TypeOfTypes DEF ReadType
  <2>3. /\ pos' \in Nat /\ at' \in Nat /\ pos' <= input.size
        /\ far' \in Nat /\ far' <= input.size /\ allowed' = FALSE
    BY <1>4, Taken DEF ReadType
  <2> QED BY <2>1, <2>2, <2>3
<1>5. CASE ReadSrid
  BY <1>5, Taken, BodyPhase, ClampNat DEF ReadSrid
<1>6. CASE ReadPoint
  BY <1>6, Taken DEF ReadPoint, Return, header
<1>7. CASE ReadNPoints
  <2>1. maxpoints \in Int
    BY MachineAssumption DEF maxpoints, Width
  <2>2. Value \in Nat
    BY <1>7, Taken DEF ReadNPoints
  <2>3. Value > maxpoints \/ Value <= maxpoints
    BY <2>1, <2>2
  <2> QED BY <1>7, <2>2, <2>3, Taken DEF ReadNPoints, header
<1>8. CASE ReadLine
  BY <1>8, Taken DEF ReadLine, Return, header
<1>9. CASE ReadTriangle
  BY <1>9, Taken DEF ReadTriangle, Return, header
<1>10. CASE ReadNRingsOfTriangle
  BY <1>10, Taken DEF ReadNRingsOfTriangle, Return, header
<1>11. CASE ReadNRings
  BY <1>11, Taken DEF ReadNRings, header
<1>12. CASE NextRing
  BY <1>12 DEF NextRing, place, header, Reading
<1>13. CASE ReadRing
  BY <1>13, Taken DEF ReadRing, header
<1>14. CASE ReadNGeoms
  BY <1>14, Taken DEF ReadNGeoms, header
<1>15. CASE NextGeom
  BY <1>15 DEF NextGeom, place, header, Reading
<1>16. CASE Add
  BY <1>16 DEF Add, place, header, Reading
<1>17. CASE Complete
  BY <1>17 DEF Complete, Return, place, header, Reading
<1>18. CASE Finish
  BY <1>18 DEF Finish, Stop, place, header, Reading
<1> QED
  BY <1>0, <1>1, <1>2, <1>3, <1>4, <1>5, <1>6, <1>7, <1>8, <1>9, <1>10, <1>11, <1>12,
     <1>13, <1>14, <1>15, <1>16, <1>17, <1>18 DEF Next

LEMMA WithinInit == Init => Within
<1>1. "Point" \in Types
  BY DEF Types, TypeNumber
<1> SUFFICES ASSUME Init PROVE Within
  OBVIOUS
<1>2. input \in Inputs /\ pos = 0 /\ pos <= input.size /\ far = 0 /\ far <= input.size
  BY InputsAssumption DEF Init
<1>3. pos \in Nat /\ at \in Nat /\ far \in Nat /\ allowed = FALSE /\ srid \in Nat /\ npoints \in Nat
  BY DEF Init
<1>4. phase = "mark" /\ order = NDR /\ hasZ = FALSE /\ hasM = FALSE /\ hasSrid = FALSE
      /\ lwtype = "Point"
  BY DEF Init
<1> QED BY <1>1, <1>2, <1>3, <1>4, Zenon DEF Within, TypeOK, LookedAt, NeverPastEnd

LEMMA WithinStutters ==
    ASSUME Within, UNCHANGED vars
    PROVE  Within'
BY DEF vars, place, header, Within, TypeOK, LookedAt, NeverPastEnd, Reading, Holds, Asked,
       Wrapped, Bytes, Wanted, Dims

THEOREM SpecWithin == Spec => []Within
<1>1. Within /\ [Next]_vars => Within'
  BY WithinStep, WithinStutters
<1> QED BY <1>1, WithinInit, PTL DEF Spec

\* For every input the state stays of its type.
THEOREM TypeCorrect == Spec => []TypeOK
<1>1. Within => TypeOK
  BY DEF Within
<1> QED BY <1>1, SpecWithin, PTL

\* For every stream, every size it is said to have and every width of an unsigned
\* int, the reader touches no byte beyond the size.  The copy of an array does not
\* look at the bounds, and neither does double_from_wkb_state; the one look before
\* them is at a product of unsigned ints, which maxpoints keeps from wrapping.
THEOREM StaysWithin == Spec => []NeverPastEnd
<1>1. Within => NeverPastEnd
  BY DEF Within
<1> QED BY <1>1, SpecWithin, PTL

-----------------------------------------------------------------------------
(***************************************************************************)
(* Inheritance of the SRID.  An SRID is only ever read as the third field; *)
(* by then nothing has been made, and nothing has been put on the stack.   *)
(***************************************************************************)
\* The fields read so far, as far as they matter here.
Progress ==
    /\ phase = "type" => at >= 1
    /\ phase \notin {"mark", "type", "failed", "garbled"} => at >= 2
    /\ stack # <<>> => at >= 3
    /\ phase \in {"rings", "geoms"} => stack # <<>>
    /\ phase \in {"npoints", "points"} /\ lwtype = "Polygon" => stack # <<>>

\* A record that stands for a geometry with the current SRID.
OfSrid(g, s) == "srid" \in DOMAIN g /\ g.srid = s

Inherited ==
    /\ \E S : stack \in Seq(S)
    /\ OnlyFirstSays =>
          /\ \A k \in DOMAIN stack : OfSrid(stack[k].geom, srid)
          /\ phase = "returned" => OfSrid(geom, srid)

IInv == Within /\ Progress /\ Inherited

LEMMA NewGeometries ==
    ASSUME NEW rings
    PROVE  OfSrid(Made(rings), srid) /\ OfSrid(None, srid)
BY DEF Made, None, Empty, Geometry, OfSrid

LEMMA NewPoint ==
    ASSUME NEW q
    PROVE  OfSrid(PointOf(q), srid)
<1>1. CASE q[1] = NaN /\ q[2] = NaN
  BY <1>1, NewGeometries DEF PointOf
<1>2. CASE ~(q[1] = NaN /\ q[2] = NaN)
  BY <1>2, NewGeometries DEF PointOf
<1> QED BY <1>1, <1>2

\* What the changes to the stack do, for any sequence.
LEMMA Pushed ==
    ASSUME NEW S, NEW st \in Seq(S), NEW f
    PROVE  /\ Append(st, f) \in Seq(S \cup {f})
           /\ Append(st, f) # <<>>
           /\ \A k \in DOMAIN Append(st, f) :
                 Append(st, f)[k] = f \/ (k \in DOMAIN st /\ Append(st, f)[k] = st[k])
<1>1. st \in Seq(S \cup {f})
  BY SeqMonotonic
<1>2. /\ Append(st, f) \in Seq(S \cup {f}) /\ Append(st, f) # <<>>
      /\ Len(Append(st, f)) = Len(st) + 1
      /\ \A i \in 1 .. Len(st) : Append(st, f)[i] = st[i]
      /\ Append(st, f)[Len(st) + 1] = f
  BY <1>1, AppendProperties
<1>3. /\ Len(st) \in Nat /\ DOMAIN st = 1 .. Len(st)
      /\ DOMAIN Append(st, f) = 1 .. Len(st) + 1
  BY <1>1, <1>2, LenProperties
<1> QED BY <1>2, <1>3

LEMMA Replaced ==
    ASSUME NEW S, NEW st \in Seq(S), st # <<>>, NEW f
    PROVE  LET new == [st EXCEPT ![Len(st)] = f]
           IN  /\ new \in Seq(S \cup {f})
               /\ new # <<>>
               /\ Len(st) \in DOMAIN st
               /\ \A k \in DOMAIN new :
                     k \in DOMAIN st /\ (new[k] = f \/ new[k] = st[k])
<1> DEFINE new == [st EXCEPT ![Len(st)] = f]
<1>1. st \in Seq(S \cup {f})
  BY SeqMonotonic
<1>2. Len(st) \in Nat \ {0} /\ DOMAIN st = 1 .. Len(st)
  BY EmptySeq, LenProperties
<1>3. /\ new \in Seq(S \cup {f}) /\ Len(new) = Len(st)
      /\ \A j \in 1 .. Len(st) : new[j] = IF j = Len(st) THEN f ELSE st[j]
  BY <1>1, <1>2, ExceptSeq
<1>4. DOMAIN new = 1 .. Len(st) /\ new # <<>>
  <2>1. Len(new) = Len(st) /\ Len(<<>>) = 0
    BY <1>3, EmptySeq
  <2> QED BY <2>1, <1>2, <1>3, LenProperties
<1> QED BY <1>2, <1>3, <1>4

LEMMA Popped ==
    ASSUME NEW S, NEW st \in Seq(S), st # <<>>
    PROVE  LET new == SubSeq(st, 1, Len(st) - 1)
           IN  /\ new \in Seq(S)
               /\ \A k \in DOMAIN new : k \in DOMAIN st /\ new[k] = st[k]
               /\ Len(st) \in DOMAIN st
<1> DEFINE new == SubSeq(st, 1, Len(st) - 1)
<1>1. Len(st) \in Nat \ {0} /\ DOMAIN st = 1 .. Len(st) /\ \A i \in 1 .. Len(st) : st[i] \in S
  BY EmptySeq, LenProperties, ElementOfSeq
<1>2. /\ new \in Seq(S) /\ Len(new) = Len(st) - 1
      /\ \A i \in 1 .. Len(st) - 1 : new[i] = st[i]
  BY <1>1, SubSeqProperties
<1>3. DOMAIN new = 1 .. Len(st) - 1
  BY <1>2, LenProperties
<1> QED BY <1>1, <1>2, <1>3

-----------------------------------------------------------------------------
LEMMA ProgressStep ==
    ASSUME IInv, Next
    PROVE  Progress'
<1> USE DEF IInv, Progress
<1>0. at \in Nat /\ at' \in Nat /\ at' >= at
  <2>1. at \in Nat
    BY DEF Within, TypeOK
  <2>2. CASE Take
    BY <2>1, <2>2, Taken
  <2>3. CASE UNCHANGED at
    BY <2>1, <2>3
  <2>4. Take \/ UNCHANGED at
    BY DEF Next, RunsOut, LetThrough, Misreads, Stop, place, ReadMark, ReadType, ReadSrid, ReadPoint, ReadNPoints,
           ReadLine, ReadTriangle, ReadNRingsOfTriangle, ReadNRings, NextRing, ReadRing,
           ReadNGeoms, NextGeom, Add, Complete, Finish
  <2> QED BY <2>2, <2>3, <2>4
<1>00. CASE LetThrough
  BY <1>00 DEF LetThrough, header
<1>1. CASE RunsOut
  BY <1>1 DEF RunsOut, Stop, place, header
<1>2. CASE Misreads
  BY <1>2 DEF Misreads, header
<1>3. CASE ReadMark
  BY <1>0, <1>3, Taken DEF ReadMark
<1>4. CASE ReadType
  <2>1. at' = at + 1 /\ at >= 1 /\ stack' = stack
    BY <1>4, Taken DEF ReadType
  <2>2. phase' \in {"srid", "failed"} \/ phase' = BodyOf(lwtype')
    BY <1>4 DEF ReadType
  <2>3. /\ BodyOf(lwtype') \in {"point", "npoints", "nrings", "ngeoms"}
        /\ BodyOf(lwtype') = "npoints" => lwtype' # "Polygon"
    BY DEF BodyOf, LineTypes
  <2> QED BY <1>0, <2>1, <2>2, <2>3
<1>5. CASE ReadSrid
  <2>1. at' = at + 1 /\ at >= 2 /\ stack' = stack /\ lwtype' = lwtype
    BY <1>5, Taken DEF ReadSrid
  <2>2. phase' = BodyOf(lwtype)
    BY <1>5 DEF ReadSrid
  <2>3. /\ BodyOf(lwtype) \in {"point", "npoints", "nrings", "ngeoms"}
        /\ BodyOf(lwtype) = "npoints" => lwtype # "Polygon"
    BY DEF BodyOf, LineTypes
  <2> QED BY <1>0, <2>1, <2>2, <2>3
<1>6. CASE ReadPoint
  BY <1>0, <1>6 DEF ReadPoint, Return, header
<1>7. CASE ReadNPoints
  BY <1>0, <1>7 DEF ReadNPoints, header
<1>8. CASE ReadLine
  BY <1>0, <1>8 DEF ReadLine, Return, header
<1>9. CASE ReadTriangle
  BY <1>0, <1>9 DEF ReadTriangle, Return, header
<1>10. CASE ReadNRingsOfTriangle
  BY <1>0, <1>10 DEF ReadNRingsOfTriangle, Return, header
<1>11. CASE ReadNRings
  <2>1. at' = at + 1 /\ at >= 2 /\ phase' = "rings"
    BY <1>11, Taken DEF ReadNRings
  <2>2. stack' # <<>>
    BY <1>11, Pushed DEF ReadNRings, Push, Inherited
  <2> QED BY <1>0, <2>1, <2>2
<1>12. CASE NextRing
  BY <1>0, <1>12 DEF NextRing, place, header
<1>13. CASE ReadRing
  <2>1. stack # <<>>
    BY <1>13 DEF ReadRing
  <2>2. stack' # <<>>
    BY <2>1, <1>13, Replaced DEF ReadRing, Grown, Inherited
  <2> QED BY <1>0, <1>13, <2>1, <2>2 DEF ReadRing, header
<1>14. CASE ReadNGeoms
  <2>1. at' = at + 1 /\ at >= 2 /\ phase' = "geoms"
    BY <1>14, Taken DEF ReadNGeoms
  <2>2. stack' # <<>>
    BY <1>14, Pushed DEF ReadNGeoms, Push, Inherited
  <2> QED BY <1>0, <2>1, <2>2
<1>15. CASE NextGeom
  BY <1>0, <1>15 DEF NextGeom, place, header
<1>16. CASE Add
  <2>1. stack # <<>>
    BY <1>16 DEF Add
  <2>2. stack' # <<>>
    BY <2>1, <1>16, Replaced DEF Add, Grown, Inherited
  <2> QED BY <1>0, <1>16, <2>1, <2>2 DEF Add, header, place
<1>17. CASE Complete
  BY <1>0, <1>17 DEF Complete, Return, place, header
<1>18. CASE Finish
  BY <1>18 DEF Finish, Stop, place, header
<1> QED
  BY <1>00, <1>1, <1>2, <1>3, <1>4, <1>5, <1>6, <1>7, <1>8, <1>9, <1>10, <1>11, <1>12,
     <1>13, <1>14, <1>15, <1>16, <1>17, <1>18 DEF Next

\* A step that leaves the stack and the SRID alone.
LEMMA SameStack ==
    ASSUME IInv, stack' = stack, srid' = srid, input' = input,
           phase' = "returned" => (OnlyFirstSays => OfSrid(geom', srid))
    PROVE  Inherited'
BY DEF IInv, Inherited, OnlyFirstSays

\* A step that puts a frame on the stack, or another one in the place of the top.
LEMMA NewFrame ==
    ASSUME IInv, NEW f,
           stack' = Append(stack, f) \/ (stack # <<>> /\ stack' = [stack EXCEPT ![Len(stack)] = f]),
           srid' = srid, input' = input, phase' # "returned",
           OnlyFirstSays => OfSrid(f.geom, srid)
    PROVE  Inherited'
<1>1. PICK S : stack \in Seq(S)
  BY DEF IInv, Inherited
<1>2. stack' \in Seq(S \cup {f})
      /\ \A k \in DOMAIN stack' : stack'[k] = f \/ (k \in DOMAIN stack /\ stack'[k] = stack[k])
  BY <1>1, Pushed, Replaced
<1>3. ASSUME OnlyFirstSays, NEW k \in DOMAIN stack'
      PROVE  OfSrid(stack'[k].geom, srid)
  BY <1>2, <1>3 DEF IInv, Inherited
<1> QED BY <1>2, <1>3 DEF Inherited, OnlyFirstSays

\* The top of the stack, once it has been given a part.
LEMMA TopKeeps ==
    ASSUME IInv, OnlyFirstSays, stack # <<>>, NEW part
    PROVE  /\ OfSrid(Top.geom, srid)
           /\ OfSrid([Top.geom EXCEPT !.rings = part], srid)
           /\ OfSrid([Top.geom EXCEPT !.geoms = part], srid)
<1>1. Len(stack) \in DOMAIN stack
  BY Popped DEF IInv, Inherited
<1>2. OfSrid(Top.geom, srid)
  BY <1>1 DEF IInv, Inherited, Top
<1>3. /\ OfSrid([Top.geom EXCEPT !.rings = part], srid)
      /\ OfSrid([Top.geom EXCEPT !.geoms = part], srid)
  BY <1>2 DEF OfSrid
<1> QED BY <1>2, <1>3

LEMMA InheritedStep ==
    ASSUME IInv, Next
    PROVE  Inherited'
<1>0. CASE LetThrough
  BY <1>0, SameStack DEF LetThrough, header, IInv, Inherited
<1>1. CASE RunsOut
  BY <1>1, SameStack DEF RunsOut, Stop, header
<1>2. CASE Misreads
  BY <1>2, SameStack DEF Misreads, header
<1>3. CASE ReadMark
  BY <1>3, SameStack DEF ReadMark
<1>4. CASE ReadType
  <2>1. stack' = stack /\ srid' = srid /\ input' = input
    BY <1>4 DEF ReadType
  <2>2. phase' \in {"srid", "failed"} \/ phase' = BodyOf(lwtype')
    BY <1>4 DEF ReadType
  <2>3. phase' # "returned"
    BY <2>2, BodyPhase
  <2> QED BY <2>1, <2>3, SameStack
<1>5. CASE ReadSrid
  <2>1. stack' = stack /\ input' = input /\ phase' = BodyOf(lwtype)
    BY <1>5 DEF ReadSrid
  <2>2. phase' # "returned"
    BY <2>1, BodyPhase
  <2>3. ASSUME OnlyFirstSays PROVE stack = <<>>
    <3>1. at + 1 \in DOMAIN input.fields /\ input.fields[at + 1].kind = Wanted.kind
      BY <1>5, Taken DEF ReadSrid, IInv
    <3>2. Wanted.kind = "srid"
      BY <1>5, Zenon DEF Wanted, ReadSrid
    <3>3. at + 1 = 3 /\ at \in Nat
      BY <3>1, <3>2, <2>3 DEF OnlyFirstSays, IInv, Within, TypeOK
    <3> QED BY <3>3 DEF IInv, Progress
  <2>4. ASSUME OnlyFirstSays PROVE DOMAIN stack' = {}
    <3>1. stack' = <<>>
      BY <2>1, <2>3, <2>4
    <3> QED BY <3>1
  <2> QED BY <2>1, <2>2, <2>4 DEF IInv, Inherited, OnlyFirstSays
<1>6. CASE ReadPoint
  BY <1>6, NewPoint, SameStack DEF ReadPoint, Return, header
<1>7. CASE ReadNPoints
  BY <1>7, SameStack DEF ReadNPoints, header
<1>8. CASE ReadLine
  BY <1>8, NewGeometries, SameStack DEF ReadLine, Return, header
<1>9. CASE ReadTriangle
  BY <1>9, NewGeometries, SameStack DEF ReadTriangle, Return, header
<1>10. CASE ReadNRingsOfTriangle
  BY <1>10, NewGeometries, SameStack DEF ReadNRingsOfTriangle, Return, header
<1>11. CASE ReadNRings
  BY <1>11, NewGeometries, NewFrame DEF ReadNRings, Push, header
<1>12. CASE NextRing
  BY <1>12, SameStack DEF NextRing, header
<1>13. CASE ReadRing
  <2>1. stack # <<>>
    BY <1>13 DEF ReadRing, IInv, Progress
  <2>2. CASE Refused(Points)
    BY <1>13, <2>2, SameStack DEF ReadRing, header
  <2>3. CASE ~Refused(Points)
    <3> DEFINE rings == Append(Top.geom.rings, Points)
               g == [Top.geom EXCEPT !.rings = rings]
    <3> HIDE DEF rings
    <3>1. OnlyFirstSays => OfSrid(g, srid)
      BY <2>1, TopKeeps
    <3>2. stack' = Grown(g) /\ phase' = "rings" /\ srid' = srid /\ input' = input
      BY <1>13, <2>3 DEF ReadRing, header, rings
    <3> DEFINE f == [geom |-> g, left |-> Top.left - 1]
    <3>3. f.geom = g /\ stack' = [stack EXCEPT ![Len(stack)] = f]
      BY <3>2 DEF Grown
    <3>4. phase' # "returned" /\ srid' = srid /\ input' = input
      BY <3>2
    <3> HIDE DEF g, f
    <3>5. OnlyFirstSays => OfSrid(f.geom, srid)
      BY <3>1, <3>3
    <3> QED BY <2>1, <3>3, <3>4, <3>5, NewFrame
  <2> QED BY <2>2, <2>3
<1>14. CASE ReadNGeoms
  BY <1>14, NewGeometries, NewFrame DEF ReadNGeoms, Push, header
<1>15. CASE NextGeom
  BY <1>15, SameStack DEF NextGeom, header
<1>16. CASE Add
  <2>1. stack # <<>>
    BY <1>16 DEF Add
  <2>2. CASE Allows(Top.geom.type, geom.type)
    <3> DEFINE geoms == Append(Top.geom.geoms, geom)
               g == [Top.geom EXCEPT !.geoms = geoms]
    <3> HIDE DEF geoms
    <3>1. OnlyFirstSays => OfSrid(g, srid)
      BY <2>1, TopKeeps
    <3>2. stack' = Grown(g) /\ phase' = "geoms" /\ srid' = srid /\ input' = input
      BY <1>16, <2>2 DEF Add, header, geoms
    <3> DEFINE f == [geom |-> g, left |-> Top.left - 1]
    <3>3. f.geom = g /\ stack' = [stack EXCEPT ![Len(stack)] = f]
      BY <3>2 DEF Grown
    <3>4. phase' # "returned" /\ srid' = srid /\ input' = input
      BY <3>2
    <3> HIDE DEF g, f
    <3>5. OnlyFirstSays => OfSrid(f.geom, srid)
      BY <3>1, <3>3
    <3> QED BY <2>1, <3>3, <3>4, <3>5, NewFrame
  <2>3. CASE ~Allows(Top.geom.type, geom.type)
    BY <1>16, <2>3, SameStack DEF Add, header
  <2> QED BY <2>2, <2>3
<1>17. CASE Complete
  <2>1. stack # <<>>
    BY <1>17 DEF Complete, IInv, Progress
  <2>2. /\ stack' = SubSeq(stack, 1, Len(stack) - 1)
        /\ geom' = Top.geom /\ srid' = srid /\ input' = input
    BY <1>17 DEF Complete, Return, header
  <2>3. PICK S : stack \in Seq(S)
    BY DEF IInv, Inherited
  <2>4. stack' \in Seq(S) /\ \A k \in DOMAIN stack' : k \in DOMAIN stack /\ stack'[k] = stack[k]
    BY <2>1, <2>2, <2>3, Popped
  <2>5. OnlyFirstSays => OfSrid(geom', srid)
    BY <2>1, <2>2, TopKeeps
  <2> QED BY <2>2, <2>4, <2>5 DEF IInv, Inherited, OnlyFirstSays
<1>18. CASE Finish
  BY <1>18, SameStack DEF Finish, Stop, header
<1> QED
  BY <1>0, <1>1, <1>2, <1>3, <1>4, <1>5, <1>6, <1>7, <1>8, <1>9, <1>10, <1>11, <1>12,
     <1>13, <1>14, <1>15, <1>16, <1>17, <1>18 DEF Next

THEOREM SpecInv == Spec => []IInv
<1>1. Init => IInv
  <2> SUFFICES ASSUME Init PROVE IInv
    OBVIOUS
  <2>1. stack = <<>> /\ stack \in Seq({}) /\ DOMAIN stack = {} /\ phase = "mark"
    BY DEF Init
  <2> QED BY <2>1, WithinInit DEF IInv, Progress, Inherited
<1>2. IInv /\ [Next]_vars => IInv'
  <2> SUFFICES ASSUME IInv, [Next]_vars PROVE IInv'
    OBVIOUS
  <2>1. CASE Next
    BY <2>1, WithinStep, ProgressStep, InheritedStep DEF IInv
  <2>2. CASE UNCHANGED vars
    <3>1. Within'
      BY <2>2, WithinStutters DEF IInv
    <3>2. phase' = phase /\ at' = at /\ stack' = stack /\ lwtype' = lwtype /\ input' = input
          /\ srid' = srid /\ geom' = geom
      BY <2>2 DEF vars, place, header
    <3> QED BY <3>1, <3>2 DEF IInv, Progress, Inherited, OnlyFirstSays
  <2> QED BY <2>1, <2>2
<1> QED BY <1>1, <1>2, PTL DEF Spec

\* For every stream in which the first geometry alone says what its SRID is, as
\* in all that lwout_wkb.c writes: at every depth and at every moment, what has
\* been made has that SRID, and so has what is still being put together.
THEOREM SridCorrect == Spec => []SridInherited
<1>1. IInv => SridInherited
  BY DEF IInv, Inherited, SridInherited, OfSrid
<1> QED BY <1>1, SpecInv, PTL

-----------------------------------------------------------------------------
(***************************************************************************)
(* The checks.  A geometry is sound when it is in a set of geometries that *)
(* meet the checks and have no member outside of the set; this needs no    *)
(* recursion, and the levels inside of such a geometry are in the set.     *)
(***************************************************************************)
Whole(checks, S) == \A h \in S : Meets(checks, h) /\ Members(h) \subseteq S

Sound(checks, g) == \E S : g \in S /\ Whole(checks, S)

LEMMA SoundAlone ==
    ASSUME NEW checks, NEW g, Meets(checks, g), Members(g) = {}
    PROVE  Sound(checks, g)
<1>1. g \in {g} /\ Whole(checks, {g})
  BY DEF Whole
<1> QED BY <1>1 DEF Sound

LEMMA SoundAgain ==
    ASSUME NEW checks, NEW g, NEW new, Sound(checks, g),
           Meets(checks, new), Members(new) = Members(g)
    PROVE  Sound(checks, new)
<1>1. PICK S : g \in S /\ Whole(checks, S)
  BY DEF Sound
<1>2. new \in S \cup {new} /\ Whole(checks, S \cup {new})
  BY <1>1 DEF Whole
<1> QED BY <1>2 DEF Sound

LEMMA SoundWith ==
    ASSUME NEW checks, NEW g, NEW part, NEW new, Sound(checks, g), Sound(checks, part),
           Meets(checks, new), Members(new) = Members(g) \cup {part}
    PROVE  Sound(checks, new)
<1>1. PICK S : g \in S /\ Whole(checks, S)
  BY DEF Sound
<1>2. PICK P : part \in P /\ Whole(checks, P)
  BY DEF Sound
<1>3. new \in S \cup P \cup {new} /\ Whole(checks, S \cup P \cup {new})
  BY <1>1, <1>2 DEF Whole
<1> QED BY <1>3 DEF Sound

\* The levels of a geometry, which are defined by recursion.
LEMMA InsideEquation ==
    ASSUME NEW S, NEW g \in S, \A h \in S : Members(h) \subseteq S
    PROVE  /\ Inside(g)[0] = {g}
           /\ \A n \in Nat : Inside(g)[n + 1] = UNION {Members(h) : h \in Inside(g)[n]}
<1> DEFINE below == [x \in Nat \X (SUBSET S) |-> UNION {Members(h) : h \in x[2]}]
           T == SUBSET S
           a == {g}
<1>1. a \in T
  OBVIOUS
<1>2. below \in [Nat \X T -> T]
  <2> SUFFICES ASSUME NEW x \in Nat \X T PROVE UNION {Members(h) : h \in x[2]} \in T
    OBVIOUS
  <2>1. \A h \in x[2] : Members(h) \subseteq S
    OBVIOUS
  <2> QED BY <2>1
<1> HIDE DEF below, T, a
<1>3. PICK f : Recursive(f, T, a, below)
  BY <1>1, <1>2, RecursionExists
<1>4. f \in [Nat -> T] /\ f[0] = {g}
  BY <1>3 DEF Recursive, a
<1>5. ASSUME NEW n \in Nat PROVE f[n + 1] = UNION {Members(h) : h \in f[n]}
  <2>1. f[n + 1] = below[<<n + 1, f[n]>>]
    BY <1>3 DEF Recursive
  <2>2. n + 1 \in Nat /\ f[n] \in SUBSET S
    BY <1>4 DEF T
  <2>3. PICK k \in Nat, L \in SUBSET S : k = n + 1 /\ L = f[n]
    BY <2>2
  <2>4. below[<<k, L>>] = UNION {Members(h) : h \in L}
    BY <2>3 DEF below, T
  <2> QED BY <2>1, <2>3, <2>4
<1>6. \A n \in Nat : f[n] = IF n = 0 THEN {g} ELSE UNION {Members(h) : h \in f[n - 1]}
  <2> SUFFICES ASSUME NEW n \in Nat, n # 0 PROVE f[n] = UNION {Members(h) : h \in f[n - 1]}
    BY <1>4
  <2>1. n - 1 \in Nat /\ (n - 1) + 1 = n
    OBVIOUS
  <2>2. f[(n - 1) + 1] = UNION {Members(h) : h \in f[n - 1]}
    BY <1>5, <2>1, Zenon
  <2> QED BY <2>1, <2>2
<1>7. f = [n \in Nat |-> IF n = 0 THEN {g} ELSE UNION {Members(h) : h \in f[n - 1]}]
  BY <1>4, <1>6
<1>8. PICK level : level = Inside(g)
  OBVIOUS
<1>9. level = [n \in Nat |-> IF n = 0 THEN {g} ELSE UNION {Members(h) : h \in level[n - 1]}]
  BY <1>7, <1>8 DEF Inside
<1>10. \A n \in Nat : level[n] = IF n = 0 THEN {g} ELSE UNION {Members(h) : h \in level[n - 1]}
  BY <1>9, Zenon
<1>11. level[0] = {g}
  BY <1>10
<1>12. ASSUME NEW n \in Nat PROVE level[n + 1] = UNION {Members(h) : h \in level[n]}
  <2>1. n + 1 \in Nat /\ n + 1 # 0 /\ (n + 1) - 1 = n
    OBVIOUS
  <2>2. level[n + 1] = UNION {Members(h) : h \in level[(n + 1) - 1]}
    BY <1>10, <2>1, Zenon
  <2> QED BY <2>1, <2>2
<1> QED BY <1>8, <1>11, <1>12

LEMMA SoundInside ==
    ASSUME NEW checks, NEW g, Sound(checks, g)
    PROVE  \A n \in Nat : \A h \in Inside(g)[n] : Meets(checks, h)
<1>1. PICK S : g \in S /\ Whole(checks, S)
  BY DEF Sound
<1>2. \A h \in S : Members(h) \subseteq S
  BY <1>1 DEF Whole
<1>3. /\ Inside(g)[0] = {g}
      /\ \A n \in Nat : Inside(g)[n + 1] = UNION {Members(h) : h \in Inside(g)[n]}
  BY <1>1, <1>2, InsideEquation
<1> DEFINE N == {n \in Nat : Inside(g)[n] \subseteq S}
<1>4. 0 \in N
  BY <1>1, <1>3
<1>5. ASSUME NEW n \in Nat, n \in N PROVE n + 1 \in N
  <2>1. \A h \in Inside(g)[n] : Members(h) \subseteq S
    BY <1>2, <1>5
  <2>2. UNION {Members(h) : h \in Inside(g)[n]} \subseteq S
    BY <2>1
  <2> QED BY <1>3, <2>2
<1> HIDE DEF N
<1>6. \A n \in Nat : n \in N
  BY <1>4, <1>5, NumberInduction
<1> QED BY <1>1, <1>6 DEF N, Whole

-----------------------------------------------------------------------------
(***************************************************************************)
(* What is made of points that were not refused.                           *)
(***************************************************************************)
\* A geometry that is still open: more rings or more members may come.
OpenOK(checks, g) ==
    /\ {"type", "rings", "geoms"} \subseteq DOMAIN g
    /\ g.type \notin LineTypes \cup {"Triangle"}
    /\ \E T : g.rings \in Seq(T)
    /\ \E T : g.geoms \in Seq(T)
    /\ Sound(checks, g)

Kept ==
    /\ input.check \subseteq check
    /\ phase = "point" => lwtype = "Point"
    /\ phase = "ngeoms" => lwtype \notin SimpleTypes
    /\ \A k \in DOMAIN stack : OpenOK(input.check, stack[k].geom)
    /\ phase \in {"returned", "done"} => Sound(input.check, geom)

CInv == IInv /\ Kept

LEMMA PointsLength ==
    ASSUME npoints \in Nat
    PROVE  Len(Points) \in Nat
<1>1. PICK pa : pa = Points
  OBVIOUS
<1>2. pa \in [1 .. npoints -> {pa[k] : k \in 1 .. npoints}]
  <2>1. DOMAIN pa = 1 .. npoints /\ pa = [k \in 1 .. npoints |-> pa[k]]
    BY <1>1 DEF Points
  <2> QED BY <2>1
<1>3. pa \in Seq({pa[k] : k \in 1 .. npoints})
  BY <1>2, SeqDef
<1> QED BY <1>1, <1>3, LenProperties

\* The checks of one array of points.
LEMMA NotRefused ==
    ASSUME NEW pa, Len(pa) \in Nat, ~ Refused(pa), NEW checks, checks \subseteq check,
           lwtype \in LineTypes \cup {"Polygon", "Triangle"}
    PROVE  /\ "MINPOINTS" \in checks =>
                 \/ Len(pa) >= MinPoints[lwtype]
                 \/ lwtype \in LineTypes /\ pa = <<>>
           /\ "ODD" \in checks /\ lwtype = "CircString" => pa = <<>> \/ Len(pa) % 2 = 1
           /\ "CLOSURE" \in checks /\ lwtype = "Polygon" => Closed2d(pa)
           /\ "ZCLOSURE" \in checks /\ lwtype = "Triangle" => ClosedZ(pa)
<1>1. MinPoints = [Line |-> 2, CircString |-> 3, Polygon |-> 4, Triangle |-> 4]
  BY DEF MinPoints
<1>2. MinPoints[lwtype] \in Nat
  BY <1>1 DEF LineTypes
<1>3. "MINPOINTS" \in checks => ~ (Len(pa) < MinPoints[lwtype]) \/ (lwtype \in LineTypes /\ pa = <<>>)
  BY Zenon DEF Refused
<1>4. "ODD" \in checks /\ lwtype = "CircString" => pa = <<>> \/ Len(pa) % 2 # 0
  BY Zenon DEF Refused
<1>5. /\ "CLOSURE" \in checks /\ lwtype = "Polygon" => Closed2d(pa)
      /\ "ZCLOSURE" \in checks /\ lwtype = "Triangle" => ClosedZ(pa)
  BY Zenon DEF Refused
<1>6. ~ (Len(pa) < MinPoints[lwtype]) => Len(pa) >= MinPoints[lwtype]
  BY <1>2
<1>7. Len(pa) % 2 # 0 => Len(pa) % 2 = 1
  OBVIOUS
<1> QED BY <1>3, <1>4, <1>5, <1>6, <1>7, Zenon

LEMMA MadeKept ==
    ASSUME lwtype \in LineTypes \cup {"Triangle"}, NEW pa, Len(pa) \in Nat, ~ Refused(pa),
           NEW checks, checks \subseteq check
    PROVE  Sound(checks, Made(<<pa>>))
<1>1. PICK g : g = Made(<<pa>>)
  OBVIOUS
<1>2. /\ g.type = lwtype /\ g.z = hasZ /\ g.rings[1] = pa /\ g.geoms = <<>>
      /\ g.type # "Polygon"
  BY <1>1 DEF Made, Geometry, LineTypes
<1>3. /\ "MINPOINTS" \in checks =>
            \/ Len(pa) >= MinPoints[lwtype]
            \/ lwtype \in LineTypes /\ pa = <<>>
      /\ "ODD" \in checks /\ lwtype = "CircString" => pa = <<>> \/ Len(pa) % 2 = 1
      /\ "ZCLOSURE" \in checks /\ lwtype = "Triangle" => ClosedZ(pa)
  BY NotRefused
<1>4. MinPoints[lwtype] \in Nat
  BY DEF MinPoints, LineTypes
<1>5. "MINPOINTS" \in checks => Len(pa) \notin 1 .. MinPoints[lwtype] - 1
  <2>1. Len(<<>>) = 0
    OBVIOUS
  <2> QED BY <1>3, <1>4, <2>1
<1>6. Meets(checks, g)
  BY <1>2, <1>3, <1>5 DEF Meets, ClosedZ
<1>7. Members(g) = {}
  BY <1>2 DEF Members
<1> QED BY <1>1, <1>6, <1>7, SoundAlone

LEMMA NoneKept ==
    ASSUME NEW checks, lwtype \notin LineTypes
    PROVE  /\ Sound(checks, None)
           /\ lwtype # "Triangle" => OpenOK(checks, None)
<1>1. PICK g : g = None
  OBVIOUS
<1>2. /\ DOMAIN g = {"type", "srid", "z", "m", "rings", "geoms"}
      /\ g.type = lwtype /\ g.geoms = <<>>
      /\ g.rings = <<>> \/ g.rings = << <<>> >>
      /\ g.type = "Triangle" => g.rings = << <<>> >>
      /\ g.type = "Polygon" => g.rings = <<>>
  BY <1>1 DEF None, Empty, Geometry, SimpleTypes, LineTypes
<1>3. Meets(checks, g)
  <2>1. CASE g.type = "Triangle"
    <3>1. g.rings[1] = <<>> /\ Len(<<>>) = 0
      BY <1>2, <2>1
    <3> QED BY <2>1, <3>1 DEF Meets, ClosedIn, MinPoints
  <2>2. CASE g.type # "Triangle"
    <3>1. g.type \notin LineTypes \cup {"Triangle"} /\ g.type # "CircString"
      BY <1>2, <2>2 DEF LineTypes
    <3>2. g.type = "Polygon" => DOMAIN g.rings = {}
      BY <1>2
    <3> QED BY <3>1, <3>2 DEF Meets
  <2> QED BY <2>1, <2>2
<1>4. Members(g) = {}
  BY <1>2 DEF Members
<1>5. Sound(checks, g)
  BY <1>3, <1>4, SoundAlone
<1>6. g.rings \in Seq({<<>>}) /\ g.geoms \in Seq({})
  <2>1. <<>> \in Seq({<<>>}) /\ << <<>> >> \in Seq({<<>>}) /\ <<>> \in Seq({})
    OBVIOUS
  <2> QED BY <1>2, <2>1, Zenon
<1> QED BY <1>1, <1>2, <1>5, <1>6 DEF OpenOK

LEMMA PointKept ==
    ASSUME NEW checks, lwtype = "Point", NEW q
    PROVE  Sound(checks, PointOf(q))
<1>1. Sound(checks, None)
  BY NoneKept DEF LineTypes
<1>2. Sound(checks, Made(<< <<q>> >>))
  <2>1. PICK g : g = Made(<< <<q>> >>)
    OBVIOUS
  <2>2. g.type = "Point" /\ g.geoms = <<>>
    BY <2>1 DEF Made, Geometry
  <2>3. Meets(checks, g) /\ Members(g) = {}
    BY <2>2 DEF Meets, LineTypes, Members
  <2> QED BY <2>1, <2>3, SoundAlone
<1>3. CASE q[1] = NaN /\ q[2] = NaN
  BY <1>1, <1>3 DEF PointOf
<1>4. CASE ~(q[1] = NaN /\ q[2] = NaN)
  BY <1>2, <1>4 DEF PointOf
<1> QED BY <1>3, <1>4

LEMMA RingKept ==
    ASSUME NEW checks, checks \subseteq check, NEW g, OpenOK(checks, g),
           NEW pa, Len(pa) \in Nat, ~ Refused(pa), lwtype = "Polygon"
    PROVE  OpenOK(checks, [g EXCEPT !.rings = Append(g.rings, pa)])
<1>1. PICK T : g.rings \in Seq(T)
  BY DEF OpenOK
<1>2. PICK rings : rings = Append(g.rings, pa)
  OBVIOUS
<1>3. /\ rings \in Seq(T \cup {pa})
      /\ \A k \in DOMAIN rings : rings[k] = pa \/ (k \in DOMAIN g.rings /\ rings[k] = g.rings[k])
  BY <1>1, <1>2, Pushed
<1>4. PICK new : new = [g EXCEPT !.rings = rings]
  OBVIOUS
<1>5. /\ DOMAIN new = DOMAIN g /\ new.rings = rings
      /\ new.type = g.type /\ new.geoms = g.geoms
  BY <1>4 DEF OpenOK
<1>6. Members(new) = Members(g)
  BY <1>5 DEF Members
<1>7. g.type \notin LineTypes \cup {"Triangle"} /\ g.type # "CircString" /\ Sound(checks, g)
  BY DEF OpenOK, LineTypes
<1>8. Meets(checks, g)
  BY <1>7 DEF Sound, Whole
<1>9. /\ "MINPOINTS" \in checks => Len(pa) >= MinPoints["Polygon"]
      /\ "CLOSURE" \in checks => Closed2d(pa)
  BY NotRefused DEF LineTypes
<1>10. Meets(checks, new)
  <2>1. "MINPOINTS" \in checks /\ new.type = "Polygon" =>
           \A k \in DOMAIN new.rings : Len(new.rings[k]) >= MinPoints[new.type]
    BY <1>3, <1>5, <1>8, <1>9, Zenon DEF Meets
  <2>2. "CLOSURE" \in checks /\ new.type = "Polygon" =>
           \A k \in DOMAIN new.rings : Closed2d(new.rings[k])
    BY <1>3, <1>5, <1>8, <1>9, Zenon DEF Meets
  <2>3. new.type \notin LineTypes \cup {"Triangle"} /\ new.type # "CircString"
    BY <1>5, <1>7
  <2> QED BY <2>1, <2>2, <2>3, Zenon DEF Meets
<1>11. Sound(checks, new)
  BY <1>6, <1>7, <1>10, SoundAgain
<1>12. OpenOK(checks, new)
  BY <1>3, <1>5, <1>7, <1>11 DEF OpenOK
<1> QED BY <1>2, <1>4, <1>12

LEMMA MemberKept ==
    ASSUME NEW checks, NEW g, OpenOK(checks, g), NEW part, Sound(checks, part)
    PROVE  OpenOK(checks, [g EXCEPT !.geoms = Append(g.geoms, part)])
<1>1. PICK T : g.geoms \in Seq(T)
  BY DEF OpenOK
<1>2. PICK geoms : geoms = Append(g.geoms, part)
  OBVIOUS
<1>3. /\ geoms \in Seq(T \cup {part}) /\ Len(g.geoms) \in Nat
      /\ DOMAIN g.geoms = 1 .. Len(g.geoms) /\ DOMAIN geoms = 1 .. Len(g.geoms) + 1
      /\ \A k \in 1 .. Len(g.geoms) : geoms[k] = g.geoms[k]
      /\ geoms[Len(g.geoms) + 1] = part
  <2>1. g.geoms \in Seq(T \cup {part})
    BY <1>1, SeqMonotonic
  <2> QED BY <1>2, <2>1, AppendProperties, LenProperties
<1>4. PICK new : new = [g EXCEPT !.geoms = geoms]
  OBVIOUS
<1>5. /\ DOMAIN new = DOMAIN g /\ new.geoms = geoms
      /\ new.type = g.type /\ new.rings = g.rings
  BY <1>4 DEF OpenOK
<1>6. Members(new) = Members(g) \cup {part}
  <2>1. \A x \in Members(new) : x \in Members(g) \cup {part}
    BY <1>3, <1>5 DEF Members
  <2>2. \A x \in Members(g) \cup {part} : x \in Members(new)
    BY <1>3, <1>5 DEF Members
  <2> QED BY <2>1, <2>2
<1>7. g.type \notin LineTypes \cup {"Triangle"} /\ g.type # "CircString" /\ Sound(checks, g)
  BY DEF OpenOK, LineTypes
<1>8. Meets(checks, g)
  BY <1>7 DEF Sound, Whole
<1>9. Meets(checks, new)
  BY <1>5, <1>7, <1>8, Zenon DEF Meets
<1>10. Sound(checks, new)
  BY <1>6, <1>7, <1>9, SoundWith
<1>11. OpenOK(checks, new)
  BY <1>3, <1>5, <1>7, <1>10 DEF OpenOK
<1> QED BY <1>2, <1>4, <1>11

-----------------------------------------------------------------------------
(***************************************************************************)
(* Every step keeps to the checks.                                         *)
(***************************************************************************)
\* Where the phase that a type leads to is about a type.
LEMMA BodyTypes ==
    ASSUME NEW t
    PROVE  /\ BodyOf(t) = "point" => t = "Point"
           /\ BodyOf(t) = "ngeoms" => t \notin SimpleTypes
BY DEF BodyOf, SimpleTypes, LineTypes

\* A step that leaves the stack alone and asks for no points and no members.
LEMMA SameKept ==
    ASSUME CInv, stack' = stack, input' = input, check' = check,
           phase' \notin {"point", "ngeoms"},
           phase' \in {"returned", "done"} => Sound(input.check, geom')
    PROVE  Kept'
BY DEF CInv, Kept

\* A step that puts a frame on the stack, or another one in the place of the top.
LEMMA FrameKept ==
    ASSUME CInv, NEW f,
           stack' = Append(stack, f) \/ (stack # <<>> /\ stack' = [stack EXCEPT ![Len(stack)] = f]),
           input' = input, check \subseteq check', phase' \in {"rings", "geoms"},
           OpenOK(input.check, f.geom)
    PROVE  Kept'
<1>1. PICK S : stack \in Seq(S)
  BY DEF CInv, IInv, Inherited
<1>2. \A k \in DOMAIN stack' : stack'[k] = f \/ (k \in DOMAIN stack /\ stack'[k] = stack[k])
  BY <1>1, Pushed, Replaced
<1>3. ASSUME NEW k \in DOMAIN stack' PROVE OpenOK(input.check, stack'[k].geom)
  BY <1>2 DEF CInv, Kept
<1> QED BY <1>3 DEF CInv, Kept

LEMMA TopKept ==
    ASSUME CInv, stack # <<>>
    PROVE  OpenOK(input.check, Top.geom)
<1>1. Len(stack) \in DOMAIN stack
  BY Popped DEF CInv, IInv, Inherited
<1> QED BY <1>1 DEF CInv, Kept, Top

LEMMA KeptStep ==
    ASSUME CInv, Next
    PROVE  Kept'
<1>0. /\ IInv /\ input.check \subseteq check /\ npoints \in Nat
      /\ Len(Points) \in Nat
  BY PointsLength DEF CInv, Kept, IInv, Within, TypeOK
<1>00. CASE LetThrough
  BY <1>00 DEF LetThrough, CInv, Kept, header
<1>1. CASE RunsOut
  BY <1>1, SameKept DEF RunsOut, Stop
<1>2. CASE Misreads
  BY <1>2, SameKept DEF Misreads
<1>3. CASE ReadMark
  BY <1>3, SameKept DEF ReadMark
<1>4. CASE ReadType
  <2>1. stack' = stack /\ input' = input /\ check' = check
    BY <1>4 DEF ReadType
  <2>2. phase' \in {"srid", "failed"} \/ phase' = BodyOf(lwtype')
    BY <1>4 DEF ReadType
  <2> QED BY <2>1, <2>2, BodyPhase, BodyTypes DEF CInv, Kept
<1>5. CASE ReadSrid
  <2>1. stack' = stack /\ input' = input /\ check' = check /\ lwtype' = lwtype
        /\ phase' = BodyOf(lwtype)
    BY <1>5 DEF ReadSrid
  <2> QED BY <2>1, BodyPhase, BodyTypes DEF CInv, Kept
<1>6. CASE ReadPoint
  <2>1. lwtype = "Point"
    BY <1>6 DEF ReadPoint, CInv, Kept
  <2> QED BY <1>6, <2>1, PointKept, SameKept DEF ReadPoint, Return
<1>7. CASE ReadNPoints
  BY <1>7, SameKept DEF ReadNPoints
<1>8. CASE ReadLine
  <2>1. CASE Refused(Points)
    BY <1>8, <2>1, SameKept DEF ReadLine
  <2>2. CASE ~ Refused(Points)
    <3>1. Sound(input.check, Made(<<Points>>))
      BY <1>0, <1>8, <2>2, MadeKept DEF ReadLine
    <3> QED BY <1>8, <2>2, <3>1, SameKept DEF ReadLine, Return
  <2> QED BY <2>1, <2>2
<1>9. CASE ReadTriangle
  <2>1. CASE Refused(Points)
    BY <1>9, <2>1, SameKept DEF ReadTriangle
  <2>2. CASE ~ Refused(Points)
    <3>1. Sound(input.check, Made(<<Points>>))
      BY <1>0, <1>9, <2>2, MadeKept DEF ReadTriangle
    <3> QED BY <1>9, <2>2, <3>1, SameKept DEF ReadTriangle, Return
  <2> QED BY <2>1, <2>2
<1>10. CASE ReadNRingsOfTriangle
  <2>1. Sound(input.check, None)
    BY <1>10, NoneKept DEF ReadNRingsOfTriangle, LineTypes
  <2> QED BY <1>10, <2>1, SameKept DEF ReadNRingsOfTriangle, Return
<1>11. CASE ReadNRings
  <2>1. OpenOK(input.check, None)
    BY <1>11, NoneKept DEF ReadNRings, LineTypes
  <2> DEFINE f == [geom |-> None, left |-> Value]
  <2>2. f.geom = None /\ stack' = Append(stack, f)
    BY <1>11 DEF ReadNRings, Push
  <2>3. input' = input /\ check' = check /\ phase' = "rings"
    BY <1>11 DEF ReadNRings
  <2> HIDE DEF f
  <2> QED BY <2>1, <2>2, <2>3, FrameKept
<1>12. CASE NextRing
  BY <1>12, SameKept DEF NextRing
<1>13. CASE ReadRing
  <2>1. stack # <<>>
    BY <1>0, <1>13 DEF ReadRing, IInv, Progress
  <2>2. CASE Refused(Points)
    BY <1>13, <2>2, SameKept DEF ReadRing
  <2>3. CASE ~ Refused(Points)
    <3> DEFINE rings == Append(Top.geom.rings, Points)
               g == [Top.geom EXCEPT !.rings = rings]
    <3>1. OpenOK(input.check, g)
      BY <1>0, <1>13, <2>1, <2>3, TopKept, RingKept DEF ReadRing
    <3> HIDE DEF rings
    <3>2. stack' = Grown(g) /\ phase' = "rings" /\ input' = input /\ check' = check
      BY <1>13, <2>3 DEF ReadRing, rings
    <3> DEFINE f == [geom |-> g, left |-> Top.left - 1]
    <3>3. f.geom = g /\ stack' = [stack EXCEPT ![Len(stack)] = f]
      BY <3>2 DEF Grown
    <3> HIDE DEF g, f
    <3> QED BY <2>1, <3>1, <3>2, <3>3, FrameKept
  <2> QED BY <2>2, <2>3
<1>14. CASE ReadNGeoms
  <2>1. OpenOK(input.check, None)
    BY <1>14, NoneKept DEF ReadNGeoms, CInv, Kept, SimpleTypes
  <2> DEFINE f == [geom |-> None, left |-> Value]
  <2>2. f.geom = None /\ stack' = Append(stack, f)
    BY <1>14 DEF ReadNGeoms, Push
  <2>3. input' = input /\ check \subseteq check' /\ phase' = "geoms"
    BY <1>14 DEF ReadNGeoms
  <2> HIDE DEF f
  <2> QED BY <2>1, <2>2, <2>3, FrameKept
<1>15. CASE NextGeom
  BY <1>15, SameKept DEF NextGeom
<1>16. CASE Add
  <2>1. stack # <<>> /\ Sound(input.check, geom)
    BY <1>16 DEF Add, CInv, Kept
  <2>2. CASE Allows(Top.geom.type, geom.type)
    <3> DEFINE geoms == Append(Top.geom.geoms, geom)
               g == [Top.geom EXCEPT !.geoms = geoms]
    <3>1. OpenOK(input.check, g)
      BY <2>1, TopKept, MemberKept
    <3> HIDE DEF geoms
    <3>2. stack' = Grown(g) /\ phase' = "geoms" /\ input' = input /\ check' = check
      BY <1>16, <2>2 DEF Add, geoms
    <3> DEFINE f == [geom |-> g, left |-> Top.left - 1]
    <3>3. f.geom = g /\ stack' = [stack EXCEPT ![Len(stack)] = f]
      BY <3>2 DEF Grown
    <3> HIDE DEF g, f
    <3> QED BY <2>1, <3>1, <3>2, <3>3, FrameKept
  <2>3. CASE ~ Allows(Top.geom.type, geom.type)
    BY <1>16, <2>3, SameKept DEF Add
  <2> QED BY <2>2, <2>3
<1>17. CASE Complete
  <2>1. stack # <<>>
    BY <1>0, <1>17 DEF Complete, IInv, Progress
  <2>2. /\ stack' = SubSeq(stack, 1, Len(stack) - 1)
        /\ geom' = Top.geom /\ input' = input /\ check' = check /\ phase' = "returned"
    BY <1>17 DEF Complete, Return
  <2>3. PICK S : stack \in Seq(S)
    BY <1>0 DEF IInv, Inherited
  <2>4. \A k \in DOMAIN stack' : k \in DOMAIN stack /\ stack'[k] = stack[k]
    BY <2>1, <2>2, <2>3, Popped
  <2>5. Sound(input.check, geom')
    BY <2>1, <2>2, TopKept DEF OpenOK
  <2> QED BY <2>2, <2>4, <2>5 DEF CInv, Kept
<1>18. CASE Finish
  <2>1. Sound(input.check, geom)
    BY <1>18 DEF Finish, CInv, Kept
  <2> QED BY <1>18, <2>1, SameKept DEF Finish, Stop
<1> QED
  BY <1>00, <1>1, <1>2, <1>3, <1>4, <1>5, <1>6, <1>7, <1>8, <1>9, <1>10, <1>11, <1>12,
     <1>13, <1>14, <1>15, <1>16, <1>17, <1>18 DEF Next

\* For every stream and whatever checks the caller asks for: a geometry that the reader
\* finishes meets them at every depth, also where the flags were changed on the way
\* (a polyhedral surface sets one) and where the parts are empty.
THEOREM ChecksCorrect == Spec => []ChecksKept
<1>1. Init => Kept
  <2> SUFFICES ASSUME Init PROVE Kept
    OBVIOUS
  <2>1. DOMAIN stack = {} /\ phase = "mark" /\ check = input.check
    BY DEF Init
  <2> QED BY <2>1 DEF Kept
<1>2. IInv /\ Kept /\ [Next]_vars => Kept'
  <2> SUFFICES ASSUME IInv, Kept, [Next]_vars PROVE Kept'
    OBVIOUS
  <2>1. CASE Next
    BY <2>1, KeptStep DEF CInv
  <2>2. CASE UNCHANGED vars
    BY <2>2 DEF vars, header, Kept
  <2> QED BY <2>1, <2>2
<1>3. IInv /\ Kept => ChecksKept
  <2> SUFFICES ASSUME IInv, Kept, phase = "done", NEW n \in 0 .. at, NEW h \in Inside(geom)[n]
               PROVE  Meets(input.check, h)
    BY DEF ChecksKept
  <2>1. n \in Nat
    BY DEF IInv, Within, TypeOK
  <2> QED BY <2>1, SoundInside DEF Kept
<1> QED BY <1>1, <1>2, <1>3, SpecInv, PTL DEF Spec

=============================================================================
