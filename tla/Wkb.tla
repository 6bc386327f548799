-------------------------------- MODULE Wkb --------------------------------
(***************************************************************************)
(* Well-known binary there and back: what the writer makes of a geometry   *)
(* is read again, as it is, the way other writers may put it, cut off or   *)
(* spoilt.                                                                 *)
(***************************************************************************)
EXTENDS WkbIn, WkbOut

\* Another writer's stream: each geometry in it has a byte order of its own.
Turned(fields) ==
    LET marks(k) == Cardinality({j \in 1 .. k : fields[j].kind = "mark"})
        turn(f) == [f EXCEPT !.order = 1 - @, !.value = IF f.kind = "mark" THEN 1 - @ ELSE @]
    IN  [k \in DOMAIN fields |-> IF marks(k) % 2 = 0 THEN turn(fields[k]) ELSE fields[k]]

\* The numbers an older writer has for two of the types.
Aged(fields) ==
    LET aged(n) == CASE n = 10 -> 13 [] n = 11 -> 14 [] OTHER -> n
    IN  [k \in DOMAIN fields |->
            IF fields[k].kind = "type" THEN [fields[k] EXCEPT !.value = aged(@)] ELSE fields[k]]

\* The last field of a kind is changed to something that does not exist.
Spoilt(fields, kind) ==
    LET last == SelectLastInSeq(fields, LAMBDA f : f.kind = kind)
    IN  [fields EXCEPT ![last].value = 99]

Passed(fields, way) ==
    CASE way = "turned" -> Turned(fields)
      [] way = "aged" -> Aged(fields)
      [] way \in {"mark", "type"} -> Spoilt(fields, way)
      [] OTHER -> fields

\* The last array of points says that it has n of them.
Claimed(fields, n) ==
    LET last == SelectLastInSeq(fields, LAMBDA f : f.kind = "count")
    IN  IF last = 0 THEN fields ELSE [fields EXCEPT ![last].value = n]

\* A stream of which the last count is not that of what follows.
Overclaiming(g, ord, n) ==
    LET v == [form |-> "extended", order |-> ord, noSrid |-> FALSE]
        fields == Claimed(Written(g, v), n)
    IN  [fields |-> fields, size |-> BytesOf(fields), check |-> {}, of |-> g, variant |-> v,
         intact |-> FALSE]

\* missing: how many bytes at the end are not there.
Input(g, form, ord, way, missing, checks) ==
    LET v == [form |-> form, order |-> ord, noSrid |-> FALSE]
        fields == Written(g, v)
        bytes == BytesOf(fields)
    IN  [fields |-> Passed(fields, way),
         size |-> IF missing < bytes THEN bytes - missing ELSE 1,
         check |-> checks, of |-> g, variant |-> v,
         intact |-> missing = 0 /\ way \notin {"mark", "type"}]

-----------------------------------------------------------------------------
(***************************************************************************)
(* What a form can express of a geometry.                                  *)
(***************************************************************************)
Cut(ring, v) == [k \in DOMAIN ring |-> IF v.form = "sfsql" THEN SubSeq(ring[k], 1, 2) ELSE ring[k]]

IsNaNPoint(g) == g.type = "Point" /\ g.rings[1] # <<>> /\ g.rings[1][1][1] = NaN /\ g.rings[1][1][2] = NaN

RECURSIVE Expressed(_, _, _)
Expressed(g, v, s) ==
    LET z == g.z /\ v.form # "sfsql"
        m == g.m /\ v.form # "sfsql"
    IN  IF AsEmpty(g, v) \/ IsNaNPoint(g) THEN Empty(g.type, s, z, m)
        ELSE Geometry(g.type, s, z, m, [k \in DOMAIN g.rings |-> Cut(g.rings[k], v)],
                      [k \in DOMAIN g.geoms |-> Expressed(g.geoms[k], v, s)])

RECURSIVE HasEmptyPoint(_)
HasEmptyPoint(g) ==
    \/ g.type = "Point" /\ IsEmpty(g) /\ (g.z \/ g.m)
    \/ \E k \in DOMAIN g.geoms : HasEmptyPoint(g.geoms[k])

ReadBack ==
    IF input.intact /\ input.check = {}
    THEN /\ phase \notin {"failed", "garbled"}
         /\ phase = "done" =>
               /\ geom = Expressed(input.of, input.variant,
                                   IF input.variant.form = "extended"
                                   THEN clamp_srid(input.of.srid) ELSE 0)
               /\ pos = input.size /\ at = Len(input.fields)
    ELSE TRUE

\* A whole stream comes back as the geometry it was made of, as far as its form
\* can express it, with no byte left over.
RoundTrip == (input.variant.form = "sfsql" => ~HasEmptyPoint(input.of)) => ReadBack

\* The size computed for the buffer is what is then written to it.
SizeAgrees == at = 0 => Size(input.of, input.variant) = BytesOf(Written(input.of, input.variant))

\* A stream that was cut off, or in which some geometry has a mark or a type
\* there is none of, is never taken for a good one, however much could be read.
DamageFails == ~input.intact => phase # "done"

=============================================================================
