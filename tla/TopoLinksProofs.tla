--------------------------- MODULE TopoLinksProofs ---------------------------
(***************************************************************************)
(* The links of TopoLinks hold for every number of edges and nodes.        *)
(***************************************************************************)
EXTENDS TopoLinks, FiniteSetTheorems, TLAPS

\* LinksTypeOK and LinksOK are inductive only together: that no successor dangles
\* after LinksRemEdge or a heal needs OnePredecessor, and the reverse.
LinksInv == LinksTypeOK /\ LinksOK

-----------------------------------------------------------------------------
(* Facts about darts *)

LEMMA DartFacts ==
  ASSUME LinksTypeOK
  PROVE  /\ edges \subseteq Darts(edges)
         /\ \A d \in Darts(edges) :
              /\ d \in Int /\ d # 0 /\ d # -d
              /\ -d \in Darts(edges) /\ -(-d) = d
              /\ -lastEdge <= d /\ d <= lastEdge
         /\ \A e \in edges : e \in Nat /\ e > 0
         /\ \A d \in Darts(edges) : d \in edges \/ -d \in edges
         /\ \A d \in Darts(edges) : d > 0 => d \in edges
  BY DEF LinksTypeOK, Darts

LEMMA NewDarts ==
  ASSUME LinksTypeOK, NEW k \in Nat, k > lastEdge
  PROVE  /\ k \notin Darts(edges) /\ -k \notin Darts(edges)
         /\ Darts(edges \cup {k}) = Darts(edges) \cup {k, -k}
         /\ k # -k /\ -(-k) = k
         /\ edges \cup {k} \subseteq 1..k
  <1>1. \A d \in Darts(edges) : d < k /\ -k < d
    BY DartFacts DEF LinksTypeOK
  <1>2. Darts(edges \cup {k}) = Darts(edges) \cup {k, -k}
    BY DEF Darts
  <1> QED  BY <1>1, <1>2 DEF LinksTypeOK

LEMMA KeptDarts ==
  ASSUME LinksTypeOK, NEW e \in edges
  PROVE  Darts(edges \ {e}) = Darts(edges) \ {e, -e}
  <1>1. \A x \in edges : x \in Nat /\ x > 0
    BY DartFacts
  <1> QED  BY <1>1 DEF Darts

LEMMA LinkFacts ==
  ASSUME LinksInv
  PROVE  /\ \A d \in Darts(edges) : next[d] \in Darts(edges) /\ org[d] \in nodes
         /\ \A d \in Darts(edges) : org[next[d]] = org[-d]
         /\ \A c, d \in Darts(edges) : next[c] = next[d] => c = d
  BY DartFacts DEF LinksInv, LinksTypeOK, LinksOK, EndsMeet, OnePredecessor

-----------------------------------------------------------------------------
(* The initial state *)

LEMMA InitLinks == LinksInit => LinksInv
  BY BoundsAssumption DEF LinksInit, LinksInv, LinksTypeOK, LinksOK, EndsMeet, OnePredecessor, Darts

-----------------------------------------------------------------------------
(* One lemma for each operation *)

LEMMA AddIsoNodeLinks ==
  ASSUME LinksInv, LinksAddIsoNode
  PROVE  LinksInv'
  BY BoundsAssumption
  DEF LinksAddIsoNode, LinksInv, LinksTypeOK, LinksOK, EndsMeet, OnePredecessor, Darts

LEMMA RemoveIsoNodeLinks ==
  ASSUME LinksInv, NEW n \in nodes, LinksRemoveIsoNode(n)
  PROVE  LinksInv'
  <1>1. org' \in [Darts(edges') -> nodes']
    BY DEF LinksRemoveIsoNode, Lonely, EndsAt, LinksInv, LinksTypeOK
  <1> QED
    BY <1>1 DEF LinksRemoveIsoNode, LinksInv, LinksTypeOK, LinksOK, EndsMeet, OnePredecessor

(* Inserting an edge keeps the links when its two ends are spliced into    *)
(* the successors: what arrived at a corner now enters the edge, and the   *)
(* edge leaves where that went on.                                         *)
LEMMA InsertEdgeLinks ==
  ASSUME LinksInv,
         NEW k, k = lastEdge + 1, k <= MaxEdge,
         NEW a \in nodes, NEW b \in nodes,
         NEW nextLeft \in Darts(edges) \cup {k, -k},
         NEW nextRight \in Darts(edges) \cup {k, -k},
         NEW old \in [Darts(edges) -> Darts(edges) \cup {k, -k}],
         InsertEdge(k, a, b, nextLeft, nextRight, old),
         lastEdge' = k, UNCHANGED <<nodes, lastNode>>,
         org'[nextLeft] = b, org'[nextRight] = a,
         \A d \in Darts(edges) : org'[old[d]] = org[-d],
         nextLeft # nextRight,
         \A d \in Darts(edges) : old[d] # nextLeft /\ old[d] # nextRight,
         \A c, d \in Darts(edges) : old[c] = old[d] => c = d
  PROVE  LinksInv'
  <1> USE DEF LinksInv
  <1>1. k \in Nat /\ k > lastEdge
    BY DEF LinksTypeOK
  <1>2. /\ k \notin Darts(edges) /\ -k \notin Darts(edges)
        /\ Darts(edges \cup {k}) = Darts(edges) \cup {k, -k}
        /\ k # -k /\ -(-k) = k
        /\ edges \cup {k} \subseteq 1..k
    BY <1>1, NewDarts
  <1> DEFINE D == Darts(edges) \cup {k, -k}
  <1>3. /\ edges' = edges \cup {k}
        /\ Darts(edges') = D
        /\ org' = [d \in D |-> IF d = k THEN a ELSE IF d = -k THEN b ELSE org[d]]
        /\ next' = [d \in D |-> IF d = k THEN nextLeft
                                ELSE IF d = -k THEN nextRight ELSE old[d]]
    BY <1>2 DEF InsertEdge
  <1>4. LinksTypeOK'
    <2>1. org' \in [D -> nodes] /\ next' \in [D -> D]
      BY <1>2, <1>3 DEF LinksTypeOK
    <2>2. nodes' = nodes /\ lastNode' = lastNode /\ lastEdge' = k /\ k \in 0..MaxEdge
      BY <1>1, BoundsAssumption
    <2> QED  BY <1>2, <1>3, <2>1, <2>2 DEF LinksTypeOK
  <1>5. \A d \in Darts(edges) : -d \in Darts(edges) /\ -(-d) = d
    BY DartFacts
  <1>6. EndsMeet'
    <2> SUFFICES ASSUME NEW d \in D
                 PROVE  org'[next'[d]] = org'[-d]
      BY <1>3 DEF EndsMeet
    <2>1. CASE d = k
      BY <2>1, <1>2, <1>3
    <2>2. CASE d = -k
      BY <2>2, <1>2, <1>3
    <2>3. CASE d \in Darts(edges)
      <3>1. next'[d] = old[d] /\ org'[-d] = org[-d]
        BY <2>3, <1>2, <1>3, <1>5
      <3> QED  BY <3>1, <2>3
    <2> QED  BY <2>1, <2>2, <2>3
  <1>7. OnePredecessor'
    BY <1>2, <1>3 DEF OnePredecessor
  <1> QED  BY <1>4, <1>6, <1>7 DEF LinksOK

LEMMA AddIsoEdgeLinks ==
  ASSUME LinksInv, NEW a \in nodes, NEW b \in nodes, LinksAddIsoEdge(a, b)
  PROVE  LinksInv'
  <1> DEFINE k == lastEdge + 1
  <1>1. /\ k \in Nat /\ k <= MaxEdge /\ k > lastEdge
        /\ InsertEdge(k, a, b, -k, k, next)
        /\ lastEdge' = k /\ UNCHANGED <<nodes, lastNode>>
    BY BoundsAssumption DEF LinksAddIsoEdge, LinksInv, LinksTypeOK
  <1>2. k \notin Darts(edges) /\ -k \notin Darts(edges) /\ k # -k
    BY <1>1, NewDarts DEF LinksInv
  <1>3. Darts(edges \cup {k}) = Darts(edges) \cup {k, -k}
    BY <1>1, NewDarts DEF LinksInv
  <1>4. \A d \in Darts(edges) : /\ next[d] \in Darts(edges)
                                /\ org[next[d]] = org[-d]
    BY LinkFacts
  <1>5. org'[-k] = b /\ org'[k] = a /\ \A d \in Darts(edges) : org'[d] = org[d]
    BY <1>1, <1>2, <1>3 DEF InsertEdge
  <1>6. \A d \in Darts(edges) : org'[next[d]] = org[-d]
    BY <1>4, <1>5
  <1>7. next \in [Darts(edges) -> Darts(edges) \cup {k, -k}]
    BY DEF LinksInv, LinksTypeOK
  <1>8. \A c, d \in Darts(edges) : next[c] = next[d] => c = d
    BY LinkFacts
  <1>9. \A d \in Darts(edges) : next[d] # k /\ next[d] # -k
    BY <1>2, <1>4
  <1> HIDE DEF k
  <1> QED
    BY <1>1, <1>2, <1>5, <1>6, <1>7, <1>8, <1>9, InsertEdgeLinks DEF k

\* Where the neighbours of the two ends of a new edge can lie.
LEMMA PairCases ==
  ASSUME LinksInv, NEW a \in nodes, NEW b \in nodes,
         NEW p \in AdjacentPairs(a, b), NEW s, NEW t, s = p[1], t = p[2]
  PROVE  \/ s = NoEnd /\ t = NoEnd /\ Lonely(a) /\ Lonely(b)
         \/ /\ a # b /\ s = NoEnd /\ Lonely(a)
            /\ \E q \in Corners(b) : t = InCorner(q)
         \/ /\ a # b /\ t = NoEnd /\ Lonely(b)
            /\ \E c \in Corners(a) : s = InCorner(c)
         \/ \E c \in Corners(a), q \in Corners(b) :
              c # q /\ s = InCorner(c) /\ t = InCorner(q)
         \/ a = b /\ \E c \in Corners(a) : s = CcwOnly(c) /\ t = CwOnly(c)
         \/ a = b /\ \E c \in Corners(a) : s = CwOnly(c) /\ t = CcwOnly(c)
  <1>1. \A n, m : n # m => Corners(n) \cap Corners(m) = {}
    BY DEF Corners
  <1>2. CASE a # b \/ Lonely(a)
    <2>1. s \in Adjacent(a) /\ t \in Adjacent(b)
      BY <1>2 DEF AdjacentPairs
    <2>2. CASE a # b
      BY <2>1, <2>2, <1>1 DEF Adjacent
    <2>3. CASE a = b /\ Lonely(a)
      BY <2>1, <2>3 DEF Adjacent
    <2> QED  BY <2>2, <2>3, <1>2
  <1>3. CASE a = b /\ ~Lonely(a)
    <2> DEFINE A == {InCorner(c) : c \in Corners(a)}
    <2>1. Adjacent(a) = A
      BY <1>3 DEF Adjacent
    <2>2. \/ s \in A /\ t \in A /\ s # t
          \/ \E c \in Corners(a) : s = CcwOnly(c) /\ t = CwOnly(c)
          \/ \E c \in Corners(a) : s = CwOnly(c) /\ t = CcwOnly(c)
      BY <1>3, <2>1 DEF AdjacentPairs
    <2> QED  BY <2>2, <1>3
  <1> QED  BY <1>2, <1>3

LEMMA AddEdgeLinks ==
  ASSUME LinksInv, NEW a \in nodes, NEW b \in nodes,
         NEW p \in AdjacentPairs(a, b), LinksAddEdge(a, b, p[1], p[2])
  PROVE  LinksInv'
  <1> DEFINE s == p[1]
             t == p[2]
             k == lastEdge + 1
             toItself == IF a = b THEN k ELSE -k
             nextRight == IF s.cw # 0 THEN s.cw ELSE -toItself
             nextLeft == IF t.cw # 0 THEN t.cw ELSE toItself
             relinked == [d \in Darts(edges) |->
                            IF d = -t.ccw THEN -k ELSE IF d = -s.ccw THEN k
                            ELSE next[d]]
  <1>1. /\ k \in Nat /\ k <= MaxEdge /\ k > lastEdge
        /\ lastEdge' = k /\ UNCHANGED <<nodes, lastNode>>
    BY BoundsAssumption DEF LinksAddEdge, LinksInv, LinksTypeOK
  <1>2. InsertEdge(k, a, b, nextLeft, nextRight, relinked)
    BY DEF LinksAddEdge
  <1>3. /\ k \notin Darts(edges) /\ -k \notin Darts(edges)
        /\ k # -k /\ -(-k) = k
        /\ Darts(edges \cup {k}) = Darts(edges) \cup {k, -k}
    BY <1>1, NewDarts DEF LinksInv
  <1>4. /\ org'[k] = a /\ org'[-k] = b
        /\ \A d \in Darts(edges) : org'[d] = org[d]
    BY <1>2, <1>3 DEF InsertEdge
  <1>5. \A d \in Darts(edges) :
          /\ next[d] \in Darts(edges) /\ org[next[d]] = org[-d]
          /\ next[d] # 0 /\ -d # 0 /\ -(-d) = d /\ -0 \notin Darts(edges)
    BY LinkFacts, DartFacts DEF LinksInv
  <1>6. \A c, d \in Darts(edges) : next[c] = next[d] => c = d
    BY LinkFacts
  <1>7. \A n : \A c \in Corners(n) : c \in Darts(edges) /\ org[-c] = n
    BY DEF Corners
  <1> DEFINE Spliced ==
        /\ nextLeft \in Darts(edges) \cup {k, -k}
        /\ nextRight \in Darts(edges) \cup {k, -k}
        /\ org'[nextLeft] = b /\ org'[nextRight] = a
        /\ \A d \in Darts(edges) : org'[relinked[d]] = org[-d]
        /\ nextLeft # nextRight
        /\ \A d \in Darts(edges) : relinked[d] # nextLeft /\ relinked[d] # nextRight
        /\ \A c, d \in Darts(edges) : relinked[c] = relinked[d] => c = d
  <1>8. Spliced
    <2>1. CASE s = NoEnd /\ t = NoEnd
      <3>1. /\ nextLeft = toItself /\ nextRight = -toItself
            /\ \A d \in Darts(edges) : relinked[d] = next[d]
        BY <2>1, <1>5 DEF NoEnd
      <3> QED  BY <3>1, <1>3, <1>4, <1>5, <1>6
    <2>2. CASE a # b /\ s = NoEnd /\ \E q \in Corners(b) : t = InCorner(q)
      <3> PICK q \in Corners(b) : t = InCorner(q)
        BY <2>2
      <3>1. q \in Darts(edges) /\ org[-q] = b /\ -(-q) = q /\ -q # 0
        BY <1>7, <1>5
      <3>2. /\ nextLeft = next[q] /\ nextRight = k
            /\ \A d \in Darts(edges) :
                 relinked[d] = IF d = q THEN -k ELSE next[d]
        BY <2>2, <1>3, <1>5, <3>1 DEF NoEnd, InCorner, CwOnly, CcwOnly
      <3> HIDE DEF k, nextLeft, nextRight, relinked
      <3> QED  BY <2>2, <3>1, <3>2, <1>3, <1>4, <1>5, <1>6
    <2>3. CASE a # b /\ t = NoEnd /\ \E c \in Corners(a) : s = InCorner(c)
      <3> PICK c \in Corners(a) : s = InCorner(c)
        BY <2>3
      <3>1. c \in Darts(edges) /\ org[-c] = a /\ -(-c) = c /\ -c # 0
        BY <1>7, <1>5
      <3>2. /\ nextLeft = -k /\ nextRight = next[c]
            /\ \A d \in Darts(edges) :
                 relinked[d] = IF d = c THEN k ELSE next[d]
        BY <2>3, <1>3, <1>5, <3>1 DEF NoEnd, InCorner, CwOnly, CcwOnly
      <3> HIDE DEF k, nextLeft, nextRight, relinked
      <3> QED  BY <2>3, <3>1, <3>2, <1>3, <1>4, <1>5, <1>6
    <2>4. CASE \E c \in Corners(a), q \in Corners(b) :
                 c # q /\ s = InCorner(c) /\ t = InCorner(q)
      <3> PICK c \in Corners(a), q \in Corners(b) :
            c # q /\ s = InCorner(c) /\ t = InCorner(q)
        BY <2>4
      <3>1. /\ c \in Darts(edges) /\ org[-c] = a /\ -(-c) = c /\ -c # 0
            /\ q \in Darts(edges) /\ org[-q] = b /\ -(-q) = q /\ -q # 0
        BY <1>7, <1>5
      <3>2. /\ nextLeft = next[q] /\ nextRight = next[c]
            /\ \A d \in Darts(edges) :
                 relinked[d] = IF d = q THEN -k ELSE IF d = c THEN k ELSE next[d]
        BY <2>4, <1>3, <1>5, <3>1 DEF NoEnd, InCorner, CwOnly, CcwOnly
      <3> HIDE DEF k, nextLeft, nextRight, relinked
      <3> QED  BY <2>4, <3>1, <3>2, <1>3, <1>4, <1>5, <1>6
    <2>5. CASE a = b /\ \E c \in Corners(a) : s = CcwOnly(c) /\ t = CwOnly(c)
      <3> PICK c \in Corners(a) : s = CcwOnly(c) /\ t = CwOnly(c)
        BY <2>5
      <3>1. c \in Darts(edges) /\ org[-c] = a /\ -(-c) = c /\ -c # 0
        BY <1>7, <1>5
      <3>2. /\ nextLeft = next[c] /\ nextRight = -k
            /\ \A d \in Darts(edges) :
                 relinked[d] = IF d = c THEN k ELSE next[d]
        BY <2>5, <1>3, <1>5, <3>1 DEF NoEnd, InCorner, CwOnly, CcwOnly
      <3> HIDE DEF k, nextLeft, nextRight, relinked
      <3> QED  BY <2>5, <3>1, <3>2, <1>3, <1>4, <1>5, <1>6
    <2>6. CASE a = b /\ \E c \in Corners(a) : s = CwOnly(c) /\ t = CcwOnly(c)
      <3> PICK c \in Corners(a) : s = CwOnly(c) /\ t = CcwOnly(c)
        BY <2>6
      <3>1. c \in Darts(edges) /\ org[-c] = a /\ -(-c) = c /\ -c # 0
        BY <1>7, <1>5
      <3>2. /\ nextLeft = k /\ nextRight = next[c]
            /\ \A d \in Darts(edges) :
                 relinked[d] = IF d = c THEN -k ELSE next[d]
        BY <2>6, <1>3, <1>5, <3>1 DEF NoEnd, InCorner, CwOnly, CcwOnly
      <3> HIDE DEF k, nextLeft, nextRight, relinked
      <3> QED  BY <2>6, <3>1, <3>2, <1>3, <1>4, <1>5, <1>6
    <2> QED  BY PairCases, <2>1, <2>2, <2>3, <2>4, <2>5, <2>6
  <1>9. relinked \in [Darts(edges) -> Darts(edges) \cup {k, -k}]
    BY <1>5
  <1> HIDE DEF k, nextLeft, nextRight, relinked
  <1> QED
    BY <1>1, <1>2, <1>8, <1>9, InsertEdgeLinks DEF k

(* Where the walk would enter e, Bypass leads to a dart of another edge,   *)
(* and to different darts from different ones.                             *)
LEMMA BypassFacts ==
  ASSUME LinksInv, NEW e \in edges
  PROVE  LET kept == Darts(edges) \ {e, -e}
         IN  /\ \A d \in kept : /\ Bypass(e, d) \in kept
                                /\ org[Bypass(e, d)] = org[-d]
             /\ \A c, d \in kept : Bypass(e, c) = Bypass(e, d) => c = d
  <1>1. \A d \in Darts(edges) : next[d] \in Darts(edges) /\ org[next[d]] = org[-d]
    BY LinkFacts
  <1>2. \A c, d \in Darts(edges) : next[c] = next[d] => c = d
    BY LinkFacts
  <1>3. /\ e \in Darts(edges) /\ -e \in Darts(edges) /\ e # -e /\ -(-e) = e
    BY DartFacts DEF LinksInv
  <1> QED  BY <1>1, <1>2, <1>3 DEF Bypass

\* The rows whose nodes the edge does not touch need no update: nothing there
\* leads to the edge.
LEMMA RemEdgeNext ==
  ASSUME LinksInv, NEW e \in edges, LinksRemEdge(e)
  PROVE  next' = [d \in Darts(edges) \ {e, -e} |-> Bypass(e, d)]
  <1> DEFINE D == Darts(edges) \ {e, -e}
  <1>1. Darts(edges \ {e}) = D
    BY KeptDarts DEF LinksInv
  <1>2. \A d \in Darts(edges) : org[next[d]] = org[-d]
    BY LinkFacts
  <1>3. next' = [d \in D |-> IF {org[d], org[-d]} \cap {org[e], org[-e]} = {}
                             THEN next[d] ELSE Bypass(e, d)]
    BY <1>1 DEF LinksRemEdge
  <1>4. ASSUME NEW d \in D, {org[d], org[-d]} \cap {org[e], org[-e]} = {}
        PROVE  Bypass(e, d) = next[d]
    <2>1. next[d] # e /\ next[d] # -e
      BY <1>2, <1>4, DartFacts DEF LinksInv
    <2> QED  BY <2>1 DEF Bypass
  <1> QED  BY <1>3, <1>4

LEMMA RemEdgeLinks ==
  ASSUME LinksInv, NEW e \in edges, LinksRemEdge(e)
  PROVE  LinksInv'
  <1> DEFINE D == Darts(edges) \ {e, -e}
  <1>1. Darts(edges') = D /\ edges' = edges \ {e}
    BY KeptDarts DEF LinksRemEdge, LinksInv
  <1>2. org' = [d \in D |-> org[d]]
    BY <1>1 DEF LinksRemEdge
  <1>3. \A d \in Darts(edges) : /\ next[d] \in Darts(edges)
                                /\ org[next[d]] = org[-d] /\ org[d] \in nodes
                                /\ -d \in Darts(edges) /\ -(-d) = d
    BY LinkFacts, DartFacts DEF LinksInv
  <1>4. next' = [d \in D |-> Bypass(e, d)]
    BY RemEdgeNext
  <1>5. /\ \A d \in D : Bypass(e, d) \in D /\ org[Bypass(e, d)] = org[-d]
        /\ \A c, d \in D : Bypass(e, c) = Bypass(e, d) => c = d
    BY BypassFacts
  <1>6. LinksTypeOK'
    <2>1. org' \in [D -> nodes] /\ next' \in [D -> D]
      BY <1>2, <1>3, <1>4, <1>5
    <2> QED  BY <1>1, <2>1 DEF LinksRemEdge, LinksInv, LinksTypeOK
  <1>7. \A d \in D : -d \in D
    BY <1>3, DartFacts DEF LinksInv
  <1>8. EndsMeet'
    BY <1>1, <1>2, <1>4, <1>5, <1>7 DEF EndsMeet
  <1>9. OnePredecessor'
    BY <1>1, <1>4, <1>5 DEF OnePredecessor
  <1> QED  BY <1>6, <1>8, <1>9 DEF LinksInv, LinksOK

LEMMA RemIsoEdgeLinks ==
  ASSUME LinksInv, NEW e \in edges, LinksRemIsoEdge(e)
  PROVE  LinksInv'
  <1> DEFINE D == Darts(edges) \ {e, -e}
  <1>1. Darts(edges') = D /\ edges' = edges \ {e}
    BY KeptDarts DEF LinksRemIsoEdge, LinksInv
  <1>2. org' = [d \in D |-> org[d]] /\ next' = [d \in D |-> next[d]]
    BY <1>1 DEF LinksRemIsoEdge
  <1>3. \A d \in Darts(edges) : /\ next[d] \in Darts(edges)
                                /\ org[next[d]] = org[-d] /\ org[d] \in nodes
                                /\ -d \in Darts(edges) /\ -(-d) = d
    BY LinkFacts, DartFacts DEF LinksInv
  <1>4. \A d \in D : -d \in D
    BY <1>3, DartFacts DEF LinksInv
  <1>5. \A d \in D : next[d] \in D
    <2> SUFFICES ASSUME NEW d \in D
                 PROVE  next[d] # e /\ next[d] # -e
      BY <1>3
    <2>1. -d \in D /\ org[next[d]] = org[-d]
      BY <1>3, <1>4
    <2>2. org[-d] # org[e] /\ org[-d] # org[-e]
      BY <2>1 DEF LinksRemIsoEdge, EndsAt
    <2> QED  BY <2>1, <2>2
  <1>6. LinksTypeOK'
    <2>1. org' \in [D -> nodes] /\ next' \in [D -> D]
      BY <1>2, <1>3, <1>5
    <2> QED  BY <1>1, <2>1 DEF LinksRemIsoEdge, LinksInv, LinksTypeOK
  <1>7. EndsMeet'
    BY <1>1, <1>2, <1>3, <1>4, <1>5 DEF EndsMeet
  <1>8. OnePredecessor'
    BY <1>1, <1>2, LinkFacts DEF OnePredecessor
  <1> QED  BY <1>6, <1>7, <1>8 DEF LinksInv, LinksOK

\* Edge e is split at the new node n, k is its second part, D the darts then.
EdgeSplit(e, k, n, D) ==
  /\ k \in Nat /\ k <= MaxEdge /\ k > lastEdge
  /\ n \in Nat /\ n <= MaxNode /\ n \notin nodes
  /\ lastEdge' = k /\ lastNode' = n /\ nodes' = nodes \cup {n}
  /\ edges' = edges \cup {k} /\ edges \cup {k} \subseteq 1..k
  /\ k \notin Darts(edges) /\ -k \notin Darts(edges)
  /\ k # -k /\ -(-k) = k
  /\ Darts(edges') = D
  /\ org' = [d \in D |-> IF d = k \/ d = -e THEN n
                        ELSE IF d = -k THEN org[-e] ELSE org[d]]
  /\ next' = [d \in D |-> IF d = k THEN IF next[e] = -e THEN -k ELSE next[e]
                         ELSE IF d = -k THEN -e
                         ELSE IF d = e THEN k
                         ELSE IF next[d] = -e THEN -k ELSE next[d]]

LEMMA ModEdgeSplitEffect ==
  ASSUME LinksInv, NEW e \in edges, LinksModEdgeSplit(e),
         NEW k, k = lastEdge + 1, NEW n, n = lastNode + 1,
         NEW D, D = Darts(edges) \cup {k, -k}
  PROVE  EdgeSplit(e, k, n, D)
  <1>1. /\ k \in Nat /\ k <= MaxEdge /\ k > lastEdge
        /\ n \in Nat /\ n <= MaxNode /\ n \notin nodes
        /\ lastEdge' = k /\ lastNode' = n /\ nodes' = nodes \cup {n}
        /\ edges' = edges \cup {k}
    BY BoundsAssumption DEF LinksModEdgeSplit, NewNode, LinksInv, LinksTypeOK
  <1>2. /\ k \notin Darts(edges) /\ -k \notin Darts(edges)
        /\ Darts(edges') = D
        /\ k # -k /\ -(-k) = k
        /\ edges \cup {k} \subseteq 1..k
    BY <1>1, NewDarts DEF LinksInv
  <1>3. /\ e \in Darts(edges) /\ -e \in Darts(edges) /\ e # -e /\ -(-e) = e
    BY DartFacts DEF LinksInv
  <1>4. \A d \in Darts(edges) : next[d] = -e => org[-d] = org[-e]
    BY <1>3, LinkFacts
  <1>5. org' = [d \in D |-> IF d = k \/ d = -e THEN n
                            ELSE IF d = -k THEN org[-e] ELSE org[d]]
    BY <1>1, <1>2, <1>3 DEF LinksModEdgeSplit
  <1>6. next' = [d \in D |-> IF d = k THEN IF next[e] = -e THEN -k ELSE next[e]
                             ELSE IF d = -k THEN -e
                             ELSE IF d = e THEN k
                             ELSE IF next[d] = -e THEN -k ELSE next[d]]
    BY <1>1, <1>2, <1>3, <1>4 DEF LinksModEdgeSplit
  <1> QED  BY <1>1, <1>2, <1>5, <1>6 DEF EdgeSplit

LEMMA ModEdgeSplitLinks ==
  ASSUME LinksInv, NEW e \in edges, LinksModEdgeSplit(e)
  PROVE  LinksInv'
  <1> PICK k, n, D : /\ k = lastEdge + 1 /\ n = lastNode + 1
                     /\ D = Darts(edges) \cup {k, -k}
    OBVIOUS
  <1>0. EdgeSplit(e, k, n, D)
    BY ModEdgeSplitEffect
  <1>1. /\ k \in Nat /\ k <= MaxEdge /\ k > lastEdge
        /\ n \in Nat /\ n <= MaxNode /\ n \notin nodes
        /\ lastEdge' = k /\ lastNode' = n /\ nodes' = nodes \cup {n}
        /\ edges' = edges \cup {k}
    BY <1>0 DEF EdgeSplit
  <1>2. /\ k \notin Darts(edges) /\ -k \notin Darts(edges)
        /\ Darts(edges') = D
        /\ k # -k /\ -(-k) = k
        /\ edges \cup {k} \subseteq 1..k
    BY <1>0 DEF EdgeSplit
  <1>3. /\ e \in Darts(edges) /\ -e \in Darts(edges) /\ e # -e /\ -(-e) = e
    BY DartFacts DEF LinksInv
  <1>4. \A d \in Darts(edges) : /\ next[d] \in Darts(edges)
                                /\ org[next[d]] = org[-d] /\ org[d] \in nodes
                                /\ -d \in Darts(edges) /\ -(-d) = d
    BY LinkFacts, DartFacts DEF LinksInv
  <1>5. org' = [d \in D |-> IF d = k \/ d = -e THEN n
                            ELSE IF d = -k THEN org[-e] ELSE org[d]]
    BY <1>0 DEF EdgeSplit
  <1>6. next' = [d \in D |-> IF d = k THEN IF next[e] = -e THEN -k ELSE next[e]
                             ELSE IF d = -k THEN -e
                             ELSE IF d = e THEN k
                             ELSE IF next[d] = -e THEN -k ELSE next[d]]
    BY <1>0 DEF EdgeSplit
  <1>7. LinksTypeOK'
    <2>1. org' \in [D -> nodes'] /\ next' \in [D -> D]
      BY <1>1, <1>3, <1>4, <1>5, <1>6
    <2>2. nodes' \subseteq 1..lastNode' /\ edges' \subseteq 1..lastEdge'
      BY <1>1, <1>2 DEF LinksInv, LinksTypeOK
    <2>3. lastNode' \in 0..MaxNode /\ lastEdge' \in 0..MaxEdge
      BY <1>1, BoundsAssumption
    <2> QED  BY <1>2, <2>1, <2>2, <2>3 DEF LinksTypeOK
  <1>8. EndsMeet'
    <2> SUFFICES ASSUME NEW d \in D
                 PROVE  org'[next'[d]] = org'[-d]
      BY <1>2 DEF EndsMeet
    <2>1. CASE d = k
      BY <2>1, <1>2, <1>3, <1>4, <1>5, <1>6
    <2>2. CASE d = -k
      BY <2>2, <1>2, <1>3, <1>4, <1>5, <1>6
    <2>3. CASE d \in Darts(edges) /\ d = e
      BY <2>3, <1>2, <1>3, <1>4, <1>5, <1>6
    <2>4. CASE d \in Darts(edges) /\ d # e
      <3>1. -d \in Darts(edges) /\ -d # -e /\ org'[-d] = org[-d]
        BY <2>4, <1>2, <1>3, <1>4, <1>5
      <3> QED  BY <2>4, <3>1, <1>2, <1>3, <1>4, <1>5, <1>6
    <2> QED  BY <2>1, <2>2, <2>3, <2>4
  <1>9. OnePredecessor'
    <2>1. \A c, d \in Darts(edges) : next[c] = next[d] => c = d
      BY LinkFacts
    <2> QED  BY <2>1, <1>2, <1>3, <1>4, <1>6 DEF OnePredecessor
  <1> QED  BY <1>7, <1>8, <1>9 DEF LinksInv, LinksOK

\* Edge e is replaced by m, up to the new node n, and k; D are the darts then.
EdgeReplaced(e, m, k, n, D) ==
  /\ m \in Nat /\ k \in Nat /\ k <= MaxEdge /\ m > lastEdge /\ k > lastEdge
  /\ n \in Nat /\ n <= MaxNode /\ n \notin nodes
  /\ lastEdge' = k /\ lastNode' = n /\ nodes' = nodes \cup {n}
  /\ edges' = (edges \ {e}) \cup {m, k}
  /\ {m, -m, k, -k} \cap Darts(edges) = {}
  /\ m # -m /\ k # -k /\ m # k /\ m # -k /\ -(-m) = m /\ -(-k) = k
  /\ Darts(edges') = D
  /\ org' = [d \in D |-> IF d = m THEN org[e]
                        ELSE IF d = -m \/ d = k THEN n
                        ELSE IF d = -k THEN org[-e] ELSE org[d]]
  /\ next' = [d \in D |-> next'[d]]
  /\ \A d \in D : next'[d] = IF d = m THEN k
                            ELSE IF d = -m THEN SplitRef(e, m, k, next[-e])
                            ELSE IF d = k THEN SplitRef(e, m, k, next[e])
                            ELSE IF d = -k THEN -m
                            ELSE SplitRef(e, m, k, next[d])

\* When no right side refers to e, the four updates rename every reference.
LEMMA NewEdgesSplitEffect ==
  ASSUME LinksInv, NEW e \in edges, NoRightReference(e), LinksNewEdgesSplit(e),
         NEW m, m = lastEdge + 1, NEW k, k = lastEdge + 2, NEW n, n = lastNode + 1,
         NEW D, D = (Darts(edges) \ {e, -e}) \cup {m, -m, k, -k}
  PROVE  EdgeReplaced(e, m, k, n, D)
  <1>1. /\ m \in Nat /\ k \in Nat /\ k <= MaxEdge /\ m > lastEdge /\ k > lastEdge
        /\ n \in Nat /\ n <= MaxNode /\ n \notin nodes
        /\ lastEdge' = k /\ lastNode' = n /\ nodes' = nodes \cup {n}
        /\ edges' = (edges \ {e}) \cup {m, k}
    BY BoundsAssumption DEF LinksNewEdgesSplit, NewNode, LinksInv, LinksTypeOK
  <1>2. /\ {m, -m, k, -k} \cap Darts(edges) = {}
        /\ m # -m /\ k # -k /\ m # k /\ m # -k /\ -(-m) = m /\ -(-k) = k
    <2>1. lastEdge \in Nat
      BY DEF LinksInv, LinksTypeOK
    <2>2. m \notin Darts(edges) /\ -m \notin Darts(edges)
      BY <1>1, NewDarts DEF LinksInv
    <2>3. k \notin Darts(edges) /\ -k \notin Darts(edges)
      BY <1>1, NewDarts DEF LinksInv
    <2> QED  BY <2>1, <2>2, <2>3
  <1>3. Darts(edges') = D
    <2>1. Darts((edges \ {e}) \cup {m, k}) = Darts(edges \ {e}) \cup {m, -m, k, -k}
      BY DEF Darts
    <2> QED  BY <2>1, <1>1, KeptDarts DEF LinksInv
  <1>4. /\ e \in Darts(edges) /\ -e \in Darts(edges) /\ e # -e /\ -(-e) = e
        /\ e > 0 /\ ~(-e > 0) /\ -e < 0
    BY DartFacts DEF LinksInv
  <1>5. \A d \in Darts(edges) : /\ next[d] \in Darts(edges)
                                /\ org[next[d]] = org[-d] /\ org[d] \in nodes
                                /\ -d \in Darts(edges) /\ -(-d) = d
    BY LinkFacts, DartFacts DEF LinksInv
  <1>6. org' = [d \in D |-> IF d = m THEN org[e]
                            ELSE IF d = -m \/ d = k THEN n
                            ELSE IF d = -k THEN org[-e] ELSE org[d]]
    BY <1>1, <1>2, <1>3 DEF LinksNewEdgesSplit
  <1> DEFINE R(d) == SplitRef(e, m, k, d)
  <1>7. next' = [d \in D |-> IF d = m THEN k
                             ELSE IF d = -m THEN R(next[-e])
                             ELSE IF d = k THEN R(next[e])
                             ELSE IF d = -k THEN -m
                             ELSE R(next[d])]
    <2>1. ASSUME NEW d \in Darts(edges) \ {e, -e}
          PROVE  SplitRelinked(e, m, k, d) = R(next[d])
      <3>1. CASE d < 0
        <4>1. next[d] # e /\ next[d] # -e
          <5>1. -d \in edges \ {e}
            BY <3>1, DartFacts DEF LinksInv
          <5> QED  BY <5>1, <1>5 DEF NoRightReference
        <4> QED  BY <4>1 DEF SplitRelinked, SplitRef
      <3>2. CASE d > 0
        <4>1. d \in Int
          BY DartFacts DEF LinksInv
        <4> QED  BY <3>2, <4>1, <1>4, <1>5 DEF SplitRelinked, SplitRef
      <3> QED  BY <3>1, <3>2, DartFacts DEF LinksInv
    <2>2. next' = [d \in D |-> 
                     CASE d = m -> k
                       [] d = -m -> R(next[-e])
                       [] d = k -> R(next[e])
                       [] d = -k -> -m
                       [] OTHER -> SplitRelinked(e, m, k, d)]
      <3>1. Darts((edges \ {e}) \cup {m, k}) = D
        BY <1>1, <1>3
      <3> QED  BY <3>1 DEF LinksNewEdgesSplit
    <2> HIDE DEF R
    <2> QED  BY <2>1, <2>2, <1>2
  <1> QED  BY <1>1, <1>2, <1>3, <1>6, <1>7 DEF R, EdgeReplaced

LEMMA NewEdgesSplitLinks ==
  ASSUME LinksInv, NEW e \in edges, NoRightReference(e), LinksNewEdgesSplit(e)
  PROVE  LinksInv'
  <1> DEFINE O == Darts(edges) \ {e, -e}
  <1> PICK m, k, n, D : /\ m = lastEdge + 1 /\ k = lastEdge + 2
                        /\ n = lastNode + 1
                        /\ D = O \cup {m, -m, k, -k}
    OBVIOUS
  <1>0. EdgeReplaced(e, m, k, n, D)
    BY NewEdgesSplitEffect
  <1>1. /\ m \in Nat /\ k \in Nat /\ k <= MaxEdge /\ m > lastEdge /\ k > lastEdge
        /\ n \in Nat /\ n <= MaxNode /\ n \notin nodes
        /\ lastEdge' = k /\ lastNode' = n /\ nodes' = nodes \cup {n}
        /\ edges' = (edges \ {e}) \cup {m, k}
    BY <1>0 DEF EdgeReplaced
  <1>2. /\ {m, -m, k, -k} \cap Darts(edges) = {}
        /\ m # -m /\ k # -k /\ m # k /\ m # -k /\ -(-m) = m /\ -(-k) = k
    BY <1>0 DEF EdgeReplaced
  <1>3. Darts(edges') = D
    BY <1>0 DEF EdgeReplaced
  <1>4. /\ e \in Darts(edges) /\ -e \in Darts(edges) /\ e # -e /\ -(-e) = e
        /\ e > 0 /\ ~(-e > 0) /\ -e < 0
    BY DartFacts DEF LinksInv
  <1>5. \A d \in Darts(edges) : /\ next[d] \in Darts(edges)
                                /\ org[next[d]] = org[-d] /\ org[d] \in nodes
                                /\ -d \in Darts(edges) /\ -(-d) = d
    BY LinkFacts, DartFacts DEF LinksInv
  <1>6. org' = [d \in D |-> IF d = m THEN org[e]
                            ELSE IF d = -m \/ d = k THEN n
                            ELSE IF d = -k THEN org[-e] ELSE org[d]]
    BY <1>0 DEF EdgeReplaced
  <1>7. /\ next' = [d \in D |-> next'[d]]
        /\ \A d \in D : next'[d] = IF d = m THEN k
                                  ELSE IF d = -m THEN SplitRef(e, m, k, next[-e])
                                  ELSE IF d = k THEN SplitRef(e, m, k, next[e])
                                  ELSE IF d = -k THEN -m
                                  ELSE SplitRef(e, m, k, next[d])
    BY <1>0 DEF EdgeReplaced
  <1>8. LinksTypeOK'
    <2>1. org' \in [D -> nodes'] /\ next' \in [D -> D]
      BY <1>1, <1>4, <1>5, <1>6, <1>7 DEF SplitRef
    <2>2. nodes' \subseteq 1..lastNode' /\ edges' \subseteq 1..lastEdge'
      BY <1>1 DEF LinksInv, LinksTypeOK
    <2>3. lastNode' \in 0..MaxNode /\ lastEdge' \in 0..MaxEdge
      BY <1>1, BoundsAssumption
    <2> QED  BY <1>3, <2>1, <2>2, <2>3 DEF LinksTypeOK
  <1>9. EndsMeet'
    <2> SUFFICES ASSUME NEW d \in D
                 PROVE  org'[next'[d]] = org'[-d]
      BY <1>3 DEF EndsMeet
    <2>1. CASE d \in {m, -k}
      BY <2>1, <1>2, <1>6, <1>7
    <2>2. \A c \in Darts(edges) : SplitRef(e, m, k, next[c]) \in D /\ org'[SplitRef(e, m, k, next[c])] = org[-c]
      BY <1>2, <1>4, <1>5, <1>6 DEF SplitRef
    <2>3. CASE d = -m
      BY <2>2, <2>3, <1>2, <1>4, <1>6, <1>7
    <2>4. CASE d = k
      BY <2>2, <2>4, <1>2, <1>4, <1>6, <1>7
    <2>5. CASE d \in O
      <3>1. -d \in O
        BY <2>5, <1>4, <1>5
      <3> QED  BY <2>2, <2>5, <3>1, <1>2, <1>6, <1>7
    <2> QED  BY <2>1, <2>3, <2>4, <2>5
  <1>10. OnePredecessor'
    <2>1. \A c, d \in Darts(edges) : next[c] = next[d] => c = d
      BY LinkFacts
    <2> QED  BY <2>1, <1>2, <1>3, <1>4, <1>5, <1>7 DEF OnePredecessor, SplitRef
  <1> QED  BY <1>8, <1>9, <1>10 DEF LinksInv, LinksOK

\* The path f, l of the edges e1 and e2 becomes edge k.
HealStep(f, l, e1, e2, k) ==
  /\ e1 \in edges /\ e2 \in edges /\ Healable(e1, e2)
  /\ \/ f = e1 /\ l \in {e2, -e2}
     \/ f \in {e2, -e2} /\ l = e1
  /\ Meet(f, l)
  /\ \/ k = e1 /\ UNCHANGED lastEdge
     \/ k = lastEdge + 1 /\ k <= MaxEdge /\ lastEdge' = k
  /\ Heal(f, l, e1, e2, k)

\* What a heal does to the tables.
Healed(f, l, e1, e2, k) ==
  LET n == org[l]
      O == Darts(edges) \ {e1, -e1, e2, -e2}
      D == O \cup {k, -k}
  IN  /\ f \in Darts(edges) /\ l \in Darts(edges)
      /\ -f \in Darts(edges) /\ -l \in Darts(edges)
      /\ {f, -f, l, -l} = {e1, -e1, e2, -e2}
      /\ f # l /\ f # -l /\ -f # l /\ -f # -l /\ f # -f /\ l # -l
      /\ org[-f] = n /\ org[f] # n /\ org[-l] # n
      /\ \A d \in O : org[d] # n
      /\ \A d \in O \cup {l, -f} : next[d] \in O \cup {f, -l}
      /\ k \in Nat /\ k # -k /\ -(-k) = k /\ k \notin O /\ -k \notin O
      /\ Darts(edges') = D
      /\ lastEdge' \in 0..MaxEdge /\ edges' \subseteq 1..lastEdge'
      /\ org' = [d \in D |-> IF d = k THEN org[f]
                             ELSE IF d = -k THEN org[-l] ELSE org[d]]
      /\ nodes' = nodes \ {n} /\ lastNode' = lastNode
      /\ next' = [d \in D |-> next'[d]]
      /\ \A d \in D :
           next'[d] = Renamed(f, l, k, IF d = k THEN next[l]
                                       ELSE IF d = -k THEN next[-f]
                                       ELSE next[d])

(* The two darts that leave the healed node are each other's successors    *)
(* across it, or their own: either way no other dart leads to them.        *)
LEMMA HealEffect ==
  ASSUME LinksInv, NEW f, NEW l, NEW e1, NEW e2, NEW k, HealStep(f, l, e1, e2, k)
  PROVE  Healed(f, l, e1, e2, k)
  <1> DEFINE n == org[l]
             O == Darts(edges) \ {e1, -e1, e2, -e2}
             D == O \cup {k, -k}
  <1> USE DEF HealStep
  <1>1. \A d \in Darts(edges) : /\ next[d] \in Darts(edges)
                                /\ org[next[d]] = org[-d] /\ org[d] \in nodes
                                /\ -d \in Darts(edges) /\ -(-d) = d /\ d # -d
    BY LinkFacts, DartFacts DEF LinksInv
  <1>2. \A c, d \in Darts(edges) : next[c] = next[d] => c = d
    BY LinkFacts
  <1>3. /\ e1 \in Darts(edges) /\ e2 \in Darts(edges)
        /\ e1 # e2 /\ e1 # -e2
    BY DartFacts DEF LinksInv, Healable
  <1>4. /\ f \in Darts(edges) /\ l \in Darts(edges)
        /\ -f \in Darts(edges) /\ -l \in Darts(edges)
        /\ {f, -f, l, -l} = {e1, -e1, e2, -e2}
        /\ f # l /\ f # -l /\ -f # l /\ -f # -l /\ f # -f /\ l # -l
    BY <1>1, <1>3
  <1>5. /\ org[-f] = n /\ org[f] # n /\ org[-l] # n
        /\ \A d \in O : org[d] # n
    BY <1>1, <1>4 DEF Meet, Healable, EndsAt
  <1>6. next[f] \in {-f, l} /\ next[-l] \in {-f, l}
    <2>1. org[next[f]] = n /\ org[next[-l]] = n
      BY <1>1, <1>4, <1>5
    <2> QED  BY <2>1, <1>1, <1>4, <1>5
  <1>7. \A d \in O \cup {l, -f} : next[d] \in O \cup {f, -l}
    <2>1. next[f] # next[-l]
      BY <1>2, <1>4
    <2>2. {next[f], next[-l]} = {-f, l}
      BY <1>6, <2>1
    <2> SUFFICES ASSUME NEW d \in O \cup {l, -f}
                 PROVE  next[d] \in O \cup {f, -l}
      OBVIOUS
    <2>3. d \in Darts(edges) /\ d # f /\ d # -l
      BY <1>4
    <2>4. next[d] # next[f] /\ next[d] # next[-l] /\ next[d] \in Darts(edges)
      BY <1>1, <1>2, <1>4, <2>3
    <2> QED  BY <1>4, <2>2, <2>4
  <1>8. /\ k \in Nat /\ k # -k /\ -(-k) = k /\ k \notin O /\ -k \notin O
        /\ Darts(edges') = D
        /\ lastEdge' \in 0..MaxEdge /\ edges' \subseteq 1..lastEdge'
    <2>1. edges' = (edges \ {e1, e2}) \cup {k}
      BY DEF Heal
    <2>2. \A x \in edges : x \in Nat /\ x > 0
      BY DartFacts DEF LinksInv
    <2>3. Darts(edges \ {e1, e2}) = O
      BY <2>2 DEF Darts
    <2>4. Darts(edges') = D
      BY <2>1, <2>3 DEF Darts
    <2>5. CASE k = e1 /\ UNCHANGED lastEdge
      BY <2>1, <2>4, <2>5, <1>1, <1>3 DEF LinksInv, LinksTypeOK
    <2>6. CASE k = lastEdge + 1 /\ k <= MaxEdge /\ lastEdge' = k
      <3>1. k \in Nat /\ k > lastEdge
        BY <2>6 DEF LinksInv, LinksTypeOK
      <3>2. k \notin O /\ -k \notin O /\ k # -k /\ -(-k) = k
        BY <3>1, NewDarts DEF LinksInv
      <3>3. edges' \subseteq 1..k
        BY <2>1, <2>6, <3>1 DEF LinksInv, LinksTypeOK
      <3> QED  BY <2>4, <2>6, <3>1, <3>2, <3>3, BoundsAssumption
    <2> QED  BY <2>5, <2>6
  <1>9. /\ org' = [d \in D |-> IF d = k THEN org[f]
                               ELSE IF d = -k THEN org[-l] ELSE org[d]]
        /\ nodes' = nodes \ {n} /\ lastNode' = lastNode
    BY <1>8 DEF Heal
  <1>10. /\ next' = [d \in D |-> next'[d]]
         /\ \A d \in D :
              next'[d] = Renamed(f, l, k, IF d = k THEN next[l]
                                          ELSE IF d = -k THEN next[-f]
                                          ELSE next[d])
    BY <1>8 DEF Heal
  <1> QED  BY <1>4, <1>5, <1>7, <1>8, <1>9, <1>10 DEF Healed

LEMMA HealLinks ==
  ASSUME LinksInv, NEW f, NEW l, NEW e1, NEW e2, NEW k, HealStep(f, l, e1, e2, k)
  PROVE  LinksInv'
  <1> DEFINE n == org[l]
             O == Darts(edges) \ {e1, -e1, e2, -e2}
             D == O \cup {k, -k}
  <1>1. \A d \in Darts(edges) : /\ next[d] \in Darts(edges)
                                /\ org[next[d]] = org[-d] /\ org[d] \in nodes
                                /\ -d \in Darts(edges) /\ -(-d) = d /\ d # -d
    BY LinkFacts, DartFacts DEF LinksInv
  <1>2. \A c, d \in Darts(edges) : next[c] = next[d] => c = d
    BY LinkFacts
  <1>6. Healed(f, l, e1, e2, k)
    BY HealEffect
  <1>3. /\ e1 \in Darts(edges) /\ e2 \in Darts(edges)
        /\ e1 # e2 /\ e1 # -e2
    BY DartFacts DEF LinksInv, Healable, HealStep
  <1>4. /\ f \in Darts(edges) /\ l \in Darts(edges)
        /\ -f \in Darts(edges) /\ -l \in Darts(edges)
        /\ {f, -f, l, -l} = {e1, -e1, e2, -e2}
        /\ f # l /\ f # -l /\ -f # l /\ -f # -l /\ f # -f /\ l # -l
    BY <1>6 DEF Healed
  <1>5. /\ org[-f] = n /\ org[f] # n /\ org[-l] # n
        /\ \A d \in O : org[d] # n
    BY <1>6 DEF Healed
  <1>7. \A d \in O \cup {l, -f} : next[d] \in O \cup {f, -l}
    BY <1>6 DEF Healed
  <1>8. /\ k \in Nat /\ k # -k /\ -(-k) = k /\ k \notin O /\ -k \notin O
        /\ Darts(edges') = D
        /\ lastEdge' \in 0..MaxEdge /\ edges' \subseteq 1..lastEdge'
    BY <1>6 DEF Healed
  <1>9. /\ org' = [d \in D |-> IF d = k THEN org[f]
                               ELSE IF d = -k THEN org[-l] ELSE org[d]]
        /\ nodes' = nodes \ {n} /\ lastNode' = lastNode
    BY <1>6 DEF Healed
  <1> DEFINE R(d) == Renamed(f, l, k, d)
  <1>10. /\ next' = [d \in D |-> next'[d]]
         /\ \A d \in D :
              next'[d] = Renamed(f, l, k, IF d = k THEN next[l]
                                          ELSE IF d = -k THEN next[-f]
                                          ELSE next[d])
    BY <1>6 DEF Healed
  <1>11. \A d \in O \cup {l, -f} : R(next[d]) \in D /\ org'[R(next[d])] = org[-d]
    BY <1>1, <1>4, <1>7, <1>8, <1>9 DEF Renamed
  <1>12. LinksTypeOK'
    <2>1. org' \in [D -> nodes'] /\ next' \in [D -> D]
      <3>1. \A d \in D : next'[d] \in D
        BY <1>4, <1>8, <1>10, <1>11
      <3>2. org' \in [D -> nodes']
        BY <1>1, <1>4, <1>5, <1>9
      <3> QED  BY <3>1, <3>2, <1>10
    <2> QED  BY <2>1, <1>8, <1>9 DEF LinksInv, LinksTypeOK
  <1>13. EndsMeet'
    <2> SUFFICES ASSUME NEW d \in D
                 PROVE  org'[next'[d]] = org'[-d]
      BY <1>8 DEF EndsMeet
    <2>1. CASE d = k
      BY <2>1, <1>8, <1>9, <1>10, <1>11
    <2>2. CASE d = -k
      <3>1. next'[d] = R(next[-f]) /\ org[-(-f)] = org[f]
        BY <2>2, <1>1, <1>4, <1>8, <1>10
      <3>2. org'[-d] = org[f]
        BY <2>2, <1>8, <1>9
      <3> QED  BY <3>1, <3>2, <1>11
    <2>3. CASE d \in O
      <3>1. -d \in O
        BY <2>3, <1>1, <1>3
      <3> QED  BY <2>3, <3>1, <1>8, <1>9, <1>10, <1>11
    <2> QED  BY <2>1, <2>2, <2>3
  <1>14. OnePredecessor'
    <2>1. \A c, d \in O \cup {l, -f} : R(next[c]) = R(next[d]) => c = d
      BY <1>2, <1>4, <1>7, <1>8 DEF Renamed
    <2> QED  BY <2>1, <1>4, <1>8, <1>10 DEF OnePredecessor
  <1> QED  BY <1>12, <1>13, <1>14 DEF LinksInv, LinksOK

LEMMA ModEdgeHealStep ==
  ASSUME NEW e1 \in edges, NEW e2 \in edges, LinksModEdgeHeal(e1, e2)
  PROVE  \E f, l : HealStep(f, l, e1, e2, e1)
  <1>1. PICK p \in HealPaths(e1, e2) : Heal(p[1], p[2], e1, e2, e1)
    BY DEF LinksModEdgeHeal
  <1>2. /\ \/ p[1] = e1 /\ p[2] \in {e2, -e2}
           \/ p[1] \in {e2, -e2} /\ p[2] = e1
        /\ Meet(p[1], p[2])
    BY DEF HealPaths
  <1> QED  BY <1>1, <1>2 DEF LinksModEdgeHeal, HealStep

LEMMA NewEdgeHealStep ==
  ASSUME LinksInv, NEW e1 \in edges, NEW e2 \in edges, LinksNewEdgeHeal(e1, e2)
  PROVE  \E f, l : HealStep(f, l, e1, e2, lastEdge + 1)
  <1> DEFINE k == lastEdge + 1
  <1>1. PICK p \in HealPaths(e1, e2) : Heal(p[1], p[2], e1, e2, k)
    BY DEF LinksNewEdgeHeal
  <1>2. /\ \/ p[1] = e1 /\ p[2] \in {e2, -e2}
           \/ p[1] \in {e2, -e2} /\ p[2] = e1
        /\ Meet(p[1], p[2])
    BY DEF HealPaths
  <1>3. k <= MaxEdge /\ lastEdge' = k /\ Healable(e1, e2)
    BY BoundsAssumption DEF LinksNewEdgeHeal, LinksInv, LinksTypeOK
  <1>4. k = lastEdge + 1
    OBVIOUS
  <1> HIDE DEF k
  <1>5. HealStep(p[1], p[2], e1, e2, k)
    BY <1>1, <1>2, <1>3, <1>4 DEF HealStep
  <1> QED  BY <1>5 DEF k

-----------------------------------------------------------------------------
(* The invariant *)

LEMMA NextLinks == LinksInv /\ [LinksNext]_links => LinksInv'
  <1> SUFFICES ASSUME LinksInv, [LinksNext]_links
               PROVE  LinksInv'
    OBVIOUS
  <1>1. CASE LinksAddIsoNode
    BY <1>1, AddIsoNodeLinks
  <1>2. CASE \E n \in nodes : LinksRemoveIsoNode(n)
    BY <1>2, RemoveIsoNodeLinks
  <1>3. CASE \E a, b \in nodes : LinksAddIsoEdge(a, b)
    BY <1>3, AddIsoEdgeLinks
  <1>4. CASE \E a, b \in nodes : \E p \in AdjacentPairs(a, b) :
               LinksAddEdge(a, b, p[1], p[2])
    BY <1>4, AddEdgeLinks
  <1>5. CASE \E e \in edges : LinksRemEdge(e)
    BY <1>5, RemEdgeLinks
  <1>6. CASE \E e \in edges : LinksRemIsoEdge(e)
    BY <1>6, RemIsoEdgeLinks
  <1>7. CASE \E e \in edges : LinksModEdgeSplit(e)
    BY <1>7, ModEdgeSplitLinks
  <1>8. CASE \E e1, e2 \in edges : LinksModEdgeHeal(e1, e2)
    BY <1>8, ModEdgeHealStep, HealLinks
  <1>9. CASE \E e1, e2 \in edges : LinksNewEdgeHeal(e1, e2)
    BY <1>9, NewEdgeHealStep, HealLinks
  <1>10. CASE \E e \in edges : NoRightReference(e) /\ LinksNewEdgesSplit(e)
    BY <1>10, NewEdgesSplitLinks
  <1>11. CASE UNCHANGED links
    BY <1>11 DEF links, LinksInv, LinksTypeOK, LinksOK, EndsMeet, OnePredecessor
  <1> QED
    BY <1>1, <1>2, <1>3, <1>4, <1>5, <1>6, <1>7, <1>8, <1>9, <1>10, <1>11
    DEF LinksNext, LinksNextButSplit

THEOREM SpecLinks == LinksSpec => []LinksInv
  BY InitLinks, NextLinks, PTL DEF LinksSpec

\* Whatever the calls, no node, edge or link refers to a row that is gone:
\* the operations that delete or rename edges repair every reference.
THEOREM TypeCorrect == LinksSpec => []LinksTypeOK
  <1>1. LinksInv => LinksTypeOK
    BY DEF LinksInv
  <1> QED  BY <1>1, SpecLinks, PTL

\* Whatever the calls, next_left and next_right continue where the edge
\* arrives and no two sides continue with the same one, so that following
\* them from any side comes back to it (LinksNewEdgesSplit included when no
\* next_right refers to the edge it replaces).
THEOREM LinksCorrect == LinksSpec => []LinksOK
  <1>1. LinksInv => LinksOK
    BY DEF LinksInv
  <1> QED  BY <1>1, SpecLinks, PTL

LEMMA PairCardinality ==
  ASSUME NEW x, NEW y
  PROVE  IsFiniteSet({x, y}) /\ Cardinality({x, y}) <= 2
  <1>1. IsFiniteSet({x}) /\ Cardinality({x}) = 1
    BY FS_Singleton
  <1>2. {x, y} = {x} \cup {y}
    OBVIOUS
  <1>3. IsFiniteSet({x} \cup {y}) /\ Cardinality({x} \cup {y}) <= 2
    BY <1>1, FS_AddElement
  <1> QED  BY <1>2, <1>3

\* Whatever the calls, the fixed arrays of _lwt_RemEdge are large enough.
THEOREM RemEdgeArraysSafe == LinksSpec => []RemEdgeArraysFit
  <1>1. LinksInv => RemEdgeArraysFit
    <2> SUFFICES ASSUME LinksInv, NEW e \in edges
                 PROVE  /\ Cardinality({d \in edges \ {e} : next[d] \in {e, -e}}) <= 2
                        /\ Cardinality({d \in edges \ {e} : next[-d] \in {e, -e}}) <= 2
      BY DEF RemEdgeArraysFit
    <2> DEFINE L == {d \in edges \ {e} : next[d] \in {e, -e}}
               R == {d \in edges \ {e} : next[-d] \in {e, -e}}
               l == [d \in L |-> next[d]]
               r == [d \in R |-> next[-d]]
    <2>1. \A d \in edges : d \in Darts(edges) /\ -d \in Darts(edges) /\ -(-d) = d
      BY DartFacts DEF LinksInv
    <2>2. l \in Injection(L, {e, -e})
      BY <2>1, LinkFacts DEF Injection, IsInjective
    <2>3. r \in Injection(R, {e, -e})
      <3>1. \A c, d \in R : next[-c] = next[-d] => c = d
        BY <2>1, LinkFacts
      <3> QED  BY <3>1 DEF Injection, IsInjective
    <2>4. IsFiniteSet({e, -e}) /\ Cardinality({e, -e}) <= 2
      BY PairCardinality
    <2> HIDE DEF l, r, L, R
    <2>5. /\ IsFiniteSet(L) /\ Cardinality(L) <= Cardinality({e, -e})
          /\ IsFiniteSet(R) /\ Cardinality(R) <= Cardinality({e, -e})
      BY <2>2, <2>3, <2>4, FS_Injection
    <2>6. /\ Cardinality(L) \in Nat /\ Cardinality(R) \in Nat
          /\ Cardinality({e, -e}) \in Nat
      BY <2>4, <2>5, FS_CardinalityType
    <2>7. Cardinality(L) <= 2 /\ Cardinality(R) <= 2
      BY <2>4, <2>5, <2>6
    <2> QED  BY <2>7 DEF L, R
  <1> QED  BY <1>1, SpecLinks, PTL

-----------------------------------------------------------------------------
(* Around every node the links go once through all the edge ends. *)

(***************************************************************************)
(* A function goes round E: no part of E is closed under it.  A step of    *)
(* the topology puts an edge end into the round of a node, takes one out,  *)
(* or renames the ends; each keeps the round whole, which is shown by      *)
(* making a closed part of the old round from one of the new.              *)
(***************************************************************************)
OneOrbit(E, T) == \A S \in SUBSET E : S # {} /\ (\A d \in S : T[d] \in S) => S = E

\* x is put between c and what followed it.
LEMMA OrbitSpliced ==
  ASSUME NEW E, NEW T, OneOrbit(E, T), \A d \in E : T[d] \in E,
         NEW x, x \notin E, NEW c \in E,
         NEW U, U[c] = x, U[x] = T[c], \A d \in E \ {c} : U[d] = T[d]
  PROVE  OneOrbit(E \cup {x}, U)
  <1> SUFFICES ASSUME NEW S \in SUBSET (E \cup {x}), S # {}, \A d \in S : U[d] \in S
               PROVE  S = E \cup {x}
    BY DEF OneOrbit
  <1>1. \A d \in S \cap E : T[d] \in S \cap E
    OBVIOUS
  <1>2. S \cap E # {}
    OBVIOUS
  <1>3. S \cap E = E
    BY <1>1, <1>2 DEF OneOrbit
  <1> QED  BY <1>3

\* x is taken out: what led to it leads to what followed it.
LEMMA OrbitContracted ==
  ASSUME NEW E, NEW T, OneOrbit(E, T), NEW x \in E,
         NEW U, \A d \in E \ {x} : U[d] = IF T[d] = x THEN T[x] ELSE T[d]
  PROVE  OneOrbit(E \ {x}, U)
  <1> SUFFICES ASSUME NEW S \in SUBSET (E \ {x}), S # {}, \A d \in S : U[d] \in S
               PROVE  S = E \ {x}
    BY DEF OneOrbit
  <1>1. CASE \E d \in S : T[d] = x
    <2>1. T[x] \in S
      BY <1>1
    <2>2. \A d \in S \cup {x} : T[d] \in S \cup {x}
      BY <2>1
    <2>3. S \cup {x} \in SUBSET E /\ S \cup {x} # {}
      OBVIOUS
    <2>4. S \cup {x} = E
      BY <2>2, <2>3 DEF OneOrbit
    <2> QED  BY <2>4
  <1>2. CASE \A d \in S : T[d] # x
    <2>1. \A d \in S : T[d] \in S
      BY <1>2
    <2>2. S = E
      BY <2>1 DEF OneOrbit
    <2> QED  BY <2>2
  <1> QED  BY <1>1, <1>2

\* The members are renamed.
LEMMA OrbitRenamed ==
  ASSUME NEW E, NEW T, OneOrbit(E, T), \A d \in E : T[d] \in E,
         NEW R, NEW F, \A d \in E : R[d] \in F, \A x \in F : \E d \in E : x = R[d],
         NEW U, \A d \in E : U[R[d]] = R[T[d]]
  PROVE  OneOrbit(F, U)
  <1> SUFFICES ASSUME NEW S \in SUBSET F, S # {}, \A d \in S : U[d] \in S
               PROVE  S = F
    BY DEF OneOrbit
  <1> DEFINE P == {d \in E : R[d] \in S}
  <1>1. P # {} /\ \A d \in P : T[d] \in P
    OBVIOUS
  <1>2. P = E
    BY <1>1 DEF OneOrbit
  <1> QED  BY <1>2

LEMMA OrbitSame ==
  ASSUME NEW E, NEW T, OneOrbit(E, T), NEW U, \A d \in E : U[d] = T[d]
  PROVE  OneOrbit(E, U)
  BY DEF OneOrbit

LEMMA OrbitOfOne == ASSUME NEW x, NEW U PROVE OneOrbit({x}, U)
  BY DEF OneOrbit

LEMMA OrbitOfNone == ASSUME NEW U PROVE OneOrbit({}, U)
  BY DEF OneOrbit

LEMMA OrbitOfTwo ==
  ASSUME NEW x, NEW y, NEW U, U[x] = y, U[y] = x
  PROVE  OneOrbit({x, y}, U)
  BY DEF OneOrbit

-----------------------------------------------------------------------------
(* The rotation of the edge ends of a node *)

Rotation(n) == [d \in EndsAt(n) |-> Turn(d)]

Rotates(n) == OneOrbit(EndsAt(n), Rotation(n))

LEMMA RotationIsOrbit == OneRotation <=> \A n \in nodes : Rotates(n)
  <1>1. ASSUME NEW n, NEW S \in SUBSET EndsAt(n)
        PROVE  {Turn(d) : d \in S} \subseteq S <=> \A d \in S : Rotation(n)[d] \in S
    BY DEF Rotation
  <1> QED  BY <1>1 DEF OneRotation, Rotates, OneOrbit

\* The same of the state after a step.
LEMMA RotatesNext ==
  ASSUME NEW n, OneOrbit(EndsAt(n)', [d \in EndsAt(n)' |-> next'[-d]])
  PROVE  Rotates(n)'
  BY DEF Rotates, Rotation, Turn, OneOrbit

LEMMA RotationIsOrbitNext == (\A n \in nodes' : Rotates(n)') => OneRotation'
  <1>1. ASSUME NEW n, NEW S \in SUBSET EndsAt(n)'
        PROVE  {Turn(d)' : d \in S} \subseteq S <=> \A d \in S : Rotation(n)'[d] \in S
    BY DEF Rotation
  <1> QED  BY <1>1 DEF OneRotation, Rotates, OneOrbit

\* A turn stays at its node.
LEMMA TurnFacts ==
  ASSUME LinksInv, NEW n, NEW d \in EndsAt(n)
  PROVE  /\ d \in Darts(edges) /\ -d \in Darts(edges) /\ -(-d) = d /\ org[d] = n
         /\ Rotation(n)[d] = next[-d] /\ next[-d] \in EndsAt(n)
  <1>1. d \in Darts(edges) /\ org[d] = n /\ -d \in Darts(edges) /\ -(-d) = d
    BY DartFacts DEF EndsAt, LinksInv
  <1>2. next[-d] \in Darts(edges) /\ org[next[-d]] = org[d]
    BY <1>1, LinkFacts
  <1> QED  BY <1>1, <1>2 DEF EndsAt, Rotation, Turn

\* A step that leaves the ends of n and what follows them alone.
LEMMA RotatesSame ==
  ASSUME NEW n, Rotates(n), EndsAt(n)' = EndsAt(n),
         \A d \in EndsAt(n) : next'[-d] = next[-d]
  PROVE  Rotates(n)'
  BY DEF Rotates, Rotation, Turn, OneOrbit

\* A node without an edge.
LEMMA RotatesNone ==
  ASSUME NEW n, EndsAt(n)' = {}
  PROVE  Rotates(n)'
  BY RotatesNext, OrbitOfNone

-----------------------------------------------------------------------------
(* One lemma for each operation *)

LEMMA AddIsoNodeRotates ==
  ASSUME LinksInv, \A n \in nodes : Rotates(n), LinksAddIsoNode, NEW n \in nodes'
  PROVE  Rotates(n)'
  <1>1. EndsAt(n)' = EndsAt(n) /\ next' = next
    BY DEF LinksAddIsoNode, EndsAt
  <1>2. CASE n \in nodes
    BY <1>1, <1>2, RotatesSame
  <1>3. CASE n \notin nodes
    <2>1. EndsAt(n) = {}
      BY <1>3 DEF EndsAt, LinksInv, LinksTypeOK
    <2> QED  BY <1>1, <2>1, RotatesNone
  <1> QED  BY <1>2, <1>3

LEMMA RemoveIsoNodeRotates ==
  ASSUME \A n \in nodes : Rotates(n), NEW m, LinksRemoveIsoNode(m), NEW n \in nodes'
  PROVE  Rotates(n)'
  <1>1. EndsAt(n)' = EndsAt(n) /\ next' = next /\ n \in nodes
    BY DEF LinksRemoveIsoNode, EndsAt
  <1> QED  BY <1>1, RotatesSame

LEMMA RemIsoEdgeRotates ==
  ASSUME LinksInv, \A n \in nodes : Rotates(n), NEW e \in edges, LinksRemIsoEdge(e),
         NEW n \in nodes'
  PROVE  Rotates(n)'
  <1>1. Darts(edges') = Darts(edges) \ {e, -e}
    BY KeptDarts DEF LinksRemIsoEdge, LinksInv
  <1>2. /\ nodes' = nodes
        /\ \A d \in Darts(edges) \ {e, -e} : org'[d] = org[d] /\ next'[d] = next[d]
    BY <1>1 DEF LinksRemIsoEdge
  <1>3. e \in Darts(edges) /\ -e \in Darts(edges) /\ -(-e) = e
    BY DartFacts DEF LinksInv
  <1>4. EndsAt(n)' = EndsAt(n) \ {e, -e}
    BY <1>1, <1>2 DEF EndsAt
  <1>5. CASE n \in {org[e], org[-e]}
    <2>1. EndsAt(n) \subseteq {e, -e}
      BY <1>5 DEF LinksRemIsoEdge
    <2> QED  BY <1>4, <2>1, RotatesNone
  <1>6. CASE n \notin {org[e], org[-e]}
    <2>1. e \notin EndsAt(n) /\ -e \notin EndsAt(n)
      BY <1>6 DEF EndsAt
    <2>2. ASSUME NEW d \in EndsAt(n)
          PROVE  next'[-d] = next[-d]
      <3>1. -d \in Darts(edges) /\ -(-d) = d
        BY TurnFacts
      <3> QED  BY <2>1, <1>2, <1>3, <3>1
    <2> QED  BY <1>2, <1>4, <2>1, <2>2, RotatesSame
  <1> QED  BY <1>5, <1>6

\* Without e, the end before one of its ends turns to the end after it.
LEMMA RemEdgeRotates ==
  ASSUME LinksInv, \A n \in nodes : Rotates(n), NEW e \in edges, LinksRemEdge(e),
         NEW n \in nodes'
  PROVE  Rotates(n)'
  <1> DEFINE E == EndsAt(n)
             T == Rotation(n)
             V == [d \in E \ {-e} |-> IF T[d] = -e THEN T[-e] ELSE T[d]]
             U == [d \in EndsAt(n)' |-> next'[-d]]
  <1>1. Darts(edges') = Darts(edges) \ {e, -e}
    BY KeptDarts DEF LinksRemEdge, LinksInv
  <1>2. nodes' = nodes /\ \A d \in Darts(edges) \ {e, -e} : org'[d] = org[d]
    BY <1>1 DEF LinksRemEdge
  <1>3. e \in Darts(edges) /\ -e \in Darts(edges) /\ -(-e) = e /\ e # -e
    BY DartFacts DEF LinksInv
  <1>4. EndsAt(n)' = E \ {e, -e}
    BY <1>1, <1>2 DEF EndsAt
  <1>5. \A d \in E : /\ -d \in Darts(edges) /\ -(-d) = d
                     /\ T[d] = next[-d] /\ T[d] \in E
    BY TurnFacts
  <1>6. \A c, d \in E : T[c] = T[d] => c = d
    BY <1>5, LinkFacts
  <1>7. ASSUME NEW d \in E \ {e, -e}
        PROVE  U[d] = CASE T[d] = -e -> IF T[-e] # e THEN T[-e] ELSE T[e]
                        [] T[d] = e -> IF T[e] # -e THEN T[e] ELSE T[-e]
                        [] OTHER -> T[d]
    <2>1. -d \in Darts(edges) \ {e, -e}
      BY <1>3, <1>5
    <2>2. next'[-d] = Bypass(e, -d)
      BY RemEdgeNext, <2>1
    <2>3. U[d] = Bypass(e, -d)
      BY <1>4, <2>2
    <2>4. T[d] = next[-d] /\ T[d] \in E
      BY <1>5
    <2>5. /\ -e \in E => T[-e] = next[e]
          /\ e \in E => T[e] = next[-e]
      BY <1>3, <1>5
    <2>6. CASE T[d] = -e
      <3>1. -e \in E /\ T[-e] \in E
        BY <1>5, <2>6
      <3> QED  BY <2>3, <2>4, <2>5, <2>6, <3>1 DEF Bypass
    <2>7. CASE T[d] = e
      <3>1. e \in E /\ T[e] \in E
        BY <1>5, <2>7
      <3> QED  BY <1>3, <2>3, <2>4, <2>5, <2>7, <3>1 DEF Bypass
    <2> QED  BY <2>3, <2>4, <2>6, <2>7 DEF Bypass
  <1>8. OneOrbit(E, T)
    BY <1>2 DEF Rotates
  <1> HIDE DEF E, T, U
  <1>9. OneOrbit(E \ {-e}, V)
    <2>1. CASE -e \in E
      BY <1>8, <2>1, OrbitContracted
    <2>2. CASE -e \notin E
      <3>1. E \ {-e} = E /\ \A d \in E : V[d] = T[d]
        BY <1>5, <2>2
      <3> QED  BY <1>8, <3>1, OrbitSame
    <2> QED  BY <2>1, <2>2
  <1>10. (E \ {-e}) \ {e} = EndsAt(n)'
    BY <1>4
  <1>11. ASSUME NEW d \in E \ {e, -e}
         PROVE  U[d] = IF V[d] = e THEN V[e] ELSE V[d]
    BY <1>3, <1>5, <1>6, <1>7
  <1>12. OneOrbit((E \ {-e}) \ {e}, U)
    <2>1. CASE e \in E
      <3>1. e \in E \ {-e} /\ \A d \in (E \ {-e}) \ {e} :
                                 U[d] = IF V[d] = e THEN V[e] ELSE V[d]
        BY <1>3, <1>11, <2>1
      <3> HIDE DEF V
      <3> QED  BY <1>9, <3>1, OrbitContracted
    <2>2. CASE e \notin E
      <3>1. (E \ {-e}) \ {e} = E \ {-e}
        BY <2>2
      <3>2. \A d \in E \ {-e} : U[d] = V[d]
        BY <1>3, <1>5, <1>11, <2>2
      <3> QED  BY <1>9, <3>1, <3>2, OrbitSame
    <2> QED  BY <2>1, <2>2
  <1> QED  BY <1>10, <1>12, RotatesNext DEF U

\* The new node has the two ends of the split edge; the far end is renamed.
LEMMA ModEdgeSplitRotates ==
  ASSUME LinksInv, \A n \in nodes : Rotates(n), NEW e \in edges, LinksModEdgeSplit(e),
         NEW n \in nodes'
  PROVE  Rotates(n)'
  <1> PICK k, new, D : /\ k = lastEdge + 1 /\ new = lastNode + 1
                       /\ D = Darts(edges) \cup {k, -k}
    OBVIOUS
  <1>0. EdgeSplit(e, k, new, D)
    BY ModEdgeSplitEffect
  <1>1. /\ new \notin nodes /\ nodes' = nodes \cup {new}
        /\ k \notin Darts(edges) /\ -k \notin Darts(edges)
        /\ k # -k /\ -(-k) = k /\ Darts(edges') = D
    BY <1>0 DEF EdgeSplit
  <1>2. org' = [d \in D |-> IF d = k \/ d = -e THEN new
                            ELSE IF d = -k THEN org[-e] ELSE org[d]]
    BY <1>0 DEF EdgeSplit
  <1>3. next' = [d \in D |-> IF d = k THEN IF next[e] = -e THEN -k ELSE next[e]
                             ELSE IF d = -k THEN -e
                             ELSE IF d = e THEN k
                             ELSE IF next[d] = -e THEN -k ELSE next[d]]
    BY <1>0 DEF EdgeSplit
  <1>4. /\ e \in Darts(edges) /\ -e \in Darts(edges) /\ -(-e) = e /\ e # -e
        /\ \A d \in Darts(edges) : org[d] \in nodes
    BY DartFacts, LinkFacts DEF LinksInv
  <1> DEFINE F == EndsAt(n)'
             U == [d \in F |-> next'[-d]]
  <1>5. F = {d \in D : org'[d] = n}
    BY <1>1 DEF EndsAt
  <1>6. CASE n = new
    <2>1. F = {k, -e}
      BY <1>1, <1>2, <1>4, <1>5, <1>6
    <2>2. U[k] = -e /\ U[-e] = k
      BY <1>1, <1>3, <1>4, <2>1
    <2>3. OneOrbit({k, -e}, U)
      BY <2>2, OrbitOfTwo
    <2> QED  BY <2>1, <2>3, RotatesNext
  <1>7. CASE n # new
    <2> DEFINE E == EndsAt(n)
               T == Rotation(n)
               R == [d \in E |-> IF d = -e THEN -k ELSE d]
    <2>1. n \in nodes
      BY <1>1, <1>7
    <2>2. OneOrbit(E, T)
      BY <2>1 DEF Rotates
    <2>3. \A d \in E : /\ d \in Darts(edges) /\ -d \in Darts(edges) /\ -(-d) = d
                       /\ T[d] = next[-d] /\ T[d] \in E
      BY TurnFacts
    <2>4. (\A d \in E : R[d] \in F) /\ (\A x \in F : \E d \in E : x = R[d])
      <3>1. \A d \in F : d = -k \/ d \in E \ {-e}
        BY <1>1, <1>2, <1>5, <1>7 DEF EndsAt
      <3>2. -k \in F <=> -e \in E
        BY <1>1, <1>2, <1>4, <1>5 DEF EndsAt
      <3>3. \A d \in E \ {-e} : d \in F
        BY <1>1, <1>2, <1>5 DEF EndsAt
      <3> HIDE DEF E, F
      <3> QED  BY <3>1, <3>2, <3>3
    <2>5. ASSUME NEW d \in E
          PROVE  U[R[d]] = R[T[d]]
      <3>1. R[d] \in F /\ U[R[d]] = next'[-R[d]]
        BY <2>4
      <3>2. R[T[d]] = IF next[-d] = -e THEN -k ELSE next[-d]
        BY <2>3
      <3>3. CASE d = -e
        BY <1>1, <1>3, <1>4, <3>1, <3>2, <3>3
      <3>4. CASE d # -e
        <4>1. -d \in Darts(edges) /\ -d # e
          BY <1>4, <2>3, <3>4
        <4> QED  BY <1>1, <1>3, <3>1, <3>2, <3>4, <4>1
      <3> QED  BY <3>3, <3>4
    <2> HIDE DEF E, T, R, F, U
    <2>6. \A d \in E : T[d] \in E
      BY <2>3
    <2>7. OneOrbit(F, U)
      BY <2>2, <2>4, <2>5, <2>6, OrbitRenamed
    <2> QED  BY <2>7, RotatesNext DEF F, U
  <1> QED  BY <1>6, <1>7

\* The new node has an end of each new edge; the ends of e are renamed.
LEMMA NewEdgesSplitRotates ==
  ASSUME LinksInv, \A n \in nodes : Rotates(n),
         NEW e \in edges, NoRightReference(e), LinksNewEdgesSplit(e), NEW n \in nodes'
  PROVE  Rotates(n)'
  <1> DEFINE O == Darts(edges) \ {e, -e}
  <1> PICK m, k, new, D : /\ m = lastEdge + 1 /\ k = lastEdge + 2
                          /\ new = lastNode + 1
                          /\ D = O \cup {m, -m, k, -k}
    OBVIOUS
  <1>0. EdgeReplaced(e, m, k, new, D)
    BY NewEdgesSplitEffect
  <1>1. /\ new \notin nodes /\ nodes' = nodes \cup {new}
        /\ {m, -m, k, -k} \cap Darts(edges) = {}
        /\ m # -m /\ k # -k /\ m # k /\ m # -k /\ -(-m) = m /\ -(-k) = k
        /\ Darts(edges') = D
    BY <1>0 DEF EdgeReplaced
  <1>2. org' = [d \in D |-> IF d = m THEN org[e]
                            ELSE IF d = -m \/ d = k THEN new
                            ELSE IF d = -k THEN org[-e] ELSE org[d]]
    BY <1>0 DEF EdgeReplaced
  <1>3. \A d \in D : next'[d] = IF d = m THEN k
                                ELSE IF d = -m THEN SplitRef(e, m, k, next[-e])
                                ELSE IF d = k THEN SplitRef(e, m, k, next[e])
                                ELSE IF d = -k THEN -m
                                ELSE SplitRef(e, m, k, next[d])
    BY <1>0 DEF EdgeReplaced
  <1>4. /\ e \in Darts(edges) /\ -e \in Darts(edges) /\ -(-e) = e /\ e # -e
        /\ \A d \in Darts(edges) : org[d] \in nodes
    BY DartFacts, LinkFacts DEF LinksInv
  <1> DEFINE F == EndsAt(n)'
             U == [d \in F |-> next'[-d]]
  <1>5. F = {d \in D : org'[d] = n}
    BY <1>1 DEF EndsAt
  <1>6. CASE n = new
    <2>1. F = {-m, k}
      BY <1>1, <1>2, <1>4, <1>5, <1>6
    <2>2. U[-m] = k /\ U[k] = -m
      BY <1>1, <1>3, <1>4, <2>1
    <2>3. OneOrbit({-m, k}, U)
      BY <2>2, OrbitOfTwo
    <2> QED  BY <2>1, <2>3, RotatesNext
  <1>7. CASE n # new
    <2> DEFINE E == EndsAt(n)
               T == Rotation(n)
               R == [d \in E |-> SplitRef(e, m, k, d)]
    <2>1. n \in nodes
      BY <1>1, <1>7
    <2>2. OneOrbit(E, T)
      BY <2>1 DEF Rotates
    <2>3. \A d \in E : /\ d \in Darts(edges) /\ -d \in Darts(edges) /\ -(-d) = d
                       /\ T[d] = next[-d] /\ T[d] \in E
      BY TurnFacts
    <2>4. (\A d \in E : R[d] \in F) /\ (\A x \in F : \E d \in E : x = R[d])
      <3>1. \A d \in F : d \in {m, -k} \/ d \in E \ {e, -e}
        BY <1>1, <1>2, <1>5, <1>7 DEF EndsAt
      <3>2. (m \in F <=> e \in E) /\ (-k \in F <=> -e \in E)
        BY <1>1, <1>2, <1>4, <1>5 DEF EndsAt
      <3>3. \A d \in E \ {e, -e} : d \in F
        BY <1>1, <1>2, <1>5 DEF EndsAt
      <3>4. \A d \in E : R[d] = IF d = e THEN m ELSE IF d = -e THEN -k ELSE d
        BY DEF SplitRef
      <3> HIDE DEF E, F, R
      <3> QED  BY <1>4, <3>1, <3>2, <3>3, <3>4
    <2>5. ASSUME NEW d \in E
          PROVE  U[R[d]] = R[T[d]]
      <3>1. R[d] \in F /\ R[d] \in D /\ U[R[d]] = next'[-R[d]]
        BY <1>5, <2>4
      <3>2. R[T[d]] = SplitRef(e, m, k, next[-d])
        BY <2>3
      <3>3. CASE d = e
        <4>1. R[d] = m
          BY <3>3 DEF SplitRef
        <4>2. next'[-m] = SplitRef(e, m, k, next[-e])
          BY <1>1, <1>3
        <4> QED  BY <3>1, <3>2, <3>3, <4>1, <4>2
      <3>4. CASE d = -e
        <4>1. R[d] = -k
          BY <1>4, <3>4 DEF SplitRef
        <4>2. next'[k] = SplitRef(e, m, k, next[e])
          BY <1>1, <1>3
        <4> QED  BY <1>1, <1>4, <3>1, <3>2, <3>4, <4>1, <4>2
      <3>5. CASE d # e /\ d # -e
        <4>1. -d \in O
          BY <1>4, <2>3, <3>5
        <4>2. R[d] = d
          BY <3>5 DEF SplitRef
        <4>3. next'[-d] = SplitRef(e, m, k, next[-d])
          BY <1>1, <1>3, <4>1
        <4> QED  BY <3>1, <3>2, <4>2, <4>3
      <3> QED  BY <3>3, <3>4, <3>5
    <2> HIDE DEF E, T, R, F, U
    <2>6. OneOrbit(F, U)
      BY <2>2, <2>3, <2>4, <2>5, OrbitRenamed
    <2> QED  BY <2>6, RotatesNext DEF F, U
  <1> QED  BY <1>6, <1>7

\* The ends of the path at the nodes that stay are renamed.
LEMMA HealRotates ==
  ASSUME LinksInv, \A n \in nodes : Rotates(n),
         NEW f, NEW l, NEW e1, NEW e2, NEW k, HealStep(f, l, e1, e2, k),
         NEW n \in nodes'
  PROVE  Rotates(n)'
  <1> DEFINE O == Darts(edges) \ {e1, -e1, e2, -e2}
             D == O \cup {k, -k}
             E == EndsAt(n)
             T == Rotation(n)
             R == [d \in E |-> Renamed(f, l, k, d)]
             F == EndsAt(n)'
             U == [d \in F |-> next'[-d]]
  <1>1. Healed(f, l, e1, e2, k)
    BY HealEffect
  <1>2. /\ f \in Darts(edges) /\ l \in Darts(edges)
        /\ -f \in Darts(edges) /\ -l \in Darts(edges)
        /\ O = Darts(edges) \ {f, -f, l, -l}
        /\ f # l /\ f # -l /\ -f # l /\ -f # -l /\ f # -f /\ l # -l
        /\ -(-f) = f /\ -(-l) = l
    BY <1>1, DartFacts DEF Healed, LinksInv
  <1>3. n \in nodes /\ org[-f] # n /\ org[l] # n
    BY <1>1 DEF Healed
  <1>4. /\ k # -k /\ -(-k) = k /\ k \notin O /\ -k \notin O
        /\ Darts(edges') = D
    BY <1>1 DEF Healed
  <1>5. \A d \in D : org'[d] = IF d = k THEN org[f]
                               ELSE IF d = -k THEN org[-l] ELSE org[d]
    BY <1>1 DEF Healed
  <1>6. \A d \in D : next'[d] = Renamed(f, l, k, IF d = k THEN next[l]
                                                 ELSE IF d = -k THEN next[-f]
                                                 ELSE next[d])
    BY <1>1 DEF Healed
  <1>7. OneOrbit(E, T)
    BY <1>3 DEF Rotates
  <1>8. \A d \in E : /\ d \in Darts(edges) /\ -d \in Darts(edges) /\ -(-d) = d
                     /\ T[d] = next[-d] /\ T[d] \in E
    BY TurnFacts
  <1>9. E \subseteq O \cup {f, -l}
    BY <1>2, <1>3 DEF EndsAt
  <1>10. \A d \in E : R[d] = IF d = f THEN k ELSE IF d = -l THEN -k ELSE d
    BY DEF Renamed
  <1>11. F = {d \in D : org'[d] = n}
    BY <1>4 DEF EndsAt
  <1>12. (\A d \in E : R[d] \in F) /\ (\A x \in F : \E d \in E : x = R[d])
    <2>1. \A d \in F : d \in {k, -k} \/ d \in E \ {f, -l}
      BY <1>2, <1>4, <1>5, <1>11 DEF EndsAt
    <2>2. (k \in F <=> f \in E) /\ (-k \in F <=> -l \in E)
      BY <1>2, <1>4, <1>5, <1>11 DEF EndsAt
    <2>3. \A d \in E \ {f, -l} : d \in F
      BY <1>2, <1>4, <1>5, <1>9, <1>11 DEF EndsAt
    <2> HIDE DEF E, F, R
    <2> QED  BY <1>2, <1>10, <2>1, <2>2, <2>3
  <1>13. ASSUME NEW d \in E
         PROVE  U[R[d]] = R[T[d]]
    <2>1. R[d] \in F /\ U[R[d]] = next'[-R[d]]
      BY <1>12
    <2>2. R[T[d]] = Renamed(f, l, k, next[-d])
      BY <1>8
    <2>3. CASE d = f
      <3>1. R[d] = k /\ next'[-k] = Renamed(f, l, k, next[-f])
        BY <1>4, <1>6, <1>10, <2>3
      <3> QED  BY <2>1, <2>2, <2>3, <3>1
    <2>4. CASE d = -l
      <3>1. R[d] = -k /\ next'[k] = Renamed(f, l, k, next[l]) /\ -d = l
        BY <1>2, <1>4, <1>6, <1>10, <2>4, DartFacts DEF LinksInv
      <3> QED  BY <1>4, <2>1, <2>2, <2>4, <3>1
    <2>5. CASE d # f /\ d # -l
      <3>1. -d \in O
        BY <1>2, <1>8, <1>9, <2>5
      <3>2. R[d] = d /\ next'[-d] = Renamed(f, l, k, next[-d])
        BY <1>4, <1>6, <1>10, <2>5, <3>1
      <3> QED  BY <2>1, <2>2, <3>2
    <2> QED  BY <2>3, <2>4, <2>5
  <1> HIDE DEF E, T, R, F, U
  <1>14. \A d \in E : T[d] \in E
    BY <1>8
  <1>15. OneOrbit(F, U)
    BY <1>7, <1>12, <1>13, <1>14, OrbitRenamed
  <1> QED  BY <1>15, RotatesNext DEF F, U

\* The darts after edge k was inserted from a to b.
LEMMA InsertEdgeEnds ==
  ASSUME LinksInv, NEW k, k = lastEdge + 1, NEW a \in nodes, NEW b \in nodes,
         NEW nextLeft, NEW nextRight, NEW old,
         InsertEdge(k, a, b, nextLeft, nextRight, old), NEW n
  PROVE  /\ k \notin Darts(edges) /\ -k \notin Darts(edges)
         /\ k # -k /\ -(-k) = k
         /\ next'[k] = nextLeft /\ next'[-k] = nextRight
         /\ \A d \in Darts(edges) : next'[d] = old[d]
         /\ EndsAt(n)' = EndsAt(n) \cup (IF n = a THEN {k} ELSE {})
                                  \cup (IF n = b THEN {-k} ELSE {})
  <1>1. k \in Nat /\ k > lastEdge
    BY DEF LinksInv, LinksTypeOK
  <1>2. /\ k \notin Darts(edges) /\ -k \notin Darts(edges)
        /\ k # -k /\ -(-k) = k
        /\ Darts(edges \cup {k}) = Darts(edges) \cup {k, -k}
    BY <1>1, NewDarts DEF LinksInv
  <1> DEFINE D == Darts(edges) \cup {k, -k}
  <1>3. /\ Darts(edges') = D
        /\ org' = [d \in D |-> IF d = k THEN a ELSE IF d = -k THEN b ELSE org[d]]
        /\ next' = [d \in D |-> IF d = k THEN nextLeft
                                ELSE IF d = -k THEN nextRight ELSE old[d]]
    BY <1>2 DEF InsertEdge
  <1>4. EndsAt(n)' = {d \in D : org'[d] = n}
    BY <1>3 DEF EndsAt
  <1>5. /\ org'[k] = a /\ org'[-k] = b
        /\ \A d \in Darts(edges) : org'[d] = org[d]
    BY <1>2, <1>3
  <1>6. EndsAt(n)' = EndsAt(n) \cup (IF n = a THEN {k} ELSE {})
                               \cup (IF n = b THEN {-k} ELSE {})
    BY <1>2, <1>4, <1>5 DEF EndsAt
  <1>7. /\ next'[k] = nextLeft /\ next'[-k] = nextRight
        /\ \A d \in Darts(edges) : next'[d] = old[d]
    BY <1>2, <1>3
  <1> QED  BY <1>2, <1>6, <1>7

LEMMA AddIsoEdgeRotates ==
  ASSUME LinksInv, \A n \in nodes : Rotates(n),
         NEW a \in nodes, NEW b \in nodes, LinksAddIsoEdge(a, b), NEW n \in nodes'
  PROVE  Rotates(n)'
  <1> PICK k : k = lastEdge + 1
    OBVIOUS
  <1>1. /\ InsertEdge(k, a, b, -k, k, next)
        /\ a # b /\ EndsAt(a) = {} /\ EndsAt(b) = {} /\ nodes' = nodes
    BY DEF LinksAddIsoEdge, Lonely
  <1>2. /\ \A d \in Darts(edges) : next'[d] = next[d]
        /\ EndsAt(n)' = EndsAt(n) \cup (IF n = a THEN {k} ELSE {})
                                 \cup (IF n = b THEN {-k} ELSE {})
    BY <1>1, InsertEdgeEnds
  <1>3. CASE n = a
    <2>1. EndsAt(n)' = {k}
      BY <1>1, <1>2, <1>3
    <2> QED  BY <2>1, OrbitOfOne, RotatesNext
  <1>4. CASE n = b
    <2>1. EndsAt(n)' = {-k}
      BY <1>1, <1>2, <1>4
    <2> QED  BY <2>1, OrbitOfOne, RotatesNext
  <1>5. CASE n # a /\ n # b
    <2>1. EndsAt(n)' = EndsAt(n)
      BY <1>2, <1>5
    <2>2. \A d \in EndsAt(n) : next'[-d] = next[-d]
      BY <1>2, TurnFacts
    <2> QED  BY <1>1, <2>1, <2>2, RotatesSame
  <1> QED  BY <1>3, <1>4, <1>5

\* End x of a new edge goes into the corner that p arrives at.
LEMMA RotatesSpliced ==
  ASSUME LinksInv, NEW n, Rotates(n), NEW p \in Corners(n), NEW x, x \notin EndsAt(n),
         EndsAt(n)' = EndsAt(n) \cup {x},
         next'[p] = x, next'[-x] = next[p],
         \A d \in Darts(edges) \ {p} : -d \in EndsAt(n) => next'[d] = next[d]
  PROVE  Rotates(n)'
  <1> DEFINE E == EndsAt(n)
             T == Rotation(n)
             F == E \cup {x}
             U == [d \in F |-> next'[-d]]
  <1>1. p \in Darts(edges) /\ -p \in E /\ -(-p) = p
    BY DartFacts DEF Corners, EndsAt, LinksInv
  <1>2. \A d \in E : T[d] \in E
    BY TurnFacts
  <1>3. U[-p] = x /\ U[x] = T[-p]
    BY <1>1, TurnFacts
  <1>4. ASSUME NEW d \in E \ {-p}
        PROVE  U[d] = T[d]
    <2>1. -d \in Darts(edges) /\ -(-d) = d /\ T[d] = next[-d]
      BY TurnFacts
    <2> QED  BY <2>1
  <1>5. OneOrbit(E, T)
    BY DEF Rotates
  <1> HIDE DEF E, T, U
  <1>6. OneOrbit(E \cup {x}, U)
    BY <1>1, <1>2, <1>3, <1>4, <1>5, OrbitSpliced DEF E
  <1> QED  BY <1>6, RotatesNext DEF E, U

\* Ends x and y of a new edge go into corners of one node, or one after the
\* other into the same: y after c in the round that has x already.
LEMMA RotatesSplicedTwice ==
  ASSUME LinksInv, NEW n, Rotates(n), NEW p \in Corners(n),
         NEW x, NEW y, x \notin EndsAt(n), y \notin EndsAt(n), x # y,
         EndsAt(n)' = (EndsAt(n) \cup {x}) \cup {y},
         next'[p] = x,
         \/ /\ next'[-x] = y /\ next'[-y] = next[p]
            /\ \A d \in Darts(edges) \ {p} : next'[d] = next[d]
         \/ \E q \in Corners(n) \ {p} :
              /\ next'[-x] = next[p]
              /\ next'[q] = y /\ next'[-y] = next[q]
              /\ \A d \in Darts(edges) \ {p, q} : next'[d] = next[d]
  PROVE  Rotates(n)'
  <1> DEFINE E == EndsAt(n)
             T == Rotation(n)
             G == E \cup {x}
             V == [d \in G |-> IF d = -p THEN x ELSE IF d = x THEN T[-p] ELSE T[d]]
             F == G \cup {y}
             U == [d \in F |-> next'[-d]]
  <1>1. /\ p \in Darts(edges) /\ -p \in E /\ -(-p) = p
        /\ \A q \in Corners(n) : /\ q \in Darts(edges) /\ -q \in E
                                 /\ -(-q) = q
    BY DartFacts DEF Corners, EndsAt, LinksInv
  <1>2. \A d \in E : /\ -d \in Darts(edges) /\ -(-d) = d
                     /\ T[d] = next[-d] /\ T[d] \in E
    BY TurnFacts
  <1>3. OneOrbit(E, T)
    BY DEF Rotates
  <1>4. \A d \in F : U[d] = next'[-d]
    OBVIOUS
  <1>5. /\ V[-p] = x /\ V[x] = T[-p] /\ \A d \in E \ {-p} : V[d] = T[d]
        /\ \A d \in G : V[d] \in G
    BY <1>1, <1>2
  <1> HIDE DEF E, T, U, V
  <1>6. OneOrbit(G, V)
    BY <1>1, <1>2, <1>3, <1>5, OrbitSpliced DEF E
  <1>7. y \notin G
    BY DEF E
  <1> DEFINE Fits(c) == /\ c \in G /\ U[c] = y /\ U[y] = V[c]
                        /\ \A d \in G \ {c} : U[d] = V[d]
  <1>8. \E c : Fits(c)
    <2>1. CASE /\ next'[-x] = y /\ next'[-y] = next[p]
               /\ \A d \in Darts(edges) \ {p} : next'[d] = next[d]
      <3>1. \A d \in E \ {-p} : U[d] = T[d]
        BY <1>2, <1>4, <2>1
      <3>2. U[-p] = x /\ U[x] = y /\ U[y] = T[-p]
        BY <1>1, <1>2, <1>4, <2>1
      <3>3. Fits(x)
        BY <1>5, <3>1, <3>2
      <3> QED  BY <3>3
    <2>2. ASSUME NEW q \in Corners(n) \ {p},
                 next'[-x] = next[p], next'[q] = y, next'[-y] = next[q],
                 \A d \in Darts(edges) \ {p, q} : next'[d] = next[d]
          PROVE  Fits(-q)
      <3>1. q \in Darts(edges) /\ -q \in E /\ -(-q) = q /\ -q # -p
        BY <1>1, <2>2
      <3>2. \A d \in E \ {-p, -q} : U[d] = T[d]
        BY <1>2, <1>4, <2>2
      <3>3. U[-p] = x /\ U[x] = T[-p] /\ U[-q] = y /\ U[y] = T[-q]
        BY <1>1, <1>2, <1>4, <2>2, <3>1
      <3>4. V[-q] = T[-q] /\ -q \in G
        BY <1>5, <3>1
      <3> QED  BY <1>5, <3>2, <3>3, <3>4
    <2> QED  BY <2>1, <2>2
  <1>9. OneOrbit(F, U)
    <2> PICK c : Fits(c)
      BY <1>8
    <2> HIDE DEF G
    <2> QED  BY <1>5, <1>6, <1>7, OrbitSpliced
  <1> QED  BY <1>9, RotatesNext DEF E, U

\* The successors around the new edge k, in each case of its ends' neighbours.
AddedInto(k, a, b) ==
  \/ /\ Lonely(a) /\ Lonely(b)
     /\ a = b => next'[k] = k /\ next'[-k] = -k
     /\ \A d \in Darts(edges) : next'[d] = next[d]
  \/ \E q \in Corners(b) :
       /\ a # b /\ Lonely(a)
       /\ next'[q] = -k /\ next'[k] = next[q]
       /\ \A d \in Darts(edges) \ {q} : next'[d] = next[d]
  \/ \E c \in Corners(a) :
       /\ a # b /\ Lonely(b)
       /\ next'[c] = k /\ next'[-k] = next[c]
       /\ \A d \in Darts(edges) \ {c} : next'[d] = next[d]
  \/ \E c \in Corners(a), q \in Corners(b) :
       /\ c # q
       /\ next'[c] = k /\ next'[-k] = next[c]
       /\ next'[q] = -k /\ next'[k] = next[q]
       /\ \A d \in Darts(edges) \ {c, q} : next'[d] = next[d]
  \/ \E c \in Corners(a) :
       /\ a = b
       /\ next'[c] = k /\ next'[-k] = -k /\ next'[k] = next[c]
       /\ \A d \in Darts(edges) \ {c} : next'[d] = next[d]
  \/ \E c \in Corners(a) :
       /\ a = b
       /\ next'[c] = -k /\ next'[k] = k /\ next'[-k] = next[c]
       /\ \A d \in Darts(edges) \ {c} : next'[d] = next[d]

LEMMA AddEdgeEffect ==
  ASSUME LinksInv, NEW a \in nodes, NEW b \in nodes,
         NEW p \in AdjacentPairs(a, b), LinksAddEdge(a, b, p[1], p[2]),
         NEW k, k = lastEdge + 1
  PROVE  /\ AddedInto(k, a, b)
         /\ nodes' = nodes /\ k \notin Darts(edges) /\ -k \notin Darts(edges)
         /\ k # -k /\ -(-k) = k
         /\ \A n : EndsAt(n)' = EndsAt(n) \cup (IF n = a THEN {k} ELSE {})
                                          \cup (IF n = b THEN {-k} ELSE {})
  <1> PICK s, t : s = p[1] /\ t = p[2]
    OBVIOUS
  <1> DEFINE toItself == IF a = b THEN k ELSE -k
             nextRight == IF s.cw # 0 THEN s.cw ELSE -toItself
             nextLeft == IF t.cw # 0 THEN t.cw ELSE toItself
             relinked == [d \in Darts(edges) |->
                            IF d = -t.ccw THEN -k ELSE IF d = -s.ccw THEN k
                            ELSE next[d]]
  <1>1. InsertEdge(k, a, b, nextLeft, nextRight, relinked) /\ nodes' = nodes
    BY DEF LinksAddEdge
  <1>2. /\ k \notin Darts(edges) /\ -k \notin Darts(edges)
        /\ k # -k /\ -(-k) = k
        /\ next'[k] = nextLeft /\ next'[-k] = nextRight
        /\ \A d \in Darts(edges) : next'[d] = relinked[d]
    <2> HIDE DEF nextLeft, nextRight, relinked
    <2> QED  BY <1>1, InsertEdgeEnds
  <1>3. \A n : EndsAt(n)' = EndsAt(n) \cup (IF n = a THEN {k} ELSE {})
                                      \cup (IF n = b THEN {-k} ELSE {})
    <2> HIDE DEF nextLeft, nextRight, relinked
    <2> QED  BY <1>1, InsertEdgeEnds
  <1>4. \A d \in Darts(edges) :
          /\ next[d] # 0 /\ -d # 0 /\ -(-d) = d /\ -0 \notin Darts(edges)
    BY LinkFacts, DartFacts DEF LinksInv
  <1>5. \A n : \A c \in Corners(n) : c \in Darts(edges)
    BY DEF Corners
  <1>6. \A d \in Darts(edges) : next'[d] = IF d = -t.ccw THEN -k
                                         ELSE IF d = -s.ccw THEN k ELSE next[d]
    BY <1>2
  <1>7. /\ next'[k] = IF t.cw # 0 THEN t.cw ELSE IF a = b THEN k ELSE -k
        /\ next'[-k] = IF s.cw # 0 THEN s.cw ELSE IF a = b THEN -k ELSE k
    BY <1>2
  <1> HIDE DEF nextLeft, nextRight, relinked
  <1>8. CASE s = NoEnd /\ t = NoEnd /\ Lonely(a) /\ Lonely(b)
    <2>1. AddedInto(k, a, b)
      BY <1>4, <1>6, <1>7, <1>8 DEF AddedInto, NoEnd
    <2> QED  BY <2>1, <1>1, <1>2, <1>3
  <1>9. CASE /\ a # b /\ s = NoEnd /\ Lonely(a)
             /\ \E q \in Corners(b) : t = InCorner(q)
    <2> PICK q \in Corners(b) : t = InCorner(q)
      BY <1>9
    <2>1. /\ next'[q] = -k /\ next'[k] = next[q]
          /\ \A d \in Darts(edges) \ {q} : next'[d] = next[d]
      BY <1>4, <1>5, <1>6, <1>7, <1>9 DEF InCorner, NoEnd
    <2>2. AddedInto(k, a, b)
      BY <1>9, <2>1 DEF AddedInto
    <2> QED  BY <2>2, <1>1, <1>2, <1>3
  <1>10. CASE /\ a # b /\ t = NoEnd /\ Lonely(b)
              /\ \E c \in Corners(a) : s = InCorner(c)
    <2> PICK c \in Corners(a) : s = InCorner(c)
      BY <1>10
    <2>1. /\ next'[c] = k /\ next'[-k] = next[c]
          /\ \A d \in Darts(edges) \ {c} : next'[d] = next[d]
      BY <1>4, <1>5, <1>6, <1>7, <1>10 DEF InCorner, NoEnd
    <2>2. AddedInto(k, a, b)
      BY <1>10, <2>1 DEF AddedInto
    <2> QED  BY <2>2, <1>1, <1>2, <1>3
  <1>11. CASE \E c \in Corners(a), q \in Corners(b) :
                c # q /\ s = InCorner(c) /\ t = InCorner(q)
    <2> PICK c \in Corners(a), q \in Corners(b) :
          c # q /\ s = InCorner(c) /\ t = InCorner(q)
      BY <1>11
    <2>1. /\ next'[c] = k /\ next'[-k] = next[c]
          /\ next'[q] = -k /\ next'[k] = next[q]
          /\ \A d \in Darts(edges) \ {c, q} : next'[d] = next[d]
      BY <1>4, <1>5, <1>6, <1>7 DEF InCorner
    <2>2. AddedInto(k, a, b)
      BY <2>1 DEF AddedInto
    <2> QED  BY <2>2, <1>1, <1>2, <1>3
  <1>12. CASE a = b /\ \E c \in Corners(a) : s = CcwOnly(c) /\ t = CwOnly(c)
    <2> PICK c \in Corners(a) : s = CcwOnly(c) /\ t = CwOnly(c)
      BY <1>12
    <2>1. /\ next'[c] = k /\ next'[-k] = -k /\ next'[k] = next[c]
          /\ \A d \in Darts(edges) \ {c} : next'[d] = next[d]
      BY <1>4, <1>5, <1>6, <1>7, <1>12 DEF CcwOnly, CwOnly
    <2>2. AddedInto(k, a, b)
      BY <1>12, <2>1 DEF AddedInto
    <2> QED  BY <2>2, <1>1, <1>2, <1>3
  <1>13. CASE a = b /\ \E c \in Corners(a) : s = CwOnly(c) /\ t = CcwOnly(c)
    <2> PICK c \in Corners(a) : s = CwOnly(c) /\ t = CcwOnly(c)
      BY <1>13
    <2>1. /\ next'[c] = -k /\ next'[k] = k /\ next'[-k] = next[c]
          /\ \A d \in Darts(edges) \ {c} : next'[d] = next[d]
      BY <1>4, <1>5, <1>6, <1>7, <1>13 DEF CcwOnly, CwOnly
    <2>2. AddedInto(k, a, b)
      BY <1>13, <2>1 DEF AddedInto
    <2> QED  BY <2>2, <1>1, <1>2, <1>3
  <1> QED  BY PairCases, <1>8, <1>9, <1>10, <1>11, <1>12, <1>13

\* The ends of the new edge are put into the rounds of its nodes: between the
\* ends of a corner, or as the first ends of a lonely node.
LEMMA AddEdgeRotates ==
  ASSUME LinksInv, \A n \in nodes : Rotates(n),
         NEW a \in nodes, NEW b \in nodes,
         NEW p \in AdjacentPairs(a, b), LinksAddEdge(a, b, p[1], p[2]), NEW n \in nodes'
  PROVE  Rotates(n)'
  <1> PICK k : k = lastEdge + 1
    OBVIOUS
  <1>1. /\ AddedInto(k, a, b)
        /\ nodes' = nodes /\ k \notin Darts(edges) /\ -k \notin Darts(edges)
        /\ k # -k /\ -(-k) = k
        /\ EndsAt(n)' = EndsAt(n) \cup (IF n = a THEN {k} ELSE {})
                                 \cup (IF n = b THEN {-k} ELSE {})
    BY AddEdgeEffect
  <1>2. /\ Rotates(n) /\ EndsAt(n) \subseteq Darts(edges)
        /\ \A d \in EndsAt(n) : -d \in Darts(edges) /\ -(-d) = d
    BY <1>1, TurnFacts
  <1>3. \A m : \A c \in Corners(m) : c \in Darts(edges) /\ -c \in EndsAt(m)
    BY DartFacts DEF Corners, EndsAt, LinksInv
  <1>4. \A m : m # n => EndsAt(m) \cap EndsAt(n) = {}
    BY DEF EndsAt
  <1>5. \A m : \A c \in Corners(m) : m # n => -c \notin EndsAt(n)
    BY <1>3, <1>4
  <1>6. k \notin EndsAt(n) /\ -k \notin EndsAt(n)
    BY <1>1, <1>2
  <1>7. CASE n # a /\ n # b
    <2>1. \A d \in EndsAt(n) : next'[-d] = next[-d]
      BY <1>1, <1>2, <1>5, <1>7 DEF AddedInto
    <2> QED  BY <1>1, <1>2, <1>7, <2>1, RotatesSame
  <1>8. CASE n = a /\ a # b
    <2>1. EndsAt(n)' = EndsAt(n) \cup {k}
      BY <1>1, <1>8
    <2>2. CASE Lonely(a)
      <3>1. EndsAt(n)' = {k}
        BY <1>8, <2>1, <2>2 DEF Lonely
      <3> QED  BY <3>1, OrbitOfOne, RotatesNext
    <2>3. CASE ~Lonely(a)
      <3>1. PICK c \in Corners(n) : 
              /\ next'[c] = k /\ next'[-k] = next[c]
              /\ \A d \in Darts(edges) \ {c} : -d \in EndsAt(n) => next'[d] = next[d]
        BY <1>1, <1>5, <1>8, <2>3 DEF AddedInto
      <3> QED  BY <1>2, <1>6, <2>1, <3>1, RotatesSpliced
    <2> QED  BY <2>2, <2>3
  <1>9. CASE n = b /\ a # b
    <2>1. EndsAt(n)' = EndsAt(n) \cup {-k}
      BY <1>1, <1>9
    <2>2. CASE Lonely(b)
      <3>1. EndsAt(n)' = {-k}
        BY <1>9, <2>1, <2>2 DEF Lonely
      <3> QED  BY <3>1, OrbitOfOne, RotatesNext
    <2>3. CASE ~Lonely(b)
      <3>1. PICK q \in Corners(n) : 
              /\ next'[q] = -k /\ next'[-(-k)] = next[q]
              /\ \A d \in Darts(edges) \ {q} : -d \in EndsAt(n) => next'[d] = next[d]
        BY <1>1, <1>5, <1>9, <2>3 DEF AddedInto
      <3> QED  BY <1>2, <1>6, <2>1, <3>1, RotatesSpliced
    <2> QED  BY <2>2, <2>3
  <1>10. CASE n = a /\ a = b
    <2>1. EndsAt(n)' = (EndsAt(n) \cup {k}) \cup {-k}
      BY <1>1, <1>10
    <2>2. CASE Lonely(a)
      <3>1. EndsAt(n)' = {k, -k}
        BY <1>10, <2>1, <2>2 DEF Lonely
      <3>2. Corners(a) = {}
        BY <1>3, <2>2 DEF Lonely
      <3>3. next'[k] = k /\ next'[-k] = -k
        BY <1>1, <1>10, <3>2 DEF AddedInto
      <3> DEFINE U == [d \in {k, -k} |-> next'[-d]]
      <3>4. U[k] = -k /\ U[-k] = k
        BY <1>1, <3>3
      <3>5. OneOrbit({k, -k}, U)
        BY <3>4, OrbitOfTwo
      <3> QED  BY <3>1, <3>5, RotatesNext
    <2>3. ASSUME NEW c \in Corners(n), NEW q \in Corners(n), c # q,
                 next'[c] = k, next'[-k] = next[c], next'[q] = -k, next'[k] = next[q],
                 \A d \in Darts(edges) \ {c, q} : next'[d] = next[d]
          PROVE  Rotates(n)'
      BY <1>1, <1>2, <1>6, <2>1, <2>3, RotatesSplicedTwice
    <2>4. ASSUME NEW c \in Corners(n),
                 next'[c] = k, next'[-k] = -k, next'[k] = next[c],
                 \A d \in Darts(edges) \ {c} : next'[d] = next[d]
          PROVE  Rotates(n)'
      BY <1>1, <1>2, <1>6, <2>1, <2>4, RotatesSplicedTwice
    <2>5. ASSUME NEW c \in Corners(n),
                 next'[c] = -k, next'[k] = k, next'[-k] = next[c],
                 \A d \in Darts(edges) \ {c} : next'[d] = next[d]
          PROVE  Rotates(n)'
      BY <1>1, <1>2, <1>6, <2>1, <2>5, RotatesSplicedTwice
    <2> QED  BY <1>1, <1>10, <2>2, <2>3, <2>4, <2>5 DEF AddedInto
  <1> QED  BY <1>7, <1>8, <1>9, <1>10

-----------------------------------------------------------------------------
(* The invariant *)

\* The rotations are inductive with the links: that a turn stays at its node
\* is EndsMeet, and that a taken out end leaves one round is OnePredecessor.
RotationInv == LinksInv /\ OneRotation

LEMMA InitRotation == LinksInit => OneRotation
  BY DEF LinksInit, OneRotation, EndsAt, Darts

LEMMA NextRotation == RotationInv /\ [LinksNext]_links => RotationInv'
  <1> SUFFICES ASSUME LinksInv, OneRotation, [LinksNext]_links
               PROVE  OneRotation'
    BY NextLinks DEF RotationInv
  <1> \A n \in nodes : Rotates(n)
    BY RotationIsOrbit
  <1> SUFFICES ASSUME NEW n \in nodes'
               PROVE  Rotates(n)'
    BY RotationIsOrbitNext
  <1>1. CASE LinksAddIsoNode
    BY <1>1, AddIsoNodeRotates
  <1>2. CASE \E m \in nodes : LinksRemoveIsoNode(m)
    BY <1>2, RemoveIsoNodeRotates
  <1>3. CASE \E a, b \in nodes : LinksAddIsoEdge(a, b)
    BY <1>3, AddIsoEdgeRotates
  <1>4. CASE \E a, b \in nodes : \E p \in AdjacentPairs(a, b) :
               LinksAddEdge(a, b, p[1], p[2])
    BY <1>4, AddEdgeRotates
  <1>5. CASE \E e \in edges : LinksRemEdge(e)
    BY <1>5, RemEdgeRotates
  <1>6. CASE \E e \in edges : LinksRemIsoEdge(e)
    BY <1>6, RemIsoEdgeRotates
  <1>7. CASE \E e \in edges : LinksModEdgeSplit(e)
    BY <1>7, ModEdgeSplitRotates
  <1>8. CASE \E e1, e2 \in edges : LinksModEdgeHeal(e1, e2)
    BY <1>8, ModEdgeHealStep, HealRotates
  <1>9. CASE \E e1, e2 \in edges : LinksNewEdgeHeal(e1, e2)
    BY <1>9, NewEdgeHealStep, HealRotates
  <1>10. CASE \E e \in edges : NoRightReference(e) /\ LinksNewEdgesSplit(e)
    BY <1>10, NewEdgesSplitRotates
  <1>11. CASE UNCHANGED links
    <2>1. EndsAt(n)' = EndsAt(n) /\ next' = next /\ n \in nodes
      BY <1>11 DEF links, EndsAt
    <2> QED  BY <2>1, RotatesSame
  <1> QED
    BY <1>1, <1>2, <1>3, <1>4, <1>5, <1>6, <1>7, <1>8, <1>9, <1>10, <1>11
    DEF LinksNext, LinksNextButSplit

\* Whatever the calls, turning from edge end to edge end around a node comes
\* past all of them before it repeats, so that _lwt_FindAdjacentEdges finds
\* the corner of a new edge in one turn and the ring of a face misses no side
\* (LinksNewEdgesSplit included when no next_right refers to the edge it replaces).
THEOREM RotationCorrect == LinksSpec => []OneRotation
  <1>1. LinksInit => RotationInv
    BY InitLinks, InitRotation DEF RotationInv
  <1>2. RotationInv => OneRotation
    BY DEF RotationInv
  <1> QED  BY <1>1, <1>2, NextRotation, PTL DEF LinksSpec

=============================================================================
