------------------------------ MODULE TopoLinks ------------------------------
(***************************************************************************)
(* The edge linking of a topology (src/src/liblwgeom/lwgeom_topo.c),       *)
(* without its geometry.                                                   *)
(*                                                                         *)
(* A row of the edge table is a pair of darts: dart e is edge e walked     *)
(* from its start node to its end node, dart -e the same edge walked back. *)
(*   org[e]  = start_node    org[-e]  = end_node                           *)
(*   next[e] = next_left     next[-e] = next_right                         *)
(* so next[d] is the dart that the walk around the face on the left of d   *)
(* takes after d.                                                          *)
(*                                                                         *)
(* Where the code uses azimuths to find the corner a new edge goes into,   *)
(* this module allows every corner of the node; Topo.tla, which computes   *)
(* the azimuths, is shown to implement it.  An operation that fails is no  *)
(* step: the backend rolls the transaction back.                           *)
(***************************************************************************)
EXTENDS Integers, FiniteSets

CONSTANTS
  MaxEdge,    \* bound of the edge identifier sequence of the backend
  MaxNode     \* bound of the node identifier sequence of the backend

ASSUME BoundsAssumption == MaxEdge \in Nat /\ MaxNode \in Nat

VARIABLES
  nodes,      \* identifiers in the node table
  edges,      \* identifiers in the edge table
  org,        \* dart -> node it leaves
  next,       \* dart -> dart that follows it
  lastNode,   \* last identifier drawn from the node sequence
  lastEdge    \* last identifier drawn from the edge sequence

links == <<nodes, edges, org, next, lastNode, lastEdge>>

Darts(E) == E \cup {-e : e \in E}

\* Darts that leave node n: the edge ends found by lwt_be_getEdgeByNode.
EndsAt(n) == {d \in Darts(edges) : org[d] = n}

\* lwt_be_getEdgeByNode finds nothing.
Lonely(n) == EndsAt(n) = {}

-----------------------------------------------------------------------------
(* Nodes *)

LinksAddIsoNode ==
  /\ lastNode < MaxNode
  /\ lastNode' = lastNode + 1
  /\ nodes' = nodes \cup {lastNode + 1}
  /\ UNCHANGED <<edges, org, next, lastEdge>>

LinksRemoveIsoNode(n) ==
  /\ Lonely(n)
  /\ nodes' = nodes \ {n}
  /\ UNCHANGED <<edges, org, next, lastNode, lastEdge>>

-----------------------------------------------------------------------------
(* Adding edges *)

\* Mutation: the successors of the two darts are exchanged.
InsertEdgeCrossed(k, a, b, nextLeft, nextRight, old) ==
  /\ edges' = edges \cup {k}
  /\ org' = [d \in Darts(edges \cup {k}) |->
               IF d = k THEN a ELSE IF d = -k THEN b ELSE org[d]]
  /\ next' = [d \in Darts(edges \cup {k}) |->
                IF d = k THEN nextRight ELSE IF d = -k THEN nextLeft
                ELSE old[d]]

\* Inserts the darts of edge k, from a to b, with the given successors; the
\* successors of the other darts become old.
InsertEdge(k, a, b, nextLeft, nextRight, old) ==
  /\ edges' = edges \cup {k}
  /\ org' = [d \in Darts(edges \cup {k}) |->
               IF d = k THEN a ELSE IF d = -k THEN b ELSE org[d]]
  /\ next' = [d \in Darts(edges \cup {k}) |->
                IF d = k THEN nextLeft ELSE IF d = -k THEN nextRight
                ELSE old[d]]

\* Two lonely nodes of the same face; both sides of the edge go back over it.
LinksAddIsoEdge(a, b) ==
  LET k == lastEdge + 1
  IN  /\ lastEdge < MaxEdge
      /\ a # b /\ Lonely(a) /\ Lonely(b)
      /\ lastEdge' = k
      /\ InsertEdge(k, a, b, -k, k, next)
      /\ UNCHANGED <<nodes, lastNode>>

(* What _lwt_FindAdjacentEdges reports of an edge end: the first dart that *)
(* leaves the node clockwise (cw) and counterclockwise (ccw) of it, 0 when *)
(* there is none.  The end lies in the corner between an incoming dart p   *)
(* and its successor.                                                      *)
NoEnd == [cw |-> 0, ccw |-> 0]

\* Mutation: the counterclockwise neighbour is forgotten, so the row before
\* the new edge keeps its successor.
InCornerCwOnly(p) == [cw |-> next[p], ccw |-> 0]

InCorner(p) == [cw |-> next[p], ccw |-> -p]

Corners(n) == {p \in Darts(edges) : org[-p] = n}

Adjacent(n) == IF Lonely(n) THEN {NoEnd} ELSE {InCorner(p) : p \in Corners(n)}

\* The ends of a closed edge may share a corner: each end then sees the
\* corner's edge only on the side where the other end is not in between.
CwOnly(p) == [cw |-> next[p], ccw |-> 0]

CcwOnly(p) == [cw |-> 0, ccw |-> -p]

\* Mutation: the other end of a closed edge is not looked at.
AdjacentPairsNoOther(a, b) == Adjacent(a) \X Adjacent(b)

AdjacentPairs(a, b) ==
  IF a # b \/ Lonely(a) THEN Adjacent(a) \X Adjacent(b)
  ELSE {x \in Adjacent(a) \X Adjacent(a) : x[1] # x[2]}
       \cup {<<CcwOnly(p), CwOnly(p)>> : p \in Corners(a)}
       \cup {<<CwOnly(p), CcwOnly(p)>> : p \in Corners(a)}

\* A new edge between existing nodes; s and t are its ends' neighbours.
LinksAddEdge(a, b, s, t) ==
  LET k == lastEdge + 1
      toItself == IF a = b THEN k ELSE -k
      nextRight == IF s.cw # 0 THEN s.cw ELSE -toItself
      nextLeft == IF t.cw # 0 THEN t.cw ELSE toItself
      relinked == [d \in Darts(edges) |->
                     IF d = -t.ccw THEN -k ELSE IF d = -s.ccw THEN k
                     ELSE next[d]]
  IN  /\ lastEdge < MaxEdge
      /\ lastEdge' = k
      /\ InsertEdge(k, a, b, nextLeft, nextRight, relinked)
      /\ UNCHANGED <<nodes, lastNode>>

-----------------------------------------------------------------------------
(* Removing edges *)

\* The walk that would enter edge e at one of its ends leaves that end again
\* by the edge's other neighbour there.
Bypass(e, d) ==
  CASE next[d] = -e -> IF next[e] # e THEN next[e] ELSE next[-e]
    [] next[d] = e -> IF next[-e] # -e THEN next[-e] ELSE next[e]
    [] OTHER -> next[d]

LinksRemEdge(e) ==
  LET kept == edges \ {e}
  IN  /\ edges' = kept
      /\ org' = [d \in Darts(kept) |-> org[d]]
      /\ next' = [d \in Darts(kept) |-> 
                    IF {org[d], org[-d]} \cap {org[e], org[-e]} = {}
                    THEN next[d] ELSE Bypass(e, d)]
      /\ UNCHANGED <<nodes, lastNode, lastEdge>>

\* Only an edge with one face around it and no neighbour is removed so.
LinksRemIsoEdge(e) ==
  LET kept == edges \ {e}
  IN  /\ org[e] # org[-e]
      /\ EndsAt(org[e]) = {e} /\ EndsAt(org[-e]) = {-e}
      /\ edges' = kept
      /\ org' = [d \in Darts(kept) |-> org[d]]
      /\ next' = [d \in Darts(kept) |-> next[d]]
      /\ UNCHANGED <<nodes, lastNode, lastEdge>>

-----------------------------------------------------------------------------
(* Splitting an edge at a new node *)

NewNode(n) ==
  /\ lastNode < MaxNode
  /\ n = lastNode + 1
  /\ lastNode' = n
  /\ nodes' = nodes \cup {n}

\* Edge e keeps its identifier as the first part, k is the second.
LinksModEdgeSplit(e) ==
  LET k == lastEdge + 1
      n == lastNode + 1
      oldEnd == org[-e]
      relink(d) == IF next[d] = -e /\ org[-d] = oldEnd THEN -k ELSE next[d]
  IN  /\ lastEdge < MaxEdge /\ lastEdge' = k
      /\ NewNode(n)
      /\ edges' = edges \cup {k}
      /\ org' = [d \in Darts(edges \cup {k}) |->
                   CASE d \in {k, -e} -> n
                     [] d = -k -> oldEnd
                     [] OTHER -> org[d]]
      /\ next' = [d \in Darts(edges \cup {k}) |->
                    CASE d = k -> IF next[e] = -e THEN -k ELSE next[e]
                      [] d = -k -> -e
                      [] d = e -> k
                      [] OTHER -> relink(d)]

\* A reference to the split edge e as the end of m or the start of k.
SplitRef(e, m, k, d) == IF d = e THEN m ELSE IF d = -e THEN -k ELSE d

(* Edge e is replaced by m, up to the new node, and k, from it.  Four      *)
(* updates then select the rows that still point at e, by their side and   *)
(* by the node it arrives at: a next_right that arrived at e's start is    *)
(* set to k, and one that arrived at its end to -m.                        *)
SplitRelinked(e, m, k, d) ==
  CASE d < 0 /\ next[d] = e  /\ org[-d] = org[e]  -> k
    [] d < 0 /\ next[d] = -e /\ org[-d] = org[-e] -> -m
    [] d > 0 /\ next[d] = e  /\ org[-d] = org[e]  -> m
    [] d > 0 /\ next[d] = -e /\ org[-d] = org[-e] -> -k
    [] OTHER -> next[d]

LinksNewEdgesSplit(e) ==
  LET m == lastEdge + 1
      k == lastEdge + 2
      n == lastNode + 1
      all == (edges \ {e}) \cup {m, k}
  IN  /\ lastEdge + 2 <= MaxEdge /\ lastEdge' = k
      /\ NewNode(n)
      /\ edges' = all
      /\ org' = [d \in Darts(all) |->
                   CASE d = m -> org[e]
                     [] d \in {-m, k} -> n
                     [] d = -k -> org[-e]
                     [] OTHER -> org[d]]
      /\ next' = [d \in Darts(all) |->
                    CASE d = m -> k
                      [] d = -m -> SplitRef(e, m, k, next[-e])
                      [] d = k -> SplitRef(e, m, k, next[e])
                      [] d = -k -> -m
                      [] OTHER -> SplitRelinked(e, m, k, d)]

\* No other edge's right side continues over e: the rows that the first two
\* updates of NewEdgesSplit select.
NoRightReference(e) == \A d \in edges \ {e} : next[-d] \notin {e, -e}

-----------------------------------------------------------------------------
(* Healing two edges over the node they share *)

\* Mutation: references to the far end of the path are left alone.
RenamedStartOnly(f, l, k, d) == IF d = f THEN k ELSE d

\* References to the healed edges become references to the new one.
Renamed(f, l, k, d) == IF d = f THEN k ELSE IF d = -l THEN -k ELSE d

\* Darts f and l of different edges that meet where no other edge ends.
Meet(f, l) ==
  /\ org[-f] = org[l]
  /\ EndsAt(org[l]) \subseteq {f, -f, l, -l}

\* The code tries e1's end node first and its start node only after it.
HealPaths(e1, e2) ==
  LET after == {p \in {e1} \X {e2, -e2} : Meet(p[1], p[2])}
      before == {p \in {e2, -e2} \X {e1} : Meet(p[1], p[2])}
  IN  IF after # {} THEN after ELSE before

\* The path f, l becomes edge k.
Heal(f, l, e1, e2, k) ==
  LET kept == (edges \ {e1, e2}) \cup {k}
  IN  /\ nodes' = nodes \ {org[l]}
      /\ edges' = kept
      /\ org' = [d \in Darts(kept) |->
                   IF d = k THEN org[f] ELSE IF d = -k THEN org[-l]
                   ELSE org[d]]
      /\ next' = [d \in Darts(kept) |->
                    Renamed(f, l, k, IF d = k THEN next[l]
                                     ELSE IF d = -k THEN next[-f]
                                     ELSE next[d])]
      /\ UNCHANGED lastNode

Healable(e1, e2) ==
  /\ e1 # e2
  /\ org[e1] # org[-e1]
  /\ org[e2] # org[-e2]

LinksModEdgeHeal(e1, e2) ==
  /\ Healable(e1, e2)
  /\ \E p \in HealPaths(e1, e2) : Heal(p[1], p[2], e1, e2, e1)
  /\ UNCHANGED lastEdge

LinksNewEdgeHeal(e1, e2) ==
  /\ Healable(e1, e2)
  /\ lastEdge < MaxEdge
  /\ lastEdge' = lastEdge + 1
  /\ \E p \in HealPaths(e1, e2) : Heal(p[1], p[2], e1, e2, lastEdge + 1)

-----------------------------------------------------------------------------

\* A topology of isolated nodes.
LinksInit ==
  /\ lastNode \in 0..MaxNode
  /\ nodes = 1..lastNode
  /\ edges = {}
  /\ org = [d \in {} |-> 0]
  /\ next = [d \in {} |-> 0]
  /\ lastEdge = 0

LinksNextButSplit ==
  \/ LinksAddIsoNode
  \/ \E n \in nodes : LinksRemoveIsoNode(n)
  \/ \E a, b \in nodes : LinksAddIsoEdge(a, b)
  \/ \E a, b \in nodes : \E p \in AdjacentPairs(a, b) :
       LinksAddEdge(a, b, p[1], p[2])
  \/ \E e \in edges : LinksRemEdge(e)
  \/ \E e \in edges : LinksRemIsoEdge(e)
  \/ \E e \in edges : LinksModEdgeSplit(e)
  \/ \E e1, e2 \in edges : LinksModEdgeHeal(e1, e2)
  \/ \E e1, e2 \in edges : LinksNewEdgeHeal(e1, e2)

\* The part of NewEdgesSplit that keeps the links: see EndsMeet.
LinksNext ==
  \/ LinksNextButSplit
  \/ \E e \in edges : NoRightReference(e) /\ LinksNewEdgesSplit(e)

\* Every call the API accepts.
LinksNextAll ==
  \/ LinksNextButSplit
  \/ \E e \in edges : LinksNewEdgesSplit(e)

LinksSpec == LinksInit /\ [][LinksNext]_links

LinksSpecAll == LinksInit /\ [][LinksNextAll]_links

-----------------------------------------------------------------------------
(* Properties *)

\* Every dart of the edge table leaves a node of the node table and is
\* followed by a dart of the edge table: no reference dangles after an edge
\* or node was deleted or replaced.
LinksTypeOK ==
  /\ nodes \subseteq 1..lastNode
  /\ edges \subseteq 1..lastEdge
  /\ org \in [Darts(edges) -> nodes]
  /\ next \in [Darts(edges) -> Darts(edges)]
  /\ lastNode \in 0..MaxNode
  /\ lastEdge \in 0..MaxEdge

\* A walk that follows next never jumps: the dart after d leaves from the
\* node where d arrives.
EndsMeet == \A d \in Darts(edges) : org[next[d]] = org[-d]

\* Two darts never have the same successor, so a walk returns to its start
\* and the rings partition the darts.
OnePredecessor ==
  \A c, d \in Darts(edges) : next[c] = next[d] => c = d

LinksOK == EndsMeet /\ OnePredecessor

\* The links turn around each node: crossing from a dart to the one after
\* its reverse visits every edge end of the node before it repeats, so no
\* edge is left out of the rotation that FindAdjacentEdges relies on.
Turn(d) == next[-d]

OneRotation ==
  \A n \in nodes : \A S \in SUBSET EndsAt(n) :
    (S # {} /\ {Turn(d) : d \in S} \subseteq S) => S = EndsAt(n)

\* _lwt_RemEdge collects the rows to update in two arrays of two elements:
\* no edge has more rows than that with next_left, or with next_right, on it.
RemEdgeArraysFit ==
  \A e \in edges :
    /\ Cardinality({d \in edges \ {e} : next[d] \in {e, -e}}) <= 2
    /\ Cardinality({d \in edges \ {e} : next[-d] \in {e, -e}}) <= 2

=============================================================================
