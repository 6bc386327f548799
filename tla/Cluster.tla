------------------------------ MODULE Cluster ------------------------------
(***************************************************************************)
(* The three clusterings of lwgeom_geos_cluster.c: by intersection, within *)
(* a distance, and DBSCAN.  Each goes through the geometries in the order  *)
(* of the input; the candidates of a geometry come from the index in any   *)
(* order; a candidate is looked up in the union-find, measured, joined or  *)
(* set aside.  The sets are then emitted: as collections, or as numbers.   *)
(***************************************************************************)
EXTENDS UnionFind, Sequences

CONSTANTS
    Scenes,         \* what the predicates answer, see SceneOK
    MinPoints       \* the values of min_points that are tried

\* Pairs are sets of two geometries: those within eps (or intersecting), those
\* whose boxes only are close, and those whose measurement reports an error.
SceneOK(s) ==
    LET pairs == {{i, j} : i, j \in Elements \ s.empty}
    IN  /\ s.empty \subseteq Elements
        /\ s.near \subseteq pairs /\ s.boxes \subseteq pairs /\ s.fails \subseteq pairs

ASSUME SceneAssumption ==
    /\ MinPoints \subseteq Nat
    /\ \A s \in Scenes : SceneOK(s)

VARIABLES
    scene, mode, minPoints,                 \* the call
    phase,                                  \* scan, emit, done or failed
    success,
    p,                                      \* the geometry whose turn it is
    todo,                                   \* cxt: its candidates not yet visited
    neighbors,                              \* neighbors it was found to have so far
    pending,                                \* those of them still to be joined
    isInCore, inACluster,
    rest,                                   \* emission: geometries still to come,
    current, collections,                   \* the open collection, the finished ones,
    ids, lastOldId                          \* the numbers given, the last set numbered

call == <<scene, mode, minPoints>>
scan == <<p, todo, neighbors, pending, isInCore, inACluster>>
emission == <<rest, current, collections, ids, lastOldId>>
vars == <<call, uf, phase, success, scan, emission>>

\* As many geometries as uf has elements.
Geoms == Elements
RootOf(i) == Root(clusters, i)

Near(i, j) == i = j \/ {i, j} \in scene.near
Fails(i, j) == {i, j} \in scene.fails

\* dbscan_update_context, and the query of the intersecting case: whatever is
\* near comes back, with others; an empty geometry is never found.
Candidates(i) ==
    {j \in Geoms \ scene.empty : i = j \/ {i, j} \in scene.near \cup scene.boxes \cup scene.fails}

Dbscan == mode = "dbscan" /\ minPoints > 1     \* union_dbscan_general

\* Too few inputs to look at any.
Bails == IF Dbscan THEN N <= minPoints ELSE N <= 1

Init ==
    /\ scene \in Scenes /\ minPoints \in MinPoints
    /\ mode \in {"intersecting", "distance", "dbscan"}
    /\ mode # "dbscan" => minPoints = 1
    /\ UFInit
    /\ phase = "scan" /\ success = TRUE
    /\ p = -1 /\ todo = {} /\ neighbors = <<>> /\ pending = <<>>
    /\ isInCore = {}
    /\ inACluster = IF Dbscan THEN {} ELSE Geoms
    /\ rest = Geoms /\ current = {} /\ collections = <<>>
    /\ ids = [i \in Geoms |-> -1] /\ lastOldId = -1

-----------------------------------------------------------------------------
(***************************************************************************)
(* The outer loop.                                                         *)
(***************************************************************************)
Skips(i) == i \in scene.empty \/ (Dbscan /\ Cardinality(Candidates(i)) < minPoints)

Advance ==
    /\ phase = "scan" /\ ~Bails
    /\ todo = {} /\ pending = <<>> /\ p < N - 1
    /\ p' = p + 1
    /\ todo' = IF Skips(p + 1) THEN {} ELSE Candidates(p + 1)
    /\ neighbors' = <<>>
    /\ UNCHANGED <<call, uf, phase, success, pending, isInCore, inACluster, emission>>

\* UF_ordered_by_cluster points every element at its root before it sorts.
EndScan ==
    /\ phase = "scan"
    /\ Bails \/ (todo = {} /\ pending = <<>> /\ p = N - 1)
    /\ IF success
       THEN /\ phase' = "emit"
            /\ clusters' = [i \in Geoms |-> RootOf(i)]
       ELSE phase' = "failed" /\ UNCHANGED clusters
    /\ UNCHANGED <<call, clusterSizes, numClusters, success, scan, emission>>

\* A measurement failed: the candidates that follow are not visited.  DBSCAN
\* for one point goes on with the next geometry and reports the failure at the
\* end; the others stop at once.
Fail ==
    /\ success' = FALSE
    /\ todo' = {}
    /\ phase' = IF mode = "intersecting" \/ Dbscan THEN "failed" ELSE phase

-----------------------------------------------------------------------------
(***************************************************************************)
(* union_intersecting_pairs and union_dbscan_minpoints_1: whatever is near *)
(* is joined; two geometries of one set are not measured.                  *)
(***************************************************************************)
JoinIfNear(q) ==
    /\ IF RootOf(p) # RootOf(q) /\ Fails(p, q)
       THEN Fail
       ELSE todo' = todo \ {q} /\ UNCHANGED <<phase, success>>
    /\ IF RootOf(p) # RootOf(q) /\ Near(p, q) /\ ~Fails(p, q)
       THEN Union(p, q)
       ELSE clusters' = Found(p, q) /\ UNCHANGED <<clusterSizes, numClusters>>

VisitIntersecting(q) ==
    /\ mode = "intersecting" /\ phase = "scan" /\ q \in todo
    /\ \/ q = p /\ todo' = todo \ {q} /\ UNCHANGED <<uf, phase, success>>
       \/ q # p /\ JoinIfNear(q)
    /\ UNCHANGED <<call, p, neighbors, pending, isInCore, inACluster, emission>>

VisitWithin(q) ==
    /\ mode # "intersecting" /\ ~Dbscan /\ phase = "scan" /\ q \in todo
    /\ JoinIfNear(q)
    /\ UNCHANGED <<call, p, neighbors, pending, isInCore, inACluster, emission>>

-----------------------------------------------------------------------------
(***************************************************************************)
(* union_dbscan_general.                                                   *)
(***************************************************************************)
\* Defect: the geometries on the border of another set are joined as well.
JoinAlways(q) == Union(p, q) /\ inACluster' = inACluster \cup {q}

\* union_if_available: a border geometry stays with the set it was first in.
JoinIfAvailable(q) ==
    IF q \in inACluster /\ q \notin isInCore
    THEN UNCHANGED <<uf, inACluster>>
    ELSE Union(p, q) /\ inACluster' = inACluster \cup {q}

\* Defect: nothing is thought to be learnt of a member of any cluster.
SettledAnyCluster(q) == RootOf(p) = RootOf(q) \/ q \in inACluster

\* Nothing is to be learnt of q: it is in the set of p, or on another's border.
Settled(q) == RootOf(p) = RootOf(q) \/ (q \in inACluster /\ q \notin isInCore)

VisitSettled(q) ==
    /\ Dbscan /\ phase = "scan" /\ pending = <<>> /\ q \in todo
    /\ Len(neighbors) >= minPoints /\ Settled(q)
    /\ clusters' = Found(p, q)
    /\ todo' = todo \ {q}
    /\ UNCHANGED <<call, clusterSizes, numClusters, phase, success,
                   p, neighbors, pending, isInCore, inACluster, emission>>

\* Defect: the core geometry is not noted as belonging to a cluster.
SetAsideNotInCluster(q) ==
    /\ Len(neighbors) < minPoints
    /\ neighbors' = Append(neighbors, q)
    /\ IF Len(neighbors') = minPoints
       THEN isInCore' = isInCore \cup {p} /\ pending' = neighbors' /\ UNCHANGED inACluster
       ELSE UNCHANGED <<isInCore, inACluster, pending>>
    /\ UNCHANGED uf

\* A neighbor is counted while p is not known to be in a core; the one that
\* completes the count makes it so, and all that were set aside are joined.
SetAside(q) ==
    /\ Len(neighbors) < minPoints
    /\ neighbors' = Append(neighbors, q)
    /\ IF Len(neighbors') = minPoints
       THEN /\ isInCore' = isInCore \cup {p}
            /\ inACluster' = inACluster \cup {p}
            /\ pending' = neighbors'
       ELSE UNCHANGED <<isInCore, inACluster, pending>>
    /\ UNCHANGED uf

JoinAtOnce(q) ==
    /\ Len(neighbors) >= minPoints
    /\ JoinIfAvailable(q)
    /\ UNCHANGED <<neighbors, pending, isInCore>>

TooFar(q) ==
    /\ IF Len(neighbors) >= minPoints THEN clusters' = Found(p, q) ELSE UNCHANGED clusters
    /\ UNCHANGED <<clusterSizes, numClusters, neighbors, pending, isInCore, inACluster>>

Measure(q) ==
    /\ Dbscan /\ phase = "scan" /\ pending = <<>> /\ q \in todo
    /\ ~(Len(neighbors) >= minPoints /\ Settled(q))
    /\ \/ Fails(p, q) /\ Fail /\ TooFar(q)
       \/ /\ ~Fails(p, q)
          /\ todo' = todo \ {q} /\ UNCHANGED <<phase, success>>
          /\ \/ Near(p, q) /\ (SetAside(q) \/ JoinAtOnce(q))
             \/ ~Near(p, q) /\ TooFar(q)
    /\ UNCHANGED <<call, p, emission>>

JoinPending ==
    /\ pending # <<>>
    /\ JoinIfAvailable(Head(pending))
    /\ pending' = Tail(pending)
    /\ UNCHANGED <<call, phase, success, p, todo, neighbors, isInCore, emission>>

-----------------------------------------------------------------------------
(***************************************************************************)
(* Emission goes through the geometries set by set, in the order of the    *)
(* roots.  Within a set the comparison of the sort is of the addresses it  *)
(* is given, so that the order is the library's: any.                      *)
(***************************************************************************)
FirstOfRest == {i \in rest : \A j \in rest : clusters[i] <= clusters[j]}

\* Defect: the geometries are compared instead of their roots.
LastOfGeom(i) == \A j \in rest \ {i} : j # i

LastOfSet(i) == \A j \in rest \ {i} : clusters[j] # clusters[i]

\* Defect: the open collection is not emptied when it has been emitted.
CollectNotReset(i) ==
    /\ phase = "emit" /\ mode # "dbscan" /\ i \in FirstOfRest
    /\ rest' = rest \ {i}
    /\ current' = current \cup {i}
    /\ collections' = IF LastOfSet(i) THEN Append(collections, current') ELSE collections
    /\ phase' = IF rest' = {} THEN "done" ELSE phase
    /\ UNCHANGED <<call, uf, success, scan, ids, lastOldId>>

\* combine_geometries, for the two clusterings that return collections.
Collect(i) ==
    /\ phase = "emit" /\ mode # "dbscan" /\ i \in FirstOfRest
    /\ rest' = rest \ {i}
    /\ \/ /\ ~LastOfSet(i)
          /\ current' = current \cup {i} /\ UNCHANGED <<phase, collections>>
       \/ /\ LastOfSet(i) /\ Len(collections) < numClusters
          /\ collections' = Append(collections, current \cup {i})
          /\ current' = {}
          /\ phase' = IF rest' = {} THEN "done" ELSE phase
       \/ /\ LastOfSet(i) /\ Len(collections) >= numClusters
          /\ phase' = "failed" /\ UNCHANGED <<current, collections>>
    /\ UNCHANGED <<call, uf, success, scan, ids, lastOldId>>

\* UF_get_collapsed_cluster_ids: the sets are numbered 0, 1, ... and those in
\* no cluster keep what the array was allocated with (-1 here).
Assign(i) ==
    /\ phase = "emit" /\ mode = "dbscan" /\ i \in FirstOfRest
    /\ rest' = rest \ {i}
    /\ phase' = IF rest' = {} THEN "done" ELSE phase
    /\ IF i \in inACluster
       THEN LET highest == CHOOSE n \in {ids[j] : j \in Geoms} : \A j \in Geoms : ids[j] <= n
                current_new_id == IF lastOldId = -1 THEN 0 ELSE highest
            IN  /\ ids' = [ids EXCEPT ![i] =
                              IF lastOldId \notin {-1, clusters[i]} THEN current_new_id + 1 ELSE current_new_id]
                /\ lastOldId' = clusters[i]
       ELSE UNCHANGED <<ids, lastOldId>>
    /\ UNCHANGED <<call, uf, success, scan, current, collections>>

Next ==
    \/ Advance
    \/ EndScan
    \/ JoinPending
    \/ \E q \in Geoms :
          \/ VisitIntersecting(q) \/ VisitWithin(q)
          \/ VisitSettled(q) \/ Measure(q)
          \/ Collect(q) \/ Assign(q)

Spec == Init /\ [][Next]_vars

-----------------------------------------------------------------------------
TypeOK ==
    /\ UFTypeOK
    /\ phase \in {"scan", "emit", "done", "failed"} /\ success \in BOOLEAN
    /\ p \in -1 .. N - 1 /\ todo \subseteq Geoms
    /\ neighbors \in Seq(Geoms) /\ pending \in Seq(Geoms)
    /\ isInCore \subseteq inACluster /\ inACluster \subseteq Geoms
    /\ rest \subseteq Geoms /\ current \subseteq Geoms
    /\ collections \in Seq(SUBSET Geoms)
    /\ ids \in [Geoms -> -1 .. N - 1] /\ lastOldId \in -1 .. N - 1

(***************************************************************************)
(* The definition of the clusterings, from the relation alone.             *)
(***************************************************************************)
\* No near pair of G leads out of S, or into it.
Apart(S, G) == \A pair \in scene.near : pair \subseteq G => pair \subseteq S \/ pair \cap S = {}

\* G divided by the near pairs within it: a geometry and those that no set apart has it
\* without.
Chains(G) ==
    LET apart == {S \in SUBSET G : Apart(S, G)}
    IN  {{j \in G : \A S \in apart : i \in S => j \in S} : i \in G}

Neighborhood(i) == {j \in Geoms : Near(i, j)}
Core == {i \in Geoms : Cardinality(Neighborhood(i)) >= minPoints}

\* The collections returned are the chains of near geometries, each once, and
\* fill the array that was allocated for them: only a failed measurement makes
\* a clustering fail, never a full array ("Should not get here").
CollectionsAreChains ==
    /\ TypeOK
    /\ phase = "failed" => scene.fails # {}
    /\ phase = "done" /\ mode # "dbscan" =>
        /\ {collections[k] : k \in DOMAIN collections} = Chains(Geoms)
        /\ Len(collections) = numClusters
        /\ Cardinality({collections[k] : k \in DOMAIN collections}) = numClusters

\* DBSCAN numbers core geometries alike exactly if a chain of core geometries
\* links them, gives a border geometry the number of a core geometry near it,
\* leaves noise without one, and uses the numbers from 0 without a gap.
NumberedByDensity ==
    LET core == Core
        numbered == {i \in Geoms : ids[i] # -1}
    IN  /\ numbered = inACluster
        /\ inACluster = {i \in Geoms : core \cap Neighborhood(i) # {}}
        /\ \A i, j \in core : ids[i] = ids[j] <=> \E C \in Chains(core) : {i, j} \subseteq C
        /\ \A i \in inACluster : \E j \in core \cap Neighborhood(i) : ids[j] = ids[i]
        /\ LET used == {ids[i] : i \in numbered} IN used = 0 .. Cardinality(used) - 1

DbscanCorrect == phase = "done" /\ mode = "dbscan" /\ minPoints # N => NumberedByDensity

=============================================================================
