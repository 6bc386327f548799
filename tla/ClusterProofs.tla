--------------------------- MODULE ClusterProofs ---------------------------
(***************************************************************************)
(* The clusterings, for any number of geometries, any relation between     *)
(* them and any order of the candidates: what they return is what their    *)
(* definition says.                                                        *)
(***************************************************************************)
EXTENDS Cluster, FiniteSetTheorems, SequenceTheorems, TLAPS

-----------------------------------------------------------------------------
(***************************************************************************)
(* First the disjoint-set forest the clusterings keep, for any number of   *)
(* elements: its invariant and the proof that it implements a partition    *)
(* whose blocks are only merged.                                           *)
(***************************************************************************)

Pointers == [Elements -> Elements]

(***************************************************************************)
(* What a lookup visits.                                                   *)
(***************************************************************************)
LEMMA VisitedClosed ==
    ASSUME NEW c \in Pointers, NEW i \in Elements
    PROVE  /\ Visited(c, i) \subseteq Elements
           /\ i \in Visited(c, i)
           /\ Closed(c, Visited(c, i))
<1>1. Visited(c, i) \subseteq Elements /\ i \in Visited(c, i)
  BY DEF Visited
<1>2. ASSUME NEW x \in Visited(c, i) PROVE c[x] \in Visited(c, i)
  <2>1. x \in Elements /\ c[x] \in Elements
    BY <1>1 DEF Pointers
  <2>2. ASSUME NEW S \in SUBSET Elements, i \in S, Closed(c, S) PROVE c[x] \in S
    BY <2>2 DEF Visited, Closed
  <2> QED BY <2>1, <2>2 DEF Visited
<1> QED BY <1>1, <1>2 DEF Closed

LEMMA VisitedLeast ==
    ASSUME NEW c, NEW i, NEW S \in SUBSET Elements, i \in S, Closed(c, S)
    PROVE  Visited(c, i) \subseteq S
BY DEF Visited

\* In a forest every lookup ends, at an element that points to itself.
LEMMA RootVisited ==
    ASSUME NEW c \in Pointers, Forest(c), NEW i \in Elements
    PROVE  /\ Root(c, i) \in Visited(c, i)
           /\ Root(c, i) \in Elements
           /\ c[Root(c, i)] = Root(c, i)
<1>1. \E r \in Visited(c, i) : c[r] = r
  BY VisitedClosed DEF Forest
<1> QED BY <1>1, VisitedClosed DEF Root

\* A lookup of i visits i and what a lookup of its parent visits.
LEMMA VisitedStep ==
    ASSUME NEW c \in Pointers, NEW i \in Elements
    PROVE  Visited(c, i) \subseteq {i} \cup Visited(c, c[i])
<1> DEFINE S == {i} \cup Visited(c, c[i])
<1>1. c[i] \in Elements
  BY DEF Pointers
<1>2. S \in SUBSET Elements /\ i \in S
  BY <1>1, VisitedClosed
<1>3. Closed(c, S)
  BY <1>1, VisitedClosed DEF Closed
<1> QED BY <1>2, <1>3, VisitedLeast

(***************************************************************************)
(* Only one of the visited elements is a root: the elements from which two *)
(* can be visited form a closed set without a root.                        *)
(***************************************************************************)
LEMMA OneRoot ==
    ASSUME NEW c \in Pointers, Forest(c), NEW i \in Elements,
           NEW r \in Visited(c, i), c[r] = r, NEW s \in Visited(c, i), c[s] = s
    PROVE  r = s
<1> DEFINE Two == {x \in Elements : r \in Visited(c, x) /\ s \in Visited(c, x)}
<1> SUFFICES ASSUME r # s PROVE FALSE
  OBVIOUS
<1>1. ASSUME NEW x \in Two PROVE c[x] # x /\ c[x] \in Two
  <2>1. CASE c[x] = x
    <3>1. Closed(c, {x}) /\ {x} \in SUBSET Elements
      BY <2>1 DEF Closed
    <3>2. Visited(c, x) \subseteq {x}
      BY <3>1, VisitedLeast
    <3> QED BY <3>2
  <2>2. CASE c[x] # x
    <3>1. c[x] \in Elements /\ Visited(c, x) \subseteq {x} \cup Visited(c, c[x])
      BY VisitedStep DEF Pointers
    <3>2. r # x /\ s # x
      BY <2>2
    <3> QED BY <2>2, <3>1, <3>2
  <2> QED BY <2>1, <2>2
<1>2. i \in Two
  OBVIOUS
<1>3. Closed(c, Two) /\ Two \in SUBSET Elements
  BY <1>1 DEF Closed
<1>4. \E x \in Two : c[x] = x
  BY <1>2, <1>3 DEF Forest
<1> QED BY <1>1, <1>4

\* Every element a lookup visits is in the same set.
LEMMA RootOfVisited ==
    ASSUME NEW c \in Pointers, Forest(c), NEW i \in Elements, NEW x \in Visited(c, i)
    PROVE  Root(c, x) = Root(c, i)
<1>1. x \in Elements /\ Visited(c, i) \in SUBSET Elements /\ Closed(c, Visited(c, i))
  BY VisitedClosed
<1>2. Visited(c, x) \subseteq Visited(c, i)
  BY <1>1, VisitedLeast
<1>3. /\ Root(c, x) \in Visited(c, i) /\ c[Root(c, x)] = Root(c, x)
      /\ Root(c, i) \in Visited(c, i) /\ c[Root(c, i)] = Root(c, i)
  BY <1>1, <1>2, RootVisited
<1> QED BY <1>3, OneRoot

LEMMA RootOfParent ==
    ASSUME NEW c \in Pointers, Forest(c), NEW x \in Elements
    PROVE  Root(c, c[x]) = Root(c, x)
<1>1. c[x] \in Visited(c, x)
  BY VisitedClosed DEF Closed
<1> QED BY <1>1, RootOfVisited

LEMMA RootOfRoot ==
    ASSUME NEW c \in Pointers, Forest(c), NEW r \in Elements, c[r] = r
    PROVE  Root(c, r) = r
<1>1. r \in Visited(c, r)
  BY VisitedClosed
<1> QED BY <1>1, RootVisited, OneRoot

(***************************************************************************)
(* A labelling that is constant along the pointers and is the identity on  *)
(* the roots is what lookups return.                                       *)
(***************************************************************************)
LEMMA RootIsLabel ==
    ASSUME NEW d \in Pointers, Forest(d), NEW label \in Pointers,
           \A x \in Elements : label[d[x]] = label[x],
           \A x \in Elements : d[x] = x => label[x] = x,
           NEW k \in Elements
    PROVE  Root(d, k) = label[k]
<1> DEFINE S == {x \in Elements : label[x] = label[k]}
<1>1. S \in SUBSET Elements /\ k \in S
  OBVIOUS
<1>2. Closed(d, S)
  BY DEF Closed, Pointers
<1>3. Root(d, k) \in S
  BY <1>1, <1>2, VisitedLeast, RootVisited
<1>4. label[Root(d, k)] = Root(d, k)
  BY RootVisited
<1> QED BY <1>3, <1>4

(***************************************************************************)
(* Path compression.                                                       *)
(***************************************************************************)
LEMMA CompressedPointers ==
    ASSUME NEW c \in Pointers, Forest(c), NEW i \in Elements
    PROVE  Compressed(c, i) \in Pointers
BY RootVisited DEF Compressed, Pointers

\* What one element of the compressed forest points to.
LEMMA CompressedAt ==
    ASSUME NEW c \in Pointers, NEW i \in Elements, NEW x \in Elements
    PROVE  /\ x \in Visited(c, i) => Compressed(c, i)[x] = Root(c, i)
           /\ x \notin Visited(c, i) => Compressed(c, i)[x] = c[x]
BY DEF Compressed

LEMMA CompressedForest ==
    ASSUME NEW c \in Pointers, Forest(c), NEW i \in Elements
    PROVE  Forest(Compressed(c, i))
<1> DEFINE d == Compressed(c, i)
           V == Visited(c, i)
           root == Root(c, i)
<1>1. root \in V /\ root \in Elements /\ d[root] = root
  BY RootVisited, CompressedAt
<1> SUFFICES ASSUME NEW S \in SUBSET Elements, S # {}, Closed(d, S)
             PROVE  \E r \in S : d[r] = r
  BY DEF Forest
<1>2. CASE \E x \in S : x \in V
  <2>1. PICK x \in S : x \in V
    BY <1>2
  <2>2. root \in S
    BY <2>1, CompressedAt DEF Closed
  <2> QED BY <2>2, <1>1
<1>3. CASE \A x \in S : x \notin V
  <2>1. \A x \in S : d[x] = c[x]
    BY <1>3, CompressedAt
  <2>2. Closed(c, S)
    BY <2>1 DEF Closed
  <2>3. \E r \in S : c[r] = r
    BY <2>2 DEF Forest
  <2> QED BY <2>1, <2>3
<1> QED BY <1>2, <1>3

\* Compression changes the result of no lookup, and makes and loses no root.
LEMMA CompressedRoot ==
    ASSUME NEW c \in Pointers, Forest(c), NEW i \in Elements, NEW k \in Elements
    PROVE  /\ Root(Compressed(c, i), k) = Root(c, k)
           /\ Compressed(c, i)[k] = k <=> c[k] = k
<1> DEFINE d == Compressed(c, i)
           label == [x \in Elements |-> Root(c, x)]
<1>1. d \in Pointers /\ Forest(d)
  BY CompressedPointers, CompressedForest
<1>2. label \in Pointers
  BY RootVisited DEF Pointers
<1>3. ASSUME NEW x \in Elements PROVE d[x] = x <=> c[x] = x
  <2>1. CASE x \in Visited(c, i)
    <3>1. d[x] = Root(c, i) /\ Root(c, x) = Root(c, i) /\ c[Root(c, i)] = Root(c, i)
      BY <2>1, CompressedAt, RootOfVisited, RootVisited
    <3>2. c[x] = x => Root(c, x) = x
      BY RootOfRoot
    <3> QED BY <3>1, <3>2
  <2>2. CASE x \notin Visited(c, i)
    BY <2>2, CompressedAt
  <2> QED BY <2>1, <2>2
<1>4. ASSUME NEW x \in Elements PROVE label[d[x]] = label[x]
  <2>1. CASE x \in Visited(c, i)
    <3>1. d[x] = Root(c, i) /\ Root(c, i) \in Elements /\ Root(c, x) = Root(c, i)
      BY <2>1, CompressedAt, RootOfVisited, RootVisited
    <3>2. Root(c, Root(c, i)) = Root(c, i)
      BY RootVisited, RootOfRoot
    <3> QED BY <3>1, <3>2
  <2>2. CASE x \notin Visited(c, i)
    <3>1. d[x] = c[x] /\ c[x] \in Elements
      BY <2>2, CompressedAt DEF Pointers
    <3> QED BY <3>1, RootOfParent
  <2> QED BY <2>1, <2>2
<1>5. \A x \in Elements : d[x] = x => label[x] = x
  BY <1>3, RootOfRoot
<1>6. Root(d, k) = label[k]
  BY <1>1, <1>2, <1>4, <1>5, RootIsLabel
<1> QED BY <1>3, <1>6

LEMMA FoundForest ==
    ASSUME NEW c \in Pointers, Forest(c), NEW i \in Elements, NEW j \in Elements
    PROVE  LET d == Compressed(Compressed(c, i), j)
           IN  /\ d \in Pointers /\ Forest(d)
               /\ \A k \in Elements : Root(d, k) = Root(c, k) /\ (d[k] = k <=> c[k] = k)
BY CompressedPointers, CompressedForest, CompressedRoot

(***************************************************************************)
(* Attaching one root to another joins their two sets and no others.       *)
(***************************************************************************)
LEMMA AttachedForest ==
    ASSUME NEW c \in Pointers, Forest(c), NEW a \in Elements, c[a] = a,
           NEW b \in Elements, c[b] = b, a # b,
           NEW d \in Pointers, d[a] = b, \A x \in Elements : x # a => d[x] = c[x]
    PROVE  /\ Forest(d)
           /\ \A k \in Elements :
                 /\ Root(d, k) = IF Root(c, k) = a THEN b ELSE Root(c, k)
                 /\ d[k] = k <=> c[k] = k /\ k # a
<1> DEFINE label == [x \in Elements |-> IF Root(c, x) = a THEN b ELSE Root(c, x)]
<1>1. d \in Pointers /\ d[a] = b /\ d[b] = b /\ \A x \in Elements : x # a => d[x] = c[x]
  OBVIOUS
<1>2. ASSUME NEW S \in SUBSET Elements, S # {}, Closed(d, S)
      PROVE  \E r \in S : d[r] = r
  <2>1. CASE a \in S
    BY <2>1, <1>1, <1>2 DEF Closed
  <2>2. CASE a \notin S
    <3>1. \A x \in S : d[x] = c[x]
      BY <2>2, <1>1
    <3>2. Closed(c, S)
      BY <3>1, <1>2 DEF Closed
    <3>3. \E r \in S : c[r] = r
      BY <3>2, <1>2 DEF Forest
    <3> QED BY <3>1, <3>3
  <2> QED BY <2>1, <2>2
<1>3. Forest(d)
  BY <1>2 DEF Forest
<1>4. label \in Pointers
  BY RootVisited DEF Pointers
<1>5. Root(c, a) = a /\ Root(c, b) = b
  BY RootOfRoot
<1>6. ASSUME NEW x \in Elements PROVE label[d[x]] = label[x]
  <2>1. CASE x = a
    BY <2>1, <1>1, <1>5
  <2>2. CASE x # a
    <3>1. d[x] = c[x] /\ c[x] \in Elements
      BY <2>2, <1>1 DEF Pointers
    <3> QED BY <3>1, RootOfParent
  <2> QED BY <2>1, <2>2
<1>7. ASSUME NEW x \in Elements, d[x] = x PROVE label[x] = x
  BY <1>7, <1>1, <1>5, RootOfRoot
<1>8. \A k \in Elements : Root(d, k) = label[k]
  BY <1>1, <1>3, <1>4, <1>6, <1>7, RootIsLabel
<1>9. \A k \in Elements : d[k] = k <=> c[k] = k /\ k # a
  BY <1>1
<1> QED BY <1>1, <1>3, <1>8, <1>9

(***************************************************************************)
(* Counting.                                                               *)
(***************************************************************************)
LEMMA ElementsFinite == IsFiniteSet(Elements) /\ Cardinality(Elements) = N
BY NAssumption, FS_Interval DEF Elements

LEMMA SubsetCounts ==
    ASSUME NEW S \in SUBSET Elements
    PROVE  IsFiniteSet(S) /\ Cardinality(S) \in 0 .. N
<1>1. IsFiniteSet(S) /\ Cardinality(S) <= N /\ Cardinality(S) \in Nat
  BY ElementsFinite, FS_Subset, FS_CardinalityType
<1> QED BY <1>1, NAssumption

(***************************************************************************)
(* The invariant: a forest, a size per root, a count of the roots.         *)
(***************************************************************************)
UFInv ==
    /\ clusters \in Pointers
    /\ Rooted
    /\ DOMAIN clusterSizes = Elements
    /\ clusterSizes = [r \in DOMAIN clusterSizes |-> clusterSizes[r]]
    /\ SizesCount
    /\ NumClustersCounts

LEMMA UFInvTypeOK == UFInv => UFTypeOK
<1> SUFFICES ASSUME UFInv PROVE UFTypeOK
  OBVIOUS
<1>1. ASSUME NEW r \in Elements PROVE clusterSizes[r] \in 0 .. N
  <2>1. Members(clusters, r) \in SUBSET Elements
    BY DEF Members
  <2> QED BY <2>1, SubsetCounts, NAssumption DEF UFInv, SizesCount
<1>2. numClusters \in 0 .. N
  <2>1. Roots \in SUBSET Elements
    BY DEF Roots
  <2> QED BY <2>1, SubsetCounts DEF UFInv, NumClustersCounts
<1> QED BY <1>1, <1>2 DEF UFInv, UFTypeOK, Pointers

LEMMA UFInitInv == UFInit => UFInv
<1> SUFFICES ASSUME UFInit PROVE UFInv
  OBVIOUS
<1>1. clusters \in Pointers /\ \A r \in Elements : clusters[r] = r
  BY DEF UFInit, Pointers
<1>2. Rooted
  BY <1>1 DEF Rooted, Forest
<1>3. \A r \in Elements : Members(clusters, r) = {r}
  BY <1>1, <1>2, RootOfRoot DEF Members, Rooted
<1>4. Roots = Elements
  BY <1>1 DEF Roots
<1>5. SizesCount
  BY <1>3, <1>4, FS_Singleton DEF SizesCount, UFInit
<1>6. NumClustersCounts
  BY <1>4, ElementsFinite DEF NumClustersCounts, UFInit
<1> QED BY <1>1, <1>2, <1>5, <1>6 DEF UFInv, UFInit

(***************************************************************************)
(* A step either leaves every set as it is ...                             *)
(***************************************************************************)
SameSets ==
    /\ \A k \in Elements : Root(clusters', k) = Root(clusters, k)
    /\ Roots' = Roots

LEMMA OnlyCompressed ==
    ASSUME UFInv, clusters' \in Pointers, Forest(clusters'), UNCHANGED <<clusterSizes, numClusters>>,
           \A k \in Elements : /\ Root(clusters', k) = Root(clusters, k)
                               /\ clusters'[k] = k <=> clusters[k] = k
    PROVE  UFInv' /\ SameSets
<1>1. Roots' = Roots
  BY DEF Roots
<1>2. \A r \in Elements : Members(clusters', r) = Members(clusters, r)
  BY DEF Members
<1>3. SizesCount'
  BY <1>1, <1>2 DEF UFInv, SizesCount
<1>4. NumClustersCounts'
  BY <1>1 DEF UFInv, NumClustersCounts
<1> QED BY <1>1, <1>3, <1>4 DEF UFInv, Rooted, SameSets

(***************************************************************************)
(* ... or joins the sets of two roots.                                     *)
(***************************************************************************)
JoinsSets(loser, winner) ==
    /\ loser \in Roots /\ winner \in Roots /\ loser # winner
    /\ \A k \in Elements :
          Root(clusters', k) = IF Root(clusters, k) = loser THEN winner ELSE Root(clusters, k)
    /\ Roots' = Roots \ {loser}

LEMMA AttachJoins ==
    ASSUME UFInv, NEW STATE c, c \in Pointers, Forest(c),
           \A k \in Elements : Root(c, k) = Root(clusters, k) /\ (c[k] = k <=> clusters[k] = k),
           NEW a \in Elements, c[a] = a, NEW b \in Elements, c[b] = b, a # b,
           Attach(c, a, b)
    PROVE  UFInv' /\ JoinsSets(a, b)
<1>1. /\ clusters' \in Pointers /\ clusters'[a] = b
      /\ \A x \in Elements : x # a => clusters'[x] = c[x]
  BY DEF Attach, Pointers
<1>2. /\ clusters' \in Pointers /\ Forest(clusters')
      /\ \A k \in Elements :
            /\ Root(clusters', k) = IF Root(c, k) = a THEN b ELSE Root(c, k)
            /\ clusters'[k] = k <=> c[k] = k /\ k # a
  BY <1>1, AttachedForest
<1>3. Roots' = Roots \ {a} /\ a \in Roots /\ b \in Roots
  BY <1>2 DEF Roots
<1>4. JoinsSets(a, b)
  BY <1>2, <1>3 DEF JoinsSets
<1>5. NumClustersCounts'
  <2>1. IsFiniteSet(Roots)
    BY SubsetCounts DEF Roots
  <2>2. Cardinality(Roots \ {a}) = Cardinality(Roots) - 1
    BY <2>1, <1>3, FS_RemoveElement
  <2> QED BY <2>2, <1>3 DEF Attach, UFInv, NumClustersCounts
<1>6. /\ Members(clusters', b) = Members(clusters, a) \cup Members(clusters, b)
      /\ \A r \in Elements : r # a /\ r # b => Members(clusters', r) = Members(clusters, r)
  BY <1>4 DEF JoinsSets, Members
<1>7. Cardinality(Members(clusters', b)) = Cardinality(Members(clusters, a)) + Cardinality(Members(clusters, b))
  <2>1. IsFiniteSet(Members(clusters, a)) /\ IsFiniteSet(Members(clusters, b))
    BY SubsetCounts DEF Members
  <2>2. Members(clusters, a) \cap Members(clusters, b) = {}
    BY DEF Members
  <2>3. Cardinality(Members(clusters, a) \cap Members(clusters, b)) = 0
    BY <2>2, FS_EmptySet
  <2>4. Cardinality(Members(clusters, a)) \in Nat /\ Cardinality(Members(clusters, b)) \in Nat
    BY <2>1, FS_CardinalityType
  <2>5. Cardinality(Members(clusters, a) \cup Members(clusters, b))
          = Cardinality(Members(clusters, a)) + Cardinality(Members(clusters, b)) - 0
    BY <2>1, <2>3, FS_Union
  <2> QED BY <2>4, <2>5, <1>6
<1>8. /\ DOMAIN clusterSizes' = Elements
      /\ clusterSizes'[a] = 0
      /\ clusterSizes'[b] = clusterSizes[b] + clusterSizes[a]
      /\ \A r \in Elements : r # a /\ r # b => clusterSizes'[r] = clusterSizes[r]
      /\ clusterSizes' = [r \in DOMAIN clusterSizes' |-> clusterSizes'[r]]
  BY DEF Attach, UFInv
<1>9. SizesCount'
  <2>1. /\ clusterSizes[a] = Cardinality(Members(clusters, a))
        /\ clusterSizes[b] = Cardinality(Members(clusters, b))
    BY <1>3 DEF UFInv, SizesCount
  <2>2. Cardinality(Members(clusters, a)) \in Nat /\ Cardinality(Members(clusters, b)) \in Nat
    BY SubsetCounts, FS_CardinalityType DEF Members
  <2> SUFFICES ASSUME NEW r \in Elements
               PROVE  clusterSizes'[r] = IF r \in Roots' THEN Cardinality(Members(clusters', r)) ELSE 0
    BY DEF SizesCount
  <2>3. CASE r = a
    BY <2>3, <1>3, <1>8
  <2>4. CASE r = b
    BY <2>4, <2>1, <2>2, <1>3, <1>7, <1>8
  <2>5. CASE r # a /\ r # b
    BY <2>5, <1>3, <1>6, <1>8 DEF UFInv, SizesCount
  <2> QED BY <2>3, <2>4, <2>5
<1> QED BY <1>2, <1>4, <1>5, <1>8, <1>9 DEF UFInv, Rooted

LEMMA KeptSets ==
    ASSUME UFInv, UNCHANGED uf
    PROVE  UFInv' /\ SameSets
BY DEF uf, UFInv, Rooted, SizesCount, NumClustersCounts, Roots, SameSets

\* Pointing what a lookup visits at its root.
LEMMA FoundSets ==
    ASSUME UFInv, NEW i \in Elements, NEW j \in Elements,
           clusters' = Found(i, j), UNCHANGED <<clusterSizes, numClusters>>
    PROVE  UFInv' /\ SameSets
<1> clusters \in Pointers /\ Forest(clusters)
  BY DEF UFInv, Rooted
<1> DEFINE d == Found(i, j)
<1>1. /\ d \in Pointers /\ Forest(d)
      /\ \A k \in Elements : Root(d, k) = Root(clusters, k) /\ (d[k] = k <=> clusters[k] = k)
  BY FoundForest DEF Found
<1>2. clusters' = d
  OBVIOUS
<1> HIDE DEF d
<1> QED BY <1>1, <1>2, OnlyCompressed

\* UF_union leaves two elements of one set alone and joins the two sets otherwise.
LEMMA UnionSets ==
    ASSUME UFInv, NEW i \in Elements, NEW j \in Elements, Union(i, j)
    PROVE  /\ UFInv'
           /\ \/ SameSets /\ Root(clusters, i) = Root(clusters, j)
              \/ JoinsSets(Root(clusters, i), Root(clusters, j))
              \/ JoinsSets(Root(clusters, j), Root(clusters, i))
<1> clusters \in Pointers /\ Forest(clusters)
  BY DEF UFInv, Rooted
<1> DEFINE c == Found(i, j)
           a == Root(clusters, i)
           b == Root(clusters, j)
<1>1. /\ c \in Pointers /\ Forest(c)
      /\ \A k \in Elements : Root(c, k) = Root(clusters, k) /\ (c[k] = k <=> clusters[k] = k)
  BY FoundForest DEF Found
<1>2. b = Root(Compressed(clusters, i), j)
  BY CompressedRoot
<1>3. a \in Elements /\ clusters[a] = a /\ b \in Elements /\ clusters[b] = b
  BY RootVisited
<1>4. c[a] = a /\ c[b] = b
  BY <1>1, <1>3
<1>5. \/ a = b /\ clusters' = c /\ UNCHANGED <<clusterSizes, numClusters>>
      \/ a # b /\ Attach(c, a, b)
      \/ a # b /\ Attach(c, b, a)
  BY <1>2 DEF Union
<1> HIDE DEF c, a, b
<1>6. CASE a = b /\ clusters' = c /\ UNCHANGED <<clusterSizes, numClusters>>
  BY <1>6, <1>1, OnlyCompressed DEF a, b
<1>7. CASE a # b /\ Attach(c, a, b)
  <2>1. UFInv' /\ JoinsSets(a, b)
    BY <1>7, <1>1, <1>3, <1>4, AttachJoins
  <2> QED BY <2>1 DEF a, b
<1>8. CASE a # b /\ Attach(c, b, a)
  <2>1. UFInv' /\ JoinsSets(b, a)
    BY <1>8, <1>1, <1>3, <1>4, AttachJoins
  <2> QED BY <2>1 DEF a, b
<1> QED BY <1>5, <1>6, <1>7, <1>8

\* Whose sets a union joins: the two it was asked for, and no others.
LEMMA UnionJoins ==
    ASSUME UFInv, NEW i \in Elements, NEW j \in Elements, Union(i, j),
           NEW x \in Elements, NEW y \in Elements
    PROVE  Root(clusters', x) = Root(clusters', y) <=>
               \/ Root(clusters, x) = Root(clusters, y)
               \/ Root(clusters, x) = Root(clusters, i) /\ Root(clusters, y) = Root(clusters, j)
               \/ Root(clusters, x) = Root(clusters, j) /\ Root(clusters, y) = Root(clusters, i)
BY UnionSets DEF SameSets, JoinsSets

LEMMA StepSets ==
    ASSUME UFInv, UFNext
    PROVE  UFInv' /\ (SameSets \/ \E a, b \in Elements : JoinsSets(a, b))
<1> clusters \in Pointers /\ Forest(clusters)
  BY DEF UFInv, Rooted
<1>1. ASSUME NEW i \in Elements, Find(i) PROVE UFInv' /\ SameSets
  BY <1>1, CompressedPointers, CompressedForest, CompressedRoot, OnlyCompressed DEF Find
<1>2. ASSUME NEW i \in Elements, NEW j \in Elements, Union(i, j)
      PROVE  UFInv' /\ (SameSets \/ \E a, b \in Elements : JoinsSets(a, b))
  BY <1>2, UnionSets, RootVisited
<1> QED BY <1>1, <1>2 DEF UFNext

(***************************************************************************)
(* UF_ordered_by_cluster: every element is pointed at its root.            *)
(***************************************************************************)
LEMMA FlattenedSets ==
    ASSUME UFInv, clusters' = [i \in Elements |-> Root(clusters, i)],
           UNCHANGED <<clusterSizes, numClusters>>
    PROVE  /\ UFInv' /\ SameSets
           /\ \A i \in Elements : clusters'[i] = Root(clusters', i)
<1> clusters \in Pointers /\ Forest(clusters)
  BY DEF UFInv, Rooted
<1> DEFINE d == [i \in Elements |-> Root(clusters, i)]
<1>1. \A i \in Elements : /\ Root(clusters, i) \in Elements
                          /\ Root(clusters, Root(clusters, i)) = Root(clusters, i)
  BY RootVisited, RootOfRoot
<1>2. d \in Pointers /\ \A i \in Elements : d[i] \in Elements /\ d[d[i]] = d[i]
  BY <1>1 DEF Pointers
<1>3. Forest(d)
  BY <1>2 DEF Forest, Closed
<1>4. \A k \in Elements : d[k] = k <=> clusters[k] = k
  BY RootVisited, RootOfRoot
<1>5. \A k \in Elements : Root(d, k) = d[k]
  BY <1>2, <1>3, RootIsLabel
<1>6. clusters' = d
  OBVIOUS
<1> HIDE DEF d
<1>7. \A k \in Elements : d[k] = Root(clusters, k)
  BY DEF d
<1> QED BY <1>2, <1>3, <1>4, <1>5, <1>6, <1>7, OnlyCompressed

THEOREM UFSpecInv == UFSpec => []UFInv
<1>1. UFInv /\ [UFNext]_uf => UFInv'
  <2> SUFFICES ASSUME UFInv, [UFNext]_uf PROVE UFInv'
    OBVIOUS
  <2>1. CASE UFNext
    BY <2>1, StepSets
  <2>2. CASE UNCHANGED uf
    BY <2>2, KeptSets
  <2> QED BY <2>1, <2>2
<1> QED BY <1>1, UFInitInv, PTL DEF UFSpec

\* The arrays and the count keep their types and their bounds.
THEOREM TypeCorrect == UFSpec => []UFTypeOK
BY UFSpecInv, UFInvTypeOK, PTL

\* UF_find ends for every element, whatever was joined and looked up before.
THEOREM RootedCorrect == UFSpec => []Rooted
<1>1. UFInv => Rooted
  BY DEF UFInv
<1> QED BY <1>1, UFSpecInv, PTL

\* The size kept at a root, by which UF_union chooses, counts its set.
THEOREM SizesCorrect == UFSpec => []SizesCount
<1>1. UFInv => SizesCount
  BY DEF UFInv
<1> QED BY <1>1, UFSpecInv, PTL

\* num_clusters, by which combine_geometries sizes its result, counts the
\* roots, so that the result has a slot for every set.
THEOREM NumClustersCorrect == UFSpec => []NumClustersCounts
<1>1. UFInv => NumClustersCounts
  BY DEF UFInv
<1> QED BY <1>1, UFSpecInv, PTL

\* The forest, its sizes and its counter agree, whatever was joined and looked up.
THEOREM ForestCorrect == UFSpec => []ForestOK
<1>1. UFInv => Rooted /\ SizesCount /\ NumClustersCounts
  BY DEF UFInv
<1>2. UFInv => ForestOK
  BY <1>1, UFInvTypeOK DEF ForestOK
<1> QED BY <1>2, UFSpecInv, PTL

(***************************************************************************)
(* The forest implements a partition.                                      *)
(***************************************************************************)
LEMMA InitBlocks == UFInit => Sets!Init
<1> SUFFICES ASSUME UFInit PROVE Blocks = {{e} : e \in Elements}
  BY DEF Sets!Init
<1>1. clusters \in Pointers /\ Forest(clusters) /\ \A r \in Elements : clusters[r] = r
  BY UFInitInv DEF UFInv, Rooted, UFInit
<1>2. \A r \in Elements : Members(clusters, r) = {r}
  BY <1>1, RootOfRoot DEF Members
<1>3. Roots = Elements
  BY <1>1 DEF Roots
<1> QED BY <1>2, <1>3 DEF Blocks

LEMMA SameBlocks == ASSUME SameSets PROVE Blocks' = Blocks
<1>1. \A r \in Elements : Members(clusters', r) = Members(clusters, r)
  BY DEF SameSets, Members
<1>2. Roots' = Roots /\ Roots \subseteq Elements
  BY DEF SameSets, Roots
<1> QED BY <1>1, <1>2 DEF Blocks

LEMMA JoinedBlocks ==
    ASSUME UFInv, NEW a \in Elements, NEW b \in Elements, JoinsSets(a, b)
    PROVE  Sets!Next
<1> DEFINE A == Members(clusters, a)
           B == Members(clusters, b)
<1>1. A \in Blocks /\ B \in Blocks
  BY DEF JoinsSets, Blocks
<1>2. Members(clusters', b) = A \cup B
  BY DEF JoinsSets, Members
<1>3. ASSUME NEW r \in Roots, r # a, r # b
      PROVE  /\ Members(clusters', r) = Members(clusters, r)
             /\ Members(clusters, r) # A /\ Members(clusters, r) # B
  <2>1. r \in Elements /\ Root(clusters, r) = r
    BY RootOfRoot DEF Roots, UFInv, Rooted
  <2>2. Members(clusters', r) = Members(clusters, r)
    BY <1>3 DEF JoinsSets, Members
  <2>3. r \in Members(clusters, r) /\ r \notin A /\ r \notin B
    BY <1>3, <2>1 DEF Members
  <2> QED BY <2>2, <2>3
<1>4. Roots' = Roots \ {a} /\ b \in Roots'
  BY DEF JoinsSets
<1> HIDE DEF A, B
<1>5. Blocks' = {Members(clusters', r) : r \in Roots'} /\ Blocks = {Members(clusters, r) : r \in Roots}
  BY DEF Blocks
<1>6. Blocks' \subseteq (Blocks \ {A, B}) \cup {A \cup B}
  <2> SUFFICES ASSUME NEW r \in Roots'
               PROVE  Members(clusters', r) \in (Blocks \ {A, B}) \cup {A \cup B}
    BY <1>5
  <2>1. CASE r = b
    BY <2>1, <1>2
  <2>2. CASE r # b
    BY <2>2, <1>3, <1>4, <1>5
  <2> QED BY <2>1, <2>2
<1>7. (Blocks \ {A, B}) \cup {A \cup B} \subseteq Blocks'
  <2>1. A \cup B \in Blocks'
    BY <1>2, <1>4, <1>5
  <2>2. ASSUME NEW r \in Roots, Members(clusters, r) # A, Members(clusters, r) # B
        PROVE  Members(clusters, r) \in Blocks'
    <3>1. r # a /\ r # b
      BY <2>2 DEF A, B
    <3> QED BY <3>1, <1>3, <1>4, <1>5
  <2> QED BY <2>1, <2>2, <1>5
<1>8. Blocks' = (Blocks \ {A, B}) \cup {A \cup B}
  BY <1>6, <1>7
<1> QED BY <1>1, <1>8 DEF Sets!Next, Sets!Merge

(***************************************************************************)
(* Looking up and compressing change no set, and a union makes one set of  *)
(* the two it was asked to join and changes no other.                      *)
(***************************************************************************)
THEOREM ImplementsPartition == UFSpec => PartitionSpec
<1>1. UFInv /\ [UFNext]_uf => [Sets!Next]_Blocks
  <2> SUFFICES ASSUME UFInv, [UFNext]_uf PROVE Sets!Next \/ Blocks' = Blocks
    OBVIOUS
  <2>1. CASE UFNext
    BY <2>1, StepSets, SameBlocks, JoinedBlocks
  <2>2. CASE UNCHANGED uf
    BY <2>2 DEF uf, Blocks, Roots
  <2> QED BY <2>1, <2>2
<1> QED BY <1>1, InitBlocks, UFSpecInv, PTL DEF UFSpec, PartitionSpec, Sets!Spec

-----------------------------------------------------------------------------

(***************************************************************************)
(* The inductive invariant, in the parts that belong together.             *)
(***************************************************************************)
CallOK ==
    /\ scene \in Scenes /\ minPoints \in MinPoints
    /\ mode \in {"intersecting", "distance", "dbscan"}
    /\ mode # "dbscan" => minPoints = 1

ScanOK ==
    /\ phase \in {"scan", "emit", "done", "failed"} /\ success \in BOOLEAN
    /\ p \in -1 .. N - 1 /\ todo \subseteq Geoms
    /\ neighbors \in Seq(Geoms) /\ pending \in Seq(Geoms)
    /\ isInCore \subseteq inACluster /\ inACluster \subseteq Geoms
    /\ p = -1 => todo = {} /\ pending = <<>>
    /\ Bails => p = -1
    /\ phase # "scan" => pending = <<>>
    /\ ~Dbscan => inACluster = Geoms /\ pending = <<>>

\* Only failed measurements make a clustering fail, and it returns nothing then.
FailureOK ==
    /\ ~success => scene.fails # {}
    /\ phase = "failed" => scene.fails # {}
    /\ phase # "failed" /\ (Dbscan \/ mode = "intersecting" \/ phase # "scan") => success

\* What is left when the scan has come to its end.
ScannedOK ==
    phase \in {"emit", "done"} =>
        /\ todo = {}
        /\ Bails \/ p = N - 1
        /\ \A i \in Geoms : clusters[i] = RootOf(i)

-----------------------------------------------------------------------------
(* Joining whatever is near *)

\* Sets are only joined along near pairs: no set that is apart is left.
Sound(c, G) ==
    \A S \in SUBSET G : Apart(S, G) =>
        \A i, j \in G : Root(c, i) = Root(c, j) => (i \in S <=> j \in S)

\* Near pairs that have been visited are in one set.
PairsJoined ==
    \A i, j \in Geoms :
        {i, j} \in scene.near /\ i <= p => RootOf(i) = RootOf(j) \/ (i = p /\ j \in todo)

PlainOK == ~Dbscan => Sound(clusters, Geoms) /\ (success => PairsJoined)

-----------------------------------------------------------------------------
(* DBSCAN *)

ToCome == todo \cup Range(pending)

\* The neighbors of p are counted: each once, and none is missed.
CountOK ==
    /\ \A k, l \in 1 .. Len(neighbors) : neighbors[k] = neighbors[l] => k = l
    /\ Range(neighbors) \subseteq Neighborhood(p) \ todo
    /\ Range(pending) \subseteq Range(neighbors)
    /\ Len(neighbors) <= minPoints
    /\ p \in isInCore <=> Len(neighbors) = minPoints
    /\ pending # <<>> => p \in isInCore
    /\ p \in Core /\ p \notin isInCore => Neighborhood(p) \subseteq Range(neighbors) \cup todo

CoreFound ==
    /\ isInCore \subseteq Core /\ isInCore \subseteq 0 .. p
    /\ \A i \in Core : i < p => i \in isInCore

\* What is in a cluster is near a core geometry of it; the rest is alone.
BorderOK ==
    /\ \A q \in inACluster : \E c \in isInCore : Near(c, q) /\ RootOf(c) = RootOf(q)
    /\ \A q \in Geoms \ inACluster : \A x \in Geoms : RootOf(x) = RootOf(q) => x = q

\* Core geometries that are near are in one set, and what is near to one is in a cluster,
\* but for what is still to come.
CoreLinked ==
    \A i, j \in isInCore : Near(i, j) =>
        RootOf(i) = RootOf(j) \/ (i = p /\ j \in ToCome) \/ (j = p /\ i \in ToCome)

CoreReached ==
    \A i \in isInCore, q \in Geoms : Near(i, q) => q \in inACluster \/ (i = p /\ q \in ToCome)

DbscanOK ==
    Dbscan /\ phase # "failed" =>
        CountOK /\ CoreFound /\ BorderOK /\ Sound(clusters, Core) /\ CoreLinked /\ CoreReached

-----------------------------------------------------------------------------
(* Emission *)

EmissionOK ==
    /\ rest \subseteq Geoms /\ current \subseteq Geoms /\ collections \in Seq(SUBSET Geoms)
    /\ ids \in [Geoms -> Int] /\ lastOldId \in -1 .. N - 1
    /\ \A i \in Geoms : ids[i] \in -1 .. N - 1 - Cardinality(rest)
    /\ phase = "scan" => /\ rest = Geoms /\ current = {} /\ collections = <<>>
                         /\ lastOldId = -1 /\ \A i \in Geoms : ids[i] = -1
    /\ phase = "done" => rest = {}
    /\ phase \in {"emit", "done"} =>
           \A i \in Geoms \ rest, j \in rest : clusters[i] <= clusters[j]

\* Roots none of whose set is still to come.
Emitted == {r \in Roots : \A j \in rest : clusters[j] # r}

CollectOK ==
    mode # "dbscan" /\ phase \in {"emit", "done"} =>
        /\ current = {i \in Geoms \ rest : clusters[i] \notin Emitted}
        /\ Range(collections) = {Members(clusters, r) : r \in Emitted}
        /\ Len(collections) = Cardinality(Emitted)

Numbered == (Geoms \ rest) \cap inACluster

AssignOK ==
    mode = "dbscan" /\ phase \in {"emit", "done"} =>
        /\ \A i \in Geoms : ids[i] # -1 <=> i \in Numbered
        /\ \A i, j \in Numbered : ids[i] = ids[j] <=> clusters[i] = clusters[j]
        /\ \A i \in Numbered : \A n \in 0 .. ids[i] : \E j \in Numbered : ids[j] = n
        /\ lastOldId = -1 <=> Numbered = {}
        /\ Numbered # {} =>
              \E m \in Numbered : /\ clusters[m] = lastOldId
                                  /\ \A j \in Numbered : ids[j] <= ids[m] /\ clusters[j] <= lastOldId

ClusterInv ==
    /\ UFInv /\ CallOK /\ ScanOK /\ FailureOK /\ ScannedOK
    /\ PlainOK /\ DbscanOK
    /\ EmissionOK /\ CollectOK /\ AssignOK

-----------------------------------------------------------------------------
(* The relation *)

LEMMA NearPairs ==
    ASSUME CallOK
    PROVE  /\ \A pair \in scene.near : \E a, b \in Geoms : pair = {a, b}
           /\ \A i, j : {i, j} \in scene.near => i \in Geoms \ scene.empty /\ j \in Geoms \ scene.empty
<1>1. scene.near \subseteq {{i, j} : i, j \in Geoms \ scene.empty}
  BY SceneAssumption DEF CallOK, SceneOK, Geoms
<1>2. ASSUME NEW i, NEW j, {i, j} \in scene.near
      PROVE  i \in Geoms \ scene.empty /\ j \in Geoms \ scene.empty
  <2>1. PICK a \in Geoms \ scene.empty, b \in Geoms \ scene.empty : {i, j} = {a, b}
    BY <1>1, <1>2
  <2>2. i \in {a, b} /\ j \in {a, b}
    BY <2>1
  <2> QED BY <2>2
<1> QED BY <1>1, <1>2

LEMMA NearSymmetric == \A i, j : Near(i, j) => Near(j, i)
<1> SUFFICES ASSUME NEW i, NEW j PROVE Near(i, j) => Near(j, i)
  OBVIOUS
<1>1. {i, j} = {j, i}
  OBVIOUS
<1> QED BY <1>1 DEF Near

\* No set that is apart takes one of two near elements only.
LEMMA ApartNear ==
    ASSUME NEW G, NEW S \in SUBSET G, Apart(S, G), NEW i \in G, NEW j \in G, Near(i, j)
    PROVE  i \in S <=> j \in S
<1>1. CASE i = j
  BY <1>1
<1>2. CASE i # j
  <2>1. {i, j} \in scene.near /\ {i, j} \subseteq G
    BY <1>2 DEF Near
  <2>2. {i, j} \subseteq S \/ {i, j} \cap S = {}
    BY <2>1 DEF Apart
  <2> QED BY <2>2
<1> QED BY <1>1, <1>2

(***************************************************************************)
(* Sets that are joined along near pairs of G only, and with every near    *)
(* pair joined, are the chains of G.                                       *)
(***************************************************************************)
LEMMA ChainOf ==
    ASSUME CallOK, NEW G \in SUBSET Geoms, NEW c, Sound(c, G),
           \A i, j \in G : Near(i, j) => Root(c, i) = Root(c, j),
           NEW i \in G
    PROVE  {j \in G : \A S \in {T \in SUBSET G : Apart(T, G)} : i \in S => j \in S}
              = {j \in G : Root(c, j) = Root(c, i)}
<1> DEFINE A == {T \in SUBSET G : Apart(T, G)}
           M == {j \in G : Root(c, j) = Root(c, i)}
<1>1. ASSUME NEW j \in M, NEW S \in A, i \in S PROVE j \in S
  BY <1>1 DEF Sound
<1>2. M \in A
  <2>1. ASSUME NEW pair \in scene.near, pair \subseteq G
        PROVE  pair \subseteq M \/ pair \cap M = {}
    <3>1. PICK a \in Geoms, b \in Geoms : pair = {a, b}
      BY NearPairs
    <3>2. a \in G /\ b \in G /\ Near(a, b)
      BY <2>1, <3>1 DEF Near
    <3>3. Root(c, a) = Root(c, b)
      BY <3>2
    <3> QED BY <3>1, <3>2, <3>3
  <2> QED BY <2>1 DEF Apart
<1> QED BY <1>1, <1>2

LEMMA ChainsAreSets ==
    ASSUME CallOK, NEW G \in SUBSET Geoms, NEW c, Sound(c, G),
           \A i, j \in G : Near(i, j) => Root(c, i) = Root(c, j)
    PROVE  Chains(G) = {{j \in G : Root(c, j) = Root(c, i)} : i \in G}
BY ChainOf DEF Chains

LEMMA ChainJoins ==
    ASSUME CallOK, NEW G \in SUBSET Geoms, NEW c, Sound(c, G),
           \A i, j \in G : Near(i, j) => Root(c, i) = Root(c, j),
           NEW i \in G, NEW j \in G
    PROVE  (\E C \in Chains(G) : {i, j} \subseteq C) <=> Root(c, i) = Root(c, j)
<1>1. Chains(G) = {{x \in G : Root(c, x) = Root(c, k)} : k \in G}
  BY ChainsAreSets
<1>2. ASSUME Root(c, i) = Root(c, j) PROVE \E C \in Chains(G) : {i, j} \subseteq C
  <2> DEFINE C == {x \in G : Root(c, x) = Root(c, i)}
  <2>1. C \in Chains(G)
    BY <1>1
  <2>2. {i, j} \subseteq C
    BY <1>2
  <2> QED BY <2>1, <2>2
<1>3. ASSUME NEW C \in Chains(G), {i, j} \subseteq C PROVE Root(c, i) = Root(c, j)
  <2>1. PICK k \in G : C = {x \in G : Root(c, x) = Root(c, k)}
    BY <1>1
  <2>2. i \in C /\ j \in C
    BY <1>3
  <2> QED BY <2>1, <2>2
<1> QED BY <1>2, <1>3

-----------------------------------------------------------------------------
(* Counting *)

\* A sequence without repetition has as many elements as it is long.
LEMMA InjectiveCount ==
    ASSUME NEW T, NEW s \in Seq(T), \A k, l \in 1 .. Len(s) : s[k] = s[l] => k = l
    PROVE  IsFiniteSet(Range(s)) /\ Cardinality(Range(s)) = Len(s)
<1>1. Len(s) \in Nat /\ DOMAIN s = 1 .. Len(s) /\ s \in [1 .. Len(s) -> T]
  BY LenProperties
<1>2. s \in Bijection(1 .. Len(s), Range(s))
  BY <1>1 DEF Bijection, Injection, Surjection, IsInjective, Range
<1>3. ExistsBijection(1 .. Len(s), Range(s))
  BY <1>2 DEF ExistsBijection
<1>4. IsFiniteSet(1 .. Len(s)) /\ Cardinality(1 .. Len(s)) = Len(s)
  BY <1>1, FS_Interval
<1> QED BY <1>3, <1>4, FS_Bijection

LEMMA AppendRange ==
    ASSUME NEW T, NEW s \in Seq(T), NEW q \in T
    PROVE  Range(Append(s, q)) = Range(s) \cup {q}
<1>1. /\ Len(s) \in Nat /\ DOMAIN s = 1 .. Len(s) /\ DOMAIN Append(s, q) = 1 .. Len(s) + 1
      /\ \A k \in 1 .. Len(s) : Append(s, q)[k] = s[k]
      /\ Append(s, q)[Len(s) + 1] = q
  BY AppendProperties, LenProperties
<1>2. Range(Append(s, q)) \subseteq Range(s) \cup {q}
  BY <1>1 DEF Range
<1>3. Range(s) \cup {q} \subseteq Range(Append(s, q))
  BY <1>1 DEF Range
<1> QED BY <1>2, <1>3

LEMMA TailRange ==
    ASSUME NEW T, NEW s \in Seq(T), s # <<>>
    PROVE  /\ Head(s) \in Range(s) /\ Tail(s) \in Seq(T)
           /\ Range(Tail(s)) \subseteq Range(s)
           /\ Range(s) \ {Head(s)} \subseteq Range(Tail(s))
<1>1. /\ Head(s) = s[1] /\ Tail(s) \in Seq(T) /\ Len(s) \in Nat /\ Len(s) >= 1
      /\ Len(Tail(s)) = Len(s) - 1
      /\ \A k \in 1 .. Len(s) - 1 : Tail(s)[k] = s[k + 1]
  BY HeadTailProperties, EmptySeq, LenProperties
<1>2. DOMAIN s = 1 .. Len(s) /\ DOMAIN Tail(s) = 1 .. Len(s) - 1
  BY <1>1, LenProperties
<1>3. Range(Tail(s)) \subseteq Range(s)
  BY <1>1, <1>2 DEF Range
<1>4. ASSUME NEW k \in 1 .. Len(s), k # 1 PROVE s[k] \in Range(Tail(s))
  <2>1. k - 1 \in 1 .. Len(s) - 1 /\ Tail(s)[k - 1] = s[k]
    BY <1>1, <1>4
  <2> QED BY <2>1, <1>2 DEF Range
<1> QED BY <1>1, <1>2, <1>3, <1>4 DEF Range

\* As many sets as roots.
LEMMA BlocksCount ==
    ASSUME UFInv
    PROVE  Cardinality(Blocks) = Cardinality(Roots)
<1> DEFINE f == [r \in Roots |-> Members(clusters, r)]
<1>1. ASSUME NEW r \in Roots PROVE r \in Elements /\ r \in Members(clusters, r)
  BY RootOfRoot DEF Roots, UFInv, Rooted, Members
<1>2. ASSUME NEW r \in Roots, NEW t \in Roots, Members(clusters, r) = Members(clusters, t)
      PROVE  r = t
  BY <1>1, <1>2 DEF Members
<1>3. f \in Bijection(Roots, Blocks)
  BY <1>2 DEF Bijection, Injection, Surjection, IsInjective, Blocks
<1>4. ExistsBijection(Roots, Blocks)
  BY <1>3 DEF ExistsBijection
<1>5. IsFiniteSet(Roots)
  BY SubsetCounts DEF Roots
<1> QED BY <1>4, <1>5, FS_Bijection

-----------------------------------------------------------------------------
(* What a step that keeps the call keeps *)

LEMMA RelationKept ==
    ASSUME UNCHANGED call
    PROVE  /\ scene' = scene /\ mode' = mode /\ minPoints' = minPoints
           /\ \A i, j : Near(i, j)' <=> Near(i, j)
           /\ \A i : Neighborhood(i)' = Neighborhood(i)
           /\ Core' = Core
           /\ Dbscan' <=> Dbscan
           /\ Bails' <=> Bails
           /\ CallOK => CallOK'
BY DEF call, Near, Neighborhood, Core, Dbscan, Bails, CallOK

LEMMA SoundNext ==
    ASSUME UNCHANGED call
    PROVE  /\ Sound(clusters, Core)' <=> Sound(clusters', Core)
           /\ Sound(clusters, Geoms)' <=> Sound(clusters', Geoms)
<1>1. Core' = Core /\ Geoms' = Geoms /\ scene' = scene
  BY RelationKept DEF Geoms, Elements
<1> QED BY <1>1 DEF Sound, Apart

LEMMA SoundKept ==
    ASSUME NEW G \in SUBSET Geoms, Sound(clusters, G), SameSets
    PROVE  Sound(clusters', G)
BY DEF Sound, SameSets, Geoms

\* Joining along a near pair of G, or with what has no element of G, keeps the sets sound.
LEMMA SoundJoined ==
    ASSUME UFInv, NEW G \in SUBSET Geoms, Sound(clusters, G),
           NEW i \in G, NEW j \in Geoms, Union(i, j),
           \/ j \in G /\ Near(i, j)
           \/ \A x \in G : RootOf(x) # RootOf(j)
    PROVE  Sound(clusters', G)
<1> SUFFICES ASSUME NEW S \in SUBSET G, Apart(S, G), NEW x \in G, NEW y \in G,
                    Root(clusters', x) = Root(clusters', y)
             PROVE  x \in S <=> y \in S
  BY DEF Sound
<1>1. \/ RootOf(x) = RootOf(y)
      \/ RootOf(x) = RootOf(i) /\ RootOf(y) = RootOf(j)
      \/ RootOf(x) = RootOf(j) /\ RootOf(y) = RootOf(i)
  BY UnionJoins DEF Geoms, RootOf
<1>2. \A u, v \in G : RootOf(u) = RootOf(v) => (u \in S <=> v \in S)
  BY DEF Sound, RootOf
<1>3. CASE j \in G /\ Near(i, j)
  <2>1. i \in S <=> j \in S
    BY <1>3, ApartNear
  <2> QED BY <1>1, <1>2, <1>3, <2>1
<1>4. CASE \A u \in G : RootOf(u) # RootOf(j)
  BY <1>1, <1>2, <1>4
<1> QED BY <1>3, <1>4

-----------------------------------------------------------------------------
(* DBSCAN: what one geometry does *)

\* When nothing is still to come for p, p is in a core if it is a core geometry.
LEMMA CoreCounted ==
    ASSUME CountOK, CoreFound, todo = {}, p \in Geoms, neighbors \in Seq(Geoms), minPoints \in Nat
    PROVE  \A i \in Core : i <= p => i \in isInCore
<1>1. ASSUME p \in Core, p \notin isInCore PROVE FALSE
  <2>1. IsFiniteSet(Range(neighbors)) /\ Cardinality(Range(neighbors)) = Len(neighbors)
    BY InjectiveCount DEF CountOK
  <2>2. Neighborhood(p) \subseteq Range(neighbors)
    BY <1>1 DEF CountOK
  <2>3. Cardinality(Neighborhood(p)) <= Len(neighbors) /\ Cardinality(Neighborhood(p)) \in Nat
    BY <2>1, <2>2, FS_Subset, FS_CardinalityType
  <2>4. Len(neighbors) <= minPoints /\ Len(neighbors) # minPoints /\ Len(neighbors) \in Nat
    BY <1>1, LenProperties DEF CountOK
  <2>5. Cardinality(Neighborhood(p)) >= minPoints
    BY <1>1 DEF Core
  <2> QED BY <2>3, <2>4, <2>5
<1>2. \A i \in Core : i \in Int
  BY NAssumption DEF Core, Geoms, Elements
<1>3. p \in Int
  BY NAssumption DEF Geoms, Elements
<1> QED BY <1>1, <1>2, <1>3 DEF CoreFound

\* A candidate is passed over: it is not near, or nothing is to be learnt of it.
LEMMA PassedOver ==
    ASSUME CountOK, CoreFound, BorderOK, Sound(clusters, Core), CoreLinked, CoreReached,
           isInCore \subseteq inACluster, inACluster \subseteq Geoms, p \in Geoms, NEW q \in todo, q \in Geoms, SameSets,
           UNCHANGED <<call, p, neighbors, pending, isInCore, inACluster>>, todo' = todo \ {q},
           \/ ~Near(p, q)
           \/ p \in isInCore /\ Settled(q)
    PROVE  CountOK' /\ CoreFound' /\ BorderOK' /\ Sound(clusters, Core)' /\ CoreLinked' /\ CoreReached'
<1> USE RelationKept
<1>1. \A x, y \in Geoms : RootOf(x)' = RootOf(y)' <=> RootOf(x) = RootOf(y)
  BY DEF SameSets, RootOf, Geoms
<1>2. Core \in SUBSET Geoms /\ isInCore \subseteq Geoms /\ Geoms' = Geoms
  BY DEF Core, CoreFound, Geoms, Elements
<1>3. CountOK'
  <2>1. Range(neighbors)' = Range(neighbors) /\ Range(pending)' = Range(pending)
    OBVIOUS
  <2>2. p \in Core /\ p \notin isInCore => Neighborhood(p) \subseteq Range(neighbors) \cup todo'
    <3>1. p \notin isInCore => q \notin Neighborhood(p)
      BY DEF Neighborhood
    <3> QED BY <3>1 DEF CountOK
  <2> QED BY <2>1, <2>2 DEF CountOK
<1>4. CoreFound'
  BY DEF CoreFound
<1>5. BorderOK'
  BY <1>1, <1>2 DEF BorderOK
<1>6. Sound(clusters, Core)'
  BY <1>2, SoundKept, SoundNext
<1>7. ASSUME p \in isInCore, Near(p, q)
      PROVE  q \in inACluster /\ (q \in isInCore => RootOf(p) = RootOf(q))
  <2>1. CASE RootOf(p) = RootOf(q)
    BY <1>7, <2>1 DEF BorderOK
  <2>2. CASE RootOf(p) # RootOf(q)
    BY <1>7, <2>2 DEF Settled
  <2> QED BY <2>1, <2>2
<1>8. ToCome' = ToCome \/ ToCome' = ToCome \ {q}
  BY DEF ToCome
<1>9. CoreLinked'
  <2> SUFFICES ASSUME NEW i \in isInCore, NEW j \in isInCore, Near(i, j)
               PROVE  (RootOf(i) = RootOf(j) \/ (i = p /\ j \in ToCome) \/ (j = p /\ i \in ToCome))'
    BY <1>2 DEF CoreLinked
  <2> QED BY <1>1, <1>2, <1>7, <1>8, NearSymmetric DEF CoreLinked
<1>10. CoreReached'
  BY <1>1, <1>2, <1>7, <1>8 DEF CoreReached
<1> QED BY <1>3, <1>4, <1>5, <1>6, <1>9, <1>10

\* What is near the core geometry p is joined to it, or stays on another's border.
LEMMA JoinedAvailable ==
    ASSUME UFInv, CoreFound, BorderOK, Sound(clusters, Core), CoreLinked, CoreReached,
           isInCore \subseteq inACluster, inACluster \subseteq Geoms,
           p \in isInCore, NEW q \in Geoms, Near(p, q), JoinIfAvailable(q),
           ToCome \ {q} \subseteq ToCome', UNCHANGED <<call, p, isInCore>>
    PROVE  /\ UFInv'
           /\ CoreFound' /\ BorderOK' /\ Sound(clusters, Core)' /\ CoreLinked' /\ CoreReached'
<1> USE RelationKept
<1>1. Core \in SUBSET Geoms /\ isInCore \subseteq Core /\ Geoms' = Geoms /\ p \in Geoms
  BY DEF Core, CoreFound, Geoms, Elements
<1>2. CoreFound'
  BY DEF CoreFound
<1>3. CASE q \in inACluster /\ q \notin isInCore /\ UNCHANGED <<uf, inACluster>>
  <2>1. UFInv' /\ SameSets
    BY <1>3, KeptSets
  <2>2. \A x, y \in Geoms : RootOf(x)' = RootOf(y)' <=> RootOf(x) = RootOf(y)
    BY <2>1 DEF SameSets, RootOf, Geoms
  <2>3. BorderOK'
    BY <1>1, <1>3, <2>2 DEF BorderOK
  <2>4. Sound(clusters, Core)'
    BY <1>1, <2>1, SoundKept, SoundNext
  <2>5. CoreLinked'
    BY <1>1, <1>3, <2>2 DEF CoreLinked
  <2>6. CoreReached'
    BY <1>1, <1>3 DEF CoreReached
  <2> QED BY <1>2, <2>1, <2>3, <2>4, <2>5, <2>6
<1>4. CASE ~(q \in inACluster /\ q \notin isInCore) /\ Union(p, q) /\ inACluster' = inACluster \cup {q}
  <2>1. UFInv'
    BY <1>1, <1>4, UnionSets DEF Geoms
  <2>2. \A x, y \in Geoms :
           RootOf(x)' = RootOf(y)' <=>
               \/ RootOf(x) = RootOf(y)
               \/ RootOf(x) = RootOf(p) /\ RootOf(y) = RootOf(q)
               \/ RootOf(x) = RootOf(q) /\ RootOf(y) = RootOf(p)
    BY <1>1, <1>4, UnionJoins DEF Geoms, RootOf
  <2>3. RootOf(p)' = RootOf(q)'
    BY <1>1, <2>2
  <2>4. BorderOK'
    <3>1. ASSUME NEW x \in inACluster' PROVE \E c \in isInCore : Near(c, x) /\ RootOf(c)' = RootOf(x)'
      <4>1. CASE x = q
        BY <4>1, <2>3
      <4>2. CASE x \in inACluster
        <5>1. PICK c \in isInCore : Near(c, x) /\ RootOf(c) = RootOf(x)
          BY <4>2 DEF BorderOK
        <5> QED BY <5>1, <4>2, <1>1, <2>2
      <4> QED BY <4>1, <4>2, <1>4
    <3>2. ASSUME NEW x \in Geoms \ inACluster', NEW y \in Geoms, RootOf(y)' = RootOf(x)' PROVE y = x
      <4>1. x \notin inACluster /\ x # q /\ x # p
        BY <1>4
      <4>2. \A z \in Geoms : RootOf(z) = RootOf(x) => z = x
        BY <4>1 DEF BorderOK
      <4> QED BY <3>2, <4>1, <4>2, <2>2, <1>1
    <3> QED BY <3>1, <3>2, <1>1 DEF BorderOK
  <2>5. Sound(clusters, Core)'
    <3>1. CASE q \in isInCore
      BY <3>1, <1>1, <1>4, SoundJoined, SoundNext
    <3>2. CASE q \notin inACluster
      <4>1. \A x \in Core : RootOf(x) = RootOf(q) => x = q
        BY <3>2, <1>1 DEF BorderOK
      <4>2. (q \in Core /\ Near(p, q)) \/ \A x \in Core : RootOf(x) # RootOf(q)
        BY <4>1
      <4> QED BY <4>2, <1>1, <1>4, SoundJoined, SoundNext
    <3> QED BY <3>1, <3>2, <1>4
  <2>6. CoreLinked'
    <3> SUFFICES ASSUME NEW i \in isInCore, NEW j \in isInCore, Near(i, j)
                 PROVE  \/ RootOf(i)' = RootOf(j)'
                        \/ i = p /\ j \in ToCome'
                        \/ j = p /\ i \in ToCome'
      BY <1>1 DEF CoreLinked
    <3>1. RootOf(i) = RootOf(j) \/ (i = p /\ j \in ToCome) \/ (j = p /\ i \in ToCome)
      BY DEF CoreLinked
    <3> QED BY <3>1, <1>1, <2>2, <2>3
  <2>7. CoreReached'
    BY <1>1, <1>4 DEF CoreReached
  <2> QED BY <1>2, <2>1, <2>4, <2>5, <2>6, <2>7
<1> QED BY <1>3, <1>4 DEF JoinIfAvailable

\* A neighbor is counted; the last that is needed makes p a core geometry, as it is.
LEMMA SetAsideCounted ==
    ASSUME CountOK, CoreFound, BorderOK, Sound(clusters, Core), CoreLinked, CoreReached,
           isInCore \subseteq inACluster, inACluster \subseteq Geoms, p \in Geoms, todo \subseteq Geoms,
           neighbors \in Seq(Geoms), pending = <<>>, minPoints \in Nat, minPoints > 1, UFInv,
           NEW q \in todo, Near(p, q), SetAside(q), todo' = todo \ {q}, UNCHANGED <<call, p>>
    PROVE  /\ UFInv' /\ neighbors' \in Seq(Geoms) /\ pending' \in Seq(Geoms)
           /\ isInCore' \subseteq inACluster' /\ inACluster' \subseteq Geoms
           /\ CountOK' /\ CoreFound' /\ BorderOK' /\ Sound(clusters, Core)' /\ CoreLinked' /\ CoreReached'
<1> USE RelationKept
<1>1. Core \in SUBSET Geoms /\ isInCore \subseteq Core /\ Geoms' = Geoms
  BY DEF Core, CoreFound, Geoms, Elements
<1>2. UFInv' /\ SameSets
  BY KeptSets DEF SetAside
<1>3. \A x, y \in Geoms : RootOf(x)' = RootOf(y)' <=> RootOf(x) = RootOf(y)
  BY <1>2 DEF SameSets, RootOf, Geoms
<1>4. Sound(clusters, Core)'
  BY <1>1, <1>2, SoundKept, SoundNext
<1>5. /\ neighbors' = Append(neighbors, q) /\ neighbors' \in Seq(Geoms)
      /\ Range(neighbors') = Range(neighbors) \cup {q}
      /\ Len(neighbors') = Len(neighbors) + 1 /\ Len(neighbors) \in Nat /\ Len(neighbors) < minPoints
      /\ \A k \in 1 .. Len(neighbors) : neighbors'[k] = neighbors[k]
      /\ neighbors'[Len(neighbors) + 1] = q
  BY AppendProperties, AppendRange, LenProperties DEF SetAside
<1>6. p \notin isInCore
  BY <1>5 DEF CountOK
<1>7. \A k, l \in 1 .. Len(neighbors') : neighbors'[k] = neighbors'[l] => k = l
  <2>1. \A k \in 1 .. Len(neighbors) : neighbors[k] # q
    <3>1. DOMAIN neighbors = 1 .. Len(neighbors)
      BY LenProperties
    <3> QED BY <3>1 DEF CountOK, Range
  <2>2. \A k \in 1 .. Len(neighbors') : k \in 1 .. Len(neighbors) \/ k = Len(neighbors) + 1
    BY <1>5
  <2> QED BY <2>1, <2>2, <1>5 DEF CountOK
<1>8. Range(neighbors') \subseteq Neighborhood(p) \ todo'
  BY <1>5 DEF CountOK, Neighborhood
<1>9. p \in Core => Neighborhood(p) \subseteq Range(neighbors') \cup todo'
  BY <1>5, <1>6 DEF CountOK
<1>10. CASE Len(neighbors') = minPoints
  <2>1. /\ isInCore' = isInCore \cup {p} /\ inACluster' = inACluster \cup {p}
        /\ pending' = neighbors' /\ UNCHANGED uf
    BY <1>10 DEF SetAside
  <2>2. p \in Core
    <3>1. IsFiniteSet(Range(neighbors')) /\ Cardinality(Range(neighbors')) = minPoints
      BY <1>5, <1>7, <1>10, InjectiveCount
    <3>2. IsFiniteSet(Neighborhood(p)) /\ Cardinality(Neighborhood(p)) \in Nat
      BY SubsetCounts, FS_CardinalityType DEF Neighborhood, Geoms
    <3>3. Cardinality(Range(neighbors')) <= Cardinality(Neighborhood(p))
      BY <1>8, <3>2, FS_Subset
    <3> QED BY <3>1, <3>2, <3>3 DEF Core
  <2>3. CountOK'
    BY <1>5, <1>7, <1>8, <1>10, <2>1 DEF CountOK
  <2>4. CoreFound'
    <3>1. p \in 0 .. p
      BY NAssumption DEF Geoms, Elements
    <3> QED BY <2>1, <2>2, <3>1 DEF CoreFound
  <2>5. BorderOK'
    <3>1. Near(p, p)
      BY DEF Near
    <3> QED BY <1>1, <1>3, <2>1, <3>1 DEF BorderOK
  <2>6. \A x \in Geoms : Near(p, x) => x \in ToCome'
    BY <1>9, <2>1, <2>2 DEF Neighborhood, ToCome
  <2>7. CoreLinked'
    BY <1>1, <1>3, <1>6, <2>1, <2>6, NearSymmetric DEF CoreLinked
  <2>8. CoreReached'
    BY <1>1, <1>6, <2>1, <2>6 DEF CoreReached
  <2> QED BY <1>2, <1>4, <1>5, <2>1, <2>3, <2>4, <2>5, <2>7, <2>8
<1>11. CASE Len(neighbors') # minPoints
  <2>1. UNCHANGED <<isInCore, inACluster, pending>>
    BY <1>11 DEF SetAside
  <2>2. CountOK'
    <3>1. Range(pending') = {}
      BY <2>1 DEF Range
    <3> QED BY <1>5, <1>6, <1>7, <1>8, <1>9, <1>11, <2>1, <3>1 DEF CountOK
  <2>3. CoreFound'
    BY <2>1 DEF CoreFound
  <2>4. BorderOK'
    BY <1>1, <1>3, <2>1 DEF BorderOK
  <2>5. CoreLinked'
    BY <1>1, <1>3, <1>6, <2>1 DEF CoreLinked
  <2>6. CoreReached'
    BY <1>1, <1>6, <2>1 DEF CoreReached
  <2> QED BY <1>2, <1>4, <1>5, <2>1, <2>2, <2>3, <2>4, <2>5, <2>6
<1> QED BY <1>10, <1>11

-----------------------------------------------------------------------------
(* The invariant holds in every initial state and is kept by every step *)

LEMMA InitCluster == ASSUME Init PROVE ClusterInv
<1> USE DEF Init
<1>1. UFInv
  BY UFInitInv
<1>2. CallOK
  BY DEF CallOK
<1>3. ScanOK
  BY NAssumption, EmptySeq DEF ScanOK
<1>4. FailureOK /\ ScannedOK /\ CollectOK /\ AssignOK
  BY DEF FailureOK, ScannedOK, CollectOK, AssignOK
<1>5. \A x \in Geoms : RootOf(x) = x
  BY <1>1, RootOfRoot DEF UFInit, UFInv, Rooted, RootOf, Geoms
<1>6. Core \in SUBSET Geoms
  BY DEF Core
<1>7. Sound(clusters, Geoms) /\ Sound(clusters, Core)
  BY <1>5, <1>6 DEF Sound, RootOf
<1>8. \A x \in Geoms : x \in Int /\ x >= 0
  BY NAssumption DEF Geoms, Elements
<1>9. PlainOK
  <2>1. PairsJoined
    BY <1>2, <1>8, NearPairs DEF PairsJoined
  <2> QED BY <1>7, <2>1 DEF PlainOK
<1>10. DbscanOK
  <2> SUFFICES ASSUME Dbscan PROVE DbscanOK
    BY DEF DbscanOK
  <2>1. p \notin Core /\ Range(neighbors) = {} /\ Range(pending) = {} /\ Len(neighbors) = 0
    BY <1>6, <1>8 DEF Range
  <2>2. minPoints > 1 /\ minPoints \in Nat
    BY <1>2, SceneAssumption DEF Dbscan, CallOK
  <2>3. CountOK
    BY <2>1, <2>2 DEF CountOK
  <2>4. CoreFound
    BY <1>6, <1>8 DEF CoreFound
  <2>5. BorderOK /\ CoreLinked /\ CoreReached
    BY <1>5 DEF BorderOK, CoreLinked, CoreReached
  <2> QED BY <1>7, <2>3, <2>4, <2>5 DEF DbscanOK
<1>11. EmissionOK
  <2>1. Cardinality(rest) = N
    BY ElementsFinite DEF Geoms
  <2>2. ids \in [Geoms -> Int] /\ \A x \in Geoms : ids[x] = -1
    OBVIOUS
  <2>3. collections \in Seq(SUBSET Geoms)
    BY EmptySeq
  <2> QED BY <2>1, <2>2, <2>3, NAssumption DEF EmissionOK
<1> QED BY <1>1, <1>2, <1>3, <1>4, <1>9, <1>10, <1>11 DEF ClusterInv

\* Nothing is emitted while the scan goes on.
LEMMA ScanEmission ==
    ASSUME EmissionOK, phase = "scan", phase' \in {"scan", "failed"}, UNCHANGED emission
    PROVE  EmissionOK' /\ CollectOK' /\ AssignOK'
<1>1. /\ rest' = rest /\ current' = current /\ collections' = collections
      /\ ids' = ids /\ lastOldId' = lastOldId /\ Geoms' = Geoms
  BY DEF emission, Geoms, Elements
<1>2. EmissionOK'
  BY <1>1 DEF EmissionOK
<1> QED BY <1>2 DEF CollectOK, AssignOK

LEMMA AdvanceInv == ASSUME ClusterInv, Advance PROVE ClusterInv'
<1> USE RelationKept DEF Advance
<1>1. CallOK /\ ScanOK /\ UFInv /\ minPoints \in Nat
  BY SceneAssumption DEF ClusterInv, CallOK
<1>2. UFInv' /\ SameSets /\ clusters' = clusters
  BY <1>1, KeptSets DEF uf
<1>3. p \in -1 .. N - 2 /\ p + 1 \in Geoms /\ Geoms' = Geoms
  BY <1>1, NAssumption DEF ScanOK, Geoms, Elements
<1>4. CallOK'
  BY <1>1
<1>5. ScanOK'
  <2>1. todo' \subseteq Geoms
    BY DEF Candidates
  <2>2. phase' = "scan" /\ pending' = <<>> /\ p' # -1 /\ p' \in -1 .. N - 1
    BY <1>3, NAssumption
  <2> QED BY <1>1, <1>3, <2>1, <2>2, EmptySeq DEF ScanOK
<1>6. FailureOK'
  BY DEF ClusterInv, FailureOK, call
<1>7. ScannedOK'
  BY DEF ScannedOK
<1>8. EmissionOK' /\ CollectOK' /\ AssignOK'
  BY ScanEmission DEF ClusterInv
<1>9. \A x, y \in Geoms : RootOf(x)' = RootOf(y)' <=> RootOf(x) = RootOf(y)
  BY <1>2 DEF RootOf
<1>10. PlainOK'
  <2> SUFFICES ASSUME ~Dbscan PROVE PlainOK'
    BY DEF PlainOK
  <2>1. Sound(clusters, Geoms)'
    BY <1>2, SoundKept, SoundNext DEF ClusterInv, PlainOK
  <2>2. ASSUME success, NEW i \in Geoms, NEW j \in Geoms, {i, j} \in scene.near, i <= p + 1
        PROVE  RootOf(i) = RootOf(j) \/ (i = p + 1 /\ j \in todo')
    <3>1. CASE i = p + 1
      <4>1. i \notin scene.empty /\ j \notin scene.empty
        BY <1>1, <2>2, NearPairs
      <4> QED BY <2>2, <3>1, <4>1 DEF Skips, Candidates
    <3>2. CASE i # p + 1
      <4>1. i <= p
        BY <1>3, <2>2, <3>2, NAssumption DEF Geoms, Elements
      <4> QED BY <4>1, <2>2 DEF ClusterInv, PlainOK, PairsJoined
    <3> QED BY <3>1, <3>2
  <2>3. success => PairsJoined'
    BY <1>3, <1>9, <2>2 DEF PairsJoined, call
  <2> QED BY <2>1, <2>3 DEF PlainOK
<1>11. DbscanOK'
  <2> SUFFICES ASSUME Dbscan PROVE DbscanOK'
    BY DEF DbscanOK
  <2>1. CountOK /\ CoreFound /\ BorderOK /\ Sound(clusters, Core) /\ CoreLinked /\ CoreReached
    BY DEF ClusterInv, DbscanOK
  <2>2. isInCore \subseteq Core /\ Core \subseteq Geoms /\ inACluster \subseteq Geoms /\ isInCore \subseteq inACluster
    BY <1>1, <2>1 DEF CoreFound, Core, ScanOK
  <2>3. ToCome = {} /\ \A x \in Geoms : RootOf(x)' = RootOf(x)
    BY <1>2 DEF ToCome, Range, RootOf
  <2>4. p + 1 \notin isInCore
    BY <1>3, <2>1 DEF CoreFound
  <2>5. p + 1 \in Core => Neighborhood(p + 1) \subseteq todo'
    <3> SUFFICES ASSUME p + 1 \in Core PROVE Neighborhood(p + 1) \subseteq todo'
      OBVIOUS
    <3>1. Cardinality(Neighborhood(p + 1)) >= minPoints /\ minPoints > 1
      BY DEF Core, Dbscan
    <3>2. p + 1 \notin scene.empty
      <4> SUFFICES ASSUME p + 1 \in scene.empty PROVE FALSE
        OBVIOUS
      <4>1. ASSUME NEW x \in Geoms, Near(p + 1, x) PROVE x = p + 1
        BY <1>1, <4>1, NearPairs DEF Near
      <4>2. Neighborhood(p + 1) = {p + 1}
        BY <1>3, <4>1 DEF Neighborhood, Near
      <4>3. Cardinality(Neighborhood(p + 1)) = 1
        BY <4>2, FS_Singleton
      <4> QED BY <1>1, <3>1, <4>3
    <3>3. Neighborhood(p + 1) \subseteq Candidates(p + 1)
      BY <1>1, <1>3, <3>2, NearPairs DEF Neighborhood, Near, Candidates
    <3>4. /\ IsFiniteSet(Candidates(p + 1)) /\ Cardinality(Candidates(p + 1)) \in Nat
          /\ Cardinality(Neighborhood(p + 1)) \in Nat
      BY SubsetCounts, FS_CardinalityType DEF Candidates, Neighborhood, Geoms
    <3>5. Cardinality(Neighborhood(p + 1)) <= Cardinality(Candidates(p + 1))
      BY <3>3, <3>4, FS_Subset
    <3>6. ~Skips(p + 1)
      BY <1>1, <3>1, <3>2, <3>4, <3>5 DEF Skips
    <3> QED BY <3>3, <3>6
  <2>6. CountOK'
    <3>1. Len(neighbors') = 0 /\ Range(neighbors') = {} /\ Range(pending') = {}
      BY DEF Range
    <3>2. minPoints > 1
      BY DEF Dbscan
    <3> QED BY <1>1, <2>4, <2>5, <3>1, <3>2 DEF CountOK
  <2>7. CoreFound'
    <3>1. ASSUME NEW i \in Core, i < p + 1 PROVE i \in isInCore
      <4>1. i \in Geoms /\ i \in 0 .. N - 1 /\ i <= p /\ p \in Geoms
        BY <1>3, <2>2, <3>1, NAssumption DEF Geoms, Elements
      <4> QED BY <1>1, <2>1, <4>1, CoreCounted DEF ScanOK
    <3>2. isInCore \subseteq 0 .. p + 1
      BY <1>3, <2>1 DEF CoreFound
    <3> QED BY <2>2, <3>1, <3>2 DEF CoreFound
  <2>8. BorderOK' /\ Sound(clusters, Core)'
    BY <1>2, <1>3, <1>9, <2>1, <2>2, SoundKept, SoundNext DEF BorderOK
  <2>9. CoreLinked' /\ CoreReached'
    BY <1>3, <2>1, <2>2, <2>3 DEF CoreLinked, CoreReached
  <2> QED BY <2>6, <2>7, <2>8, <2>9 DEF DbscanOK
<1> QED BY <1>2, <1>4, <1>5, <1>6, <1>7, <1>8, <1>10, <1>11 DEF ClusterInv

LEMMA EndScanInv == ASSUME ClusterInv, EndScan PROVE ClusterInv'
<1> USE RelationKept DEF EndScan
<1>1. CallOK /\ ScanOK /\ UFInv
  BY DEF ClusterInv
<1>2. /\ p' = p /\ todo' = todo /\ neighbors' = neighbors /\ pending' = pending
      /\ isInCore' = isInCore /\ inACluster' = inACluster
      /\ rest' = rest /\ current' = current /\ collections' = collections
      /\ ids' = ids /\ lastOldId' = lastOldId /\ success' = success /\ scene' = scene
      /\ Geoms' = Geoms
  BY DEF scan, emission, call, Geoms, Elements
<1>3. UFInv' /\ SameSets /\ (success => \A x \in Geoms : clusters'[x] = Root(clusters', x))
  <2>1. CASE success
    BY <1>1, <2>1, FlattenedSets DEF RootOf, Geoms
  <2>2. CASE ~success
    BY <1>1, <2>2, KeptSets DEF uf
  <2> QED BY <2>1, <2>2
<1>4. \A x, y \in Geoms : RootOf(x)' = RootOf(y)' <=> RootOf(x) = RootOf(y)
  BY <1>3 DEF SameSets, RootOf, Geoms
<1>5. todo = {} /\ pending = <<>> /\ (Bails \/ p = N - 1)
  BY <1>1 DEF ScanOK
<1>6. (success /\ phase' = "emit") \/ (~success /\ phase' = "failed")
  BY <1>1 DEF ScanOK
<1>7. CallOK' /\ ScanOK'
  BY <1>1, <1>2, <1>5, <1>6 DEF ScanOK
<1>8. FailureOK'
  BY <1>2, <1>6 DEF ClusterInv, FailureOK
<1>9. ScannedOK'
  BY <1>2, <1>3, <1>5, <1>6 DEF ScannedOK, RootOf
<1>10. PlainOK'
  <2>1. Sound(clusters, Geoms) => Sound(clusters, Geoms)'
    BY <1>3, SoundKept, SoundNext
  <2>2. PairsJoined => PairsJoined'
    BY <1>2, <1>4 DEF PairsJoined
  <2> QED BY <1>2, <2>1, <2>2 DEF ClusterInv, PlainOK
<1>11. DbscanOK'
  <2> SUFFICES ASSUME Dbscan PROVE DbscanOK'
    BY DEF DbscanOK
  <2>1. CountOK /\ CoreFound /\ BorderOK /\ Sound(clusters, Core) /\ CoreLinked /\ CoreReached
    BY DEF ClusterInv, DbscanOK
  <2>2. isInCore \subseteq Core /\ Core \in SUBSET Geoms /\ inACluster \subseteq Geoms
    BY <1>1, <2>1 DEF CoreFound, Core, ScanOK
  <2>3. CountOK' /\ CoreFound'
    BY <1>2, <2>1 DEF CountOK, CoreFound
  <2>4. BorderOK'
    BY <1>2, <1>4, <2>1, <2>2 DEF BorderOK
  <2>5. Sound(clusters, Core)'
    BY <1>3, <2>1, <2>2, SoundKept, SoundNext
  <2>6. ToCome' = ToCome
    BY <1>2 DEF ToCome
  <2>7. CoreLinked' /\ CoreReached'
    BY <1>2, <1>4, <2>1, <2>2, <2>6 DEF CoreLinked, CoreReached
  <2> QED BY <2>3, <2>4, <2>5, <2>7 DEF DbscanOK
<1>12. EmissionOK'
  BY <1>2, <1>6 DEF ClusterInv, EmissionOK
<1>13. CollectOK'
  <2> SUFFICES ASSUME phase' = "emit" PROVE CollectOK'
    BY <1>6 DEF CollectOK
  <2>1. rest = Geoms /\ current = {} /\ collections = <<>>
    BY DEF ClusterInv, EmissionOK
  <2>2. Emitted' = {}
    BY <1>2, <2>1 DEF Emitted, Roots, Geoms
  <2>3. Cardinality(Emitted') = 0 /\ Len(collections') = 0 /\ Range(collections') = {}
    BY <1>2, <2>1, <2>2, FS_EmptySet DEF Range
  <2> QED BY <1>2, <2>1, <2>2, <2>3 DEF CollectOK
<1>14. AssignOK'
  <2> SUFFICES ASSUME phase' = "emit" PROVE AssignOK'
    BY <1>6 DEF AssignOK
  <2>1. rest = Geoms /\ lastOldId = -1 /\ \A x \in Geoms : ids[x] = -1
    BY DEF ClusterInv, EmissionOK
  <2>2. Numbered' = {}
    BY <1>2, <2>1 DEF Numbered
  <2> QED BY <1>2, <2>1, <2>2 DEF AssignOK
<1> QED BY <1>3, <1>7, <1>8, <1>9, <1>10, <1>11, <1>12, <1>13, <1>14 DEF ClusterInv

\* The clusterings that join whatever is near.
LEMMA JoinIfNearInv ==
    ASSUME ClusterInv, phase = "scan", ~Dbscan, NEW q \in todo, JoinIfNear(q),
           UNCHANGED <<call, p, neighbors, pending, isInCore, inACluster, emission>>
    PROVE  ClusterInv'
<1> USE RelationKept
<1>1. /\ CallOK /\ ScanOK /\ UFInv /\ p \in Geoms /\ q \in Geoms /\ Geoms' = Geoms
      /\ inACluster = Geoms /\ pending = <<>>
  BY NAssumption DEF ClusterInv, ScanOK, Geoms, Elements
<1> DEFINE failing == RootOf(p) # RootOf(q) /\ Fails(p, q)
           joining == RootOf(p) # RootOf(q) /\ Near(p, q) /\ ~Fails(p, q)
<1>2. /\ failing => success' = FALSE /\ todo' = {} /\ phase' \in {"scan", "failed"}
                     /\ (mode = "intersecting" => phase' = "failed")
      /\ ~failing => todo' = todo \ {q} /\ phase' = phase /\ success' = success
  BY DEF JoinIfNear, Fail
<1>3. /\ joining => Union(p, q)
      /\ ~joining => clusters' = Found(p, q) /\ UNCHANGED <<clusterSizes, numClusters>>
  BY DEF JoinIfNear
<1>4. UFInv'
  BY <1>1, <1>3, UnionSets, FoundSets DEF Geoms
<1>5. \A x, y \in Geoms : RootOf(x) = RootOf(y) => RootOf(x)' = RootOf(y)'
  <2>1. CASE joining
    BY <1>1, <1>3, <2>1, UnionJoins DEF Geoms, RootOf
  <2>2. CASE ~joining
    BY <1>1, <1>3, <2>2, FoundSets DEF SameSets, RootOf, Geoms
  <2> QED BY <2>1, <2>2
<1>6. joining => RootOf(p)' = RootOf(q)'
  BY <1>1, <1>3, UnionJoins DEF Geoms, RootOf
<1> HIDE DEF joining
<1>7. phase' \in {"scan", "failed"}
  BY <1>2
<1>8. CallOK' /\ ScanOK'
  BY <1>1, <1>2 DEF ScanOK
<1>9. FailureOK'
  <2>1. failing => scene.fails # {}
    BY DEF Fails
  <2>2. scene' = scene
    OBVIOUS
  <2> HIDE DEF failing
  <2>3. CASE failing
    BY <1>2, <1>7, <2>1, <2>2, <2>3 DEF FailureOK
  <2>4. CASE ~failing
    BY <1>2, <2>2, <2>4 DEF ClusterInv, FailureOK
  <2> QED BY <2>3, <2>4
<1>10. ScannedOK'
  BY <1>7 DEF ScannedOK
<1>11. Sound(clusters', Geoms)
  <2>1. Sound(clusters, Geoms)
    BY DEF ClusterInv, PlainOK
  <2>2. CASE joining
    BY <1>1, <1>3, <2>1, <2>2, SoundJoined DEF joining
  <2>3. CASE ~joining
    BY <1>1, <1>3, <2>1, <2>3, FoundSets, SoundKept DEF Geoms
  <2> QED BY <2>2, <2>3
<1>12. ASSUME success' PROVE PairsJoined'
  <2>1. ~failing /\ success /\ todo' = todo \ {q}
    BY <1>2, <1>12 DEF ClusterInv, FailureOK
  <2>2. PairsJoined
    BY <2>1 DEF ClusterInv, PlainOK
  <2>3. {p, q} \in scene.near => RootOf(p)' = RootOf(q)'
    BY <1>1, <1>5, <1>6, <2>1 DEF Near, joining
  <2>4. scene' = scene /\ p' = p
    OBVIOUS
  <2> QED BY <1>1, <1>5, <2>1, <2>2, <2>3, <2>4 DEF PairsJoined
<1>13. PlainOK'
  BY <1>11, <1>12, SoundNext DEF PlainOK
<1>14. DbscanOK'
  BY DEF DbscanOK
<1>15. EmissionOK' /\ CollectOK' /\ AssignOK'
  BY <1>7, ScanEmission DEF ClusterInv
<1> QED BY <1>4, <1>8, <1>9, <1>10, <1>13, <1>14, <1>15 DEF ClusterInv

LEMMA VisitIntersectingInv ==
    ASSUME ClusterInv, NEW q \in Geoms, VisitIntersecting(q) PROVE ClusterInv'
<1>1. ~Dbscan
  BY DEF VisitIntersecting, Dbscan
<1>2. CASE q # p
  BY <1>1, <1>2, JoinIfNearInv DEF VisitIntersecting
<1>3. CASE q = p
  <2> USE RelationKept
  <2>1. /\ todo' = todo \ {q} /\ UNCHANGED <<uf, phase, success>>
        /\ UNCHANGED <<call, p, neighbors, pending, isInCore, inACluster, emission>>
        /\ Geoms' = Geoms /\ scene' = scene /\ phase = "scan"
    BY <1>3 DEF VisitIntersecting, JoinIfNear, Geoms, Elements, call
  <2>2. UFInv' /\ SameSets /\ clusters' = clusters
    BY <2>1, KeptSets DEF ClusterInv, uf
  <2>3. CallOK' /\ ScanOK'
    BY <1>1, <2>1 DEF ClusterInv, ScanOK
  <2>4. FailureOK' /\ ScannedOK'
    BY <2>1 DEF ClusterInv, FailureOK, ScannedOK
  <2>5. Sound(clusters, Geoms)'
    BY <1>1, <2>1, <2>2, SoundKept, SoundNext DEF ClusterInv, PlainOK
  <2>6. PairsJoined => PairsJoined'
    BY <1>3, <2>1, <2>2 DEF PairsJoined, RootOf
  <2>7. PlainOK' /\ DbscanOK'
    BY <1>1, <2>1, <2>5, <2>6 DEF ClusterInv, PlainOK, DbscanOK
  <2>8. EmissionOK' /\ CollectOK' /\ AssignOK'
    BY <2>1, ScanEmission DEF ClusterInv
  <2> QED BY <2>2, <2>3, <2>4, <2>7, <2>8 DEF ClusterInv
<1> QED BY <1>2, <1>3 DEF VisitIntersecting

LEMMA VisitWithinInv ==
    ASSUME ClusterInv, NEW q \in Geoms, VisitWithin(q) PROVE ClusterInv'
BY JoinIfNearInv DEF VisitWithin

\* What DBSCAN's part of the invariant says of a step that goes on scanning.
LEMMA DbscanParts ==
    ASSUME ClusterInv, Dbscan, phase = "scan"
    PROVE  /\ CountOK /\ CoreFound /\ BorderOK /\ Sound(clusters, Core) /\ CoreLinked /\ CoreReached
           /\ CallOK /\ ScanOK /\ UFInv /\ success
           /\ minPoints \in Nat /\ minPoints > 1
           /\ isInCore \subseteq inACluster /\ inACluster \subseteq Geoms
           /\ todo \subseteq Geoms /\ neighbors \in Seq(Geoms) /\ pending \in Seq(Geoms)
           /\ todo # {} \/ pending # <<>> => p \in Geoms
<1>1. CallOK /\ ScanOK
  BY DEF ClusterInv
<1>2. ASSUME todo # {} \/ pending # <<>> PROVE p \in Geoms
  <2>1. p # -1 /\ p \in -1 .. N - 1
    BY <1>1, <1>2 DEF ScanOK
  <2> QED BY <2>1, NAssumption DEF Geoms, Elements
<1> QED BY <1>1, <1>2, SceneAssumption DEF ClusterInv, DbscanOK, FailureOK, CallOK, ScanOK, Dbscan

LEMMA DbscanGoesOn ==
    ASSUME ClusterInv, Dbscan, phase = "scan", UNCHANGED <<call, phase, success, p, emission>>,
           UFInv', todo' \subseteq todo, todo # {} \/ pending # <<>>,
           neighbors' \in Seq(Geoms), pending' \in Seq(Geoms),
           isInCore' \subseteq inACluster', inACluster' \subseteq Geoms,
           CountOK', CoreFound', BorderOK', Sound(clusters, Core)', CoreLinked', CoreReached'
    PROVE  ClusterInv'
<1> USE RelationKept
<1>1. CallOK /\ ScanOK /\ p \in -1 .. N - 1 /\ p # -1 /\ Geoms' = Geoms
  BY DEF ClusterInv, ScanOK, Geoms, Elements
<1>2. CallOK' /\ ScanOK'
  BY <1>1 DEF ScanOK
<1>3. FailureOK' /\ ScannedOK'
  <2>1. scene' = scene
    OBVIOUS
  <2> QED BY <2>1 DEF ClusterInv, FailureOK, ScannedOK
<1>4. PlainOK' /\ DbscanOK'
  BY DEF PlainOK, DbscanOK
<1>5. EmissionOK' /\ CollectOK' /\ AssignOK'
  BY ScanEmission DEF ClusterInv
<1> QED BY <1>2, <1>3, <1>4, <1>5 DEF ClusterInv

LEMMA VisitSettledInv ==
    ASSUME ClusterInv, NEW q \in Geoms, VisitSettled(q) PROVE ClusterInv'
<1> USE DEF VisitSettled
<1>1. UFInv' /\ SameSets
  BY DbscanParts, FoundSets DEF Geoms
<1>2. p \in isInCore
  <2>1. Len(neighbors) \in Nat /\ Len(neighbors) <= minPoints
    BY DbscanParts, LenProperties DEF CountOK
  <2> QED BY <2>1, DbscanParts DEF CountOK
<1>3. CountOK' /\ CoreFound' /\ BorderOK' /\ Sound(clusters, Core)' /\ CoreLinked' /\ CoreReached'
  BY <1>1, <1>2, DbscanParts, PassedOver
<1> QED BY <1>1, <1>3, DbscanParts, DbscanGoesOn

LEMMA MeasureInv ==
    ASSUME ClusterInv, NEW q \in Geoms, Measure(q) PROVE ClusterInv'
<1> USE RelationKept
<1>1. /\ Dbscan /\ phase = "scan" /\ pending = <<>> /\ q \in todo /\ p \in Geoms
      /\ ~(Len(neighbors) >= minPoints /\ Settled(q)) /\ UNCHANGED <<call, p, emission>>
      /\ Geoms' = Geoms
  BY DbscanParts DEF Measure, Geoms, Elements
<1>2. Len(neighbors) >= minPoints => p \in isInCore
  <2>1. Len(neighbors) \in Nat /\ Len(neighbors) <= minPoints
    BY <1>1, DbscanParts, LenProperties DEF CountOK
  <2> QED BY <1>1, <2>1, DbscanParts DEF CountOK
<1>3. ASSUME TooFar(q) PROVE UFInv' /\ SameSets
  BY <1>1, <1>3, DbscanParts, FoundSets, KeptSets DEF TooFar, Geoms, uf
<1>4. CASE Fails(p, q) /\ Fail /\ TooFar(q)
  <2>1. /\ phase' = "failed" /\ success' = FALSE /\ todo' = {} /\ scene' = scene
        /\ scene.fails # {}
        /\ UNCHANGED <<neighbors, pending, isInCore, inACluster>>
    BY <1>1, <1>4 DEF Fail, TooFar, Fails
  <2>2. CallOK' /\ ScanOK'
    BY <1>1, <2>1, DbscanParts DEF ScanOK
  <2>3. FailureOK' /\ ScannedOK' /\ PlainOK' /\ DbscanOK'
    BY <1>1, <2>1 DEF FailureOK, ScannedOK, PlainOK, DbscanOK
  <2>4. EmissionOK' /\ CollectOK' /\ AssignOK'
    BY <1>1, <2>1, ScanEmission DEF ClusterInv
  <2> QED BY <1>3, <1>4, <2>2, <2>3, <2>4 DEF ClusterInv
<1>5. CASE todo' = todo \ {q} /\ UNCHANGED <<phase, success>> /\ Near(p, q) /\ SetAside(q)
  <2>1. /\ UFInv' /\ neighbors' \in Seq(Geoms) /\ pending' \in Seq(Geoms)
        /\ isInCore' \subseteq inACluster' /\ inACluster' \subseteq Geoms
        /\ CountOK' /\ CoreFound' /\ BorderOK' /\ Sound(clusters, Core)' /\ CoreLinked' /\ CoreReached'
    BY <1>1, <1>5, DbscanParts, SetAsideCounted
  <2> QED BY <1>1, <1>5, <2>1, DbscanGoesOn
<1>6. CASE todo' = todo \ {q} /\ UNCHANGED <<phase, success>> /\ Near(p, q) /\ JoinAtOnce(q)
  <2>1. p \in isInCore /\ JoinIfAvailable(q) /\ UNCHANGED <<neighbors, pending, isInCore>>
    BY <1>2, <1>6 DEF JoinAtOnce
  <2>2. ToCome \ {q} \subseteq ToCome'
    BY <1>6, <2>1 DEF ToCome
  <2>3. /\ UFInv'
        /\ CoreFound' /\ BorderOK' /\ Sound(clusters, Core)' /\ CoreLinked' /\ CoreReached'
    BY <1>1, <1>6, <2>1, <2>2, DbscanParts, JoinedAvailable
  <2>4. CountOK'
    BY <1>1, <1>6, <2>1, DbscanParts DEF CountOK
  <2>5. isInCore' \subseteq inACluster' /\ inACluster' \subseteq Geoms
    BY <1>1, <2>1, DbscanParts DEF JoinIfAvailable
  <2>6. neighbors' \in Seq(Geoms) /\ pending' \in Seq(Geoms)
    BY <1>1, <2>1, DbscanParts
  <2> QED BY <1>1, <1>6, <2>3, <2>4, <2>5, <2>6, DbscanGoesOn
<1>7. CASE todo' = todo \ {q} /\ UNCHANGED <<phase, success>> /\ ~Near(p, q) /\ TooFar(q)
  <2>1. UNCHANGED <<neighbors, pending, isInCore, inACluster>>
    BY <1>7 DEF TooFar
  <2>2. CountOK' /\ CoreFound' /\ BorderOK' /\ Sound(clusters, Core)' /\ CoreLinked' /\ CoreReached'
    BY <1>1, <1>3, <1>7, <2>1, DbscanParts, PassedOver
  <2> QED BY <1>1, <1>3, <1>7, <2>1, <2>2, DbscanParts, DbscanGoesOn
<1> QED BY <1>4, <1>5, <1>6, <1>7 DEF Measure

LEMMA JoinPendingInv == ASSUME ClusterInv, JoinPending PROVE ClusterInv'
<1> USE RelationKept DEF JoinPending
<1> DEFINE q == Head(pending)
<1>1. phase = "scan" /\ Dbscan
  BY DEF ClusterInv, ScanOK
<1>2. /\ q \in Range(pending) /\ pending' \in Seq(Geoms)
      /\ Range(pending') \subseteq Range(pending)
      /\ Range(pending) \ {q} \subseteq Range(pending')
  BY <1>1, DbscanParts, TailRange
<1>3. q \in Geoms /\ Near(p, q) /\ p \in isInCore
  BY <1>1, <1>2, DbscanParts DEF CountOK, Neighborhood
<1>4. ToCome \ {q} \subseteq ToCome'
  BY <1>2 DEF ToCome
<1> HIDE DEF q
<1>5. JoinIfAvailable(q)
  BY DEF q
<1>6. /\ UFInv'
      /\ CoreFound' /\ BorderOK' /\ Sound(clusters, Core)' /\ CoreLinked' /\ CoreReached'
  BY <1>1, <1>3, <1>4, <1>5, DbscanParts, JoinedAvailable
<1>7. CountOK'
  BY <1>1, <1>2, <1>3, DbscanParts DEF CountOK
<1>8. isInCore' \subseteq inACluster' /\ inACluster' \subseteq Geoms
  BY <1>1, <1>3, <1>5, DbscanParts DEF JoinIfAvailable
<1>9. neighbors' \in Seq(Geoms)
  BY <1>1, DbscanParts
<1> QED BY <1>1, <1>2, <1>6, <1>7, <1>8, <1>9, DbscanGoesOn

-----------------------------------------------------------------------------
(* Emission *)

LEMMA ScanKept ==
    ASSUME ClusterInv, phase' = phase \/ (phase = "emit" /\ phase' = "done"), UNCHANGED <<call, uf, success, scan>>
    PROVE  UFInv' /\ CallOK' /\ ScanOK' /\ FailureOK' /\ ScannedOK' /\ PlainOK' /\ DbscanOK'
<1> USE RelationKept
<1>1. /\ p' = p /\ todo' = todo /\ neighbors' = neighbors /\ pending' = pending
      /\ isInCore' = isInCore /\ inACluster' = inACluster /\ success' = success
      /\ scene' = scene /\ Geoms' = Geoms /\ clusters' = clusters
  BY DEF scan, call, uf, Geoms, Elements
<1>2. UFInv' /\ SameSets
  BY KeptSets DEF ClusterInv
<1>3. \A x \in Geoms : RootOf(x)' = RootOf(x)
  BY <1>1 DEF RootOf
<1>4. CallOK' /\ ScanOK'
  BY <1>1 DEF ClusterInv, ScanOK
<1>5. FailureOK' /\ ScannedOK'
  BY <1>1, <1>3 DEF ClusterInv, FailureOK, ScannedOK
<1>6. PlainOK'
  <2>1. Sound(clusters, Geoms) => Sound(clusters, Geoms)'
    BY <1>2, SoundKept, SoundNext
  <2>2. PairsJoined => PairsJoined'
    BY <1>1, <1>3 DEF PairsJoined
  <2> QED BY <1>1, <2>1, <2>2 DEF ClusterInv, PlainOK
<1>7. DbscanOK'
  <2> SUFFICES ASSUME Dbscan, phase # "failed" PROVE DbscanOK'
    BY DEF DbscanOK
  <2>1. CountOK /\ CoreFound /\ BorderOK /\ Sound(clusters, Core) /\ CoreLinked /\ CoreReached
    BY DEF ClusterInv, DbscanOK
  <2>2. isInCore \subseteq Geoms /\ Core \in SUBSET Geoms /\ inACluster \subseteq Geoms
    BY <2>1 DEF CoreFound, Core, ClusterInv, ScanOK
  <2>3. CountOK' /\ CoreFound'
    <3>1. minPoints' = minPoints /\ Core' = Core /\ Neighborhood(p)' = Neighborhood(p)
      BY <1>1
    <3>2. CountOK'
      BY <1>1, <2>1, <3>1 DEF CountOK
    <3> QED BY <1>1, <2>1, <3>1, <3>2 DEF CoreFound
  <2>4. BorderOK' /\ Sound(clusters, Core)'
    BY <1>1, <1>2, <1>3, <2>1, <2>2, SoundKept, SoundNext DEF BorderOK
  <2>5. CoreLinked' /\ CoreReached'
    BY <1>1, <1>3, <2>1, <2>2 DEF CoreLinked, CoreReached, ToCome
  <2> QED BY <2>3, <2>4, <2>5 DEF DbscanOK
<1> QED BY <1>2, <1>4, <1>5, <1>6, <1>7

\* The geometry whose turn it is comes between those that were emitted and the rest.
LEMMA FirstFacts ==
    ASSUME ClusterInv, phase = "emit", NEW i \in FirstOfRest
    PROVE  /\ i \in rest /\ rest \subseteq Geoms /\ i \in Geoms
           /\ Geoms \ (rest \ {i}) = (Geoms \ rest) \cup {i}
           /\ \A x \in Geoms : clusters[x] \in Roots /\ clusters[x] \in 0 .. N - 1
           /\ \A x \in Geoms \ rest : clusters[x] <= clusters[i]
           /\ \A x \in rest : clusters[i] <= clusters[x]
           /\ \A x \in Geoms \ (rest \ {i}), y \in rest \ {i} : clusters[x] <= clusters[y]
           /\ Members(clusters, clusters[i]) = {x \in Geoms : clusters[x] = clusters[i]}
<1>1. i \in rest /\ rest \subseteq Geoms /\ \A x \in rest : clusters[i] <= clusters[x]
  BY DEF FirstOfRest, ClusterInv, EmissionOK
<1>2. \A x \in Geoms \ rest, y \in rest : clusters[x] <= clusters[y]
  BY DEF ClusterInv, EmissionOK
<1>3. \A x \in Geoms : clusters[x] = Root(clusters, x)
  BY DEF ClusterInv, ScannedOK, RootOf
<1>4. \A x \in Geoms : clusters[x] \in Roots
  BY <1>3, RootVisited DEF ClusterInv, UFInv, Rooted, Roots, Geoms
<1>5. \A x \in Geoms : clusters[x] \in 0 .. N - 1
  BY <1>4 DEF Roots, Elements
<1>6. Members(clusters, clusters[i]) = {x \in Geoms : clusters[x] = clusters[i]}
  BY <1>3 DEF Members, Geoms
<1> QED BY <1>1, <1>2, <1>4, <1>5, <1>6

\* What both emissions keep of the order.
LEMMA EmissionStep ==
    ASSUME ClusterInv, phase = "emit", NEW i \in FirstOfRest, rest' = rest \ {i},
           phase' = IF rest' = {} THEN "done" ELSE phase, UNCHANGED clusters,
           current' \subseteq Geoms, collections' \in Seq(SUBSET Geoms),
           ids' \in [Geoms -> Int], lastOldId' \in -1 .. N - 1,
           \A x \in Geoms : ids'[x] \in -1 .. N - 1 - Cardinality(rest')
    PROVE  EmissionOK'
<1>1. Geoms' = Geoms
  BY DEF Geoms, Elements
<1>2. phase' \in {"emit", "done"} /\ (phase' = "done" => rest' = {}) /\ rest' \subseteq Geoms
  BY FirstFacts
<1>3. \A x \in Geoms \ rest', y \in rest' : clusters[x] <= clusters[y]
  BY FirstFacts
<1> QED BY <1>1, <1>2, <1>3 DEF EmissionOK

LEMMA RestCount ==
    ASSUME rest \subseteq Geoms, NEW i \in rest
    PROVE  /\ Cardinality(rest) \in 1 .. N
           /\ Cardinality(rest \ {i}) = Cardinality(rest) - 1
<1>1. IsFiniteSet(rest) /\ Cardinality(rest) \in 0 .. N
  BY SubsetCounts DEF Geoms
<1>2. Cardinality(rest) # 0
  BY <1>1, FS_EmptySet
<1>3. Cardinality(rest \ {i}) = Cardinality(rest) - 1
  BY <1>1, FS_RemoveElement
<1> QED BY <1>1, <1>2, <1>3, NAssumption

LEMMA CollectInv == ASSUME ClusterInv, NEW i \in Geoms, Collect(i) PROVE ClusterInv'
<1>1. /\ phase = "emit" /\ mode # "dbscan" /\ i \in FirstOfRest /\ rest' = rest \ {i}
      /\ UNCHANGED <<call, uf, success, scan>> /\ ids' = ids /\ lastOldId' = lastOldId
      /\ mode' = mode /\ clusters' = clusters /\ Geoms' = Geoms
  BY DEF Collect, call, uf, Geoms, Elements
<1>2. /\ current = {x \in Geoms \ rest : clusters[x] \notin Emitted}
      /\ Range(collections) = {Members(clusters, r) : r \in Emitted}
      /\ Len(collections) = Cardinality(Emitted)
  BY <1>1 DEF ClusterInv, CollectOK
<1>3. i \in rest /\ i \in Geoms /\ clusters[i] \in Roots /\ clusters[i] \notin Emitted
  BY <1>1, FirstFacts DEF Emitted
<1>4. collections \in Seq(SUBSET Geoms) /\ current \subseteq Geoms
  BY DEF ClusterInv, EmissionOK
<1>5. Emitted \subseteq Roots /\ IsFiniteSet(Roots) /\ IsFiniteSet(Emitted)
      /\ Roots' = Roots
  BY <1>1, SubsetCounts DEF Emitted, Roots
<1>6. \A x \in current : clusters[x] = clusters[i]
  <2> SUFFICES ASSUME NEW x \in current PROVE clusters[x] = clusters[i]
    OBVIOUS
  <2>1. PICK y \in rest : clusters[y] = clusters[x]
    BY <1>1, <1>2, FirstFacts DEF Emitted
  <2>2. clusters[x] <= clusters[i] /\ clusters[i] <= clusters[y] /\ clusters[x] \in 0 .. N - 1 /\ clusters[i] \in 0 .. N - 1
    BY <1>1, <1>2, <2>1, FirstFacts
  <2> QED BY <2>1, <2>2, NAssumption
<1>7. ASSUME phase' = IF rest' = {} THEN "done" ELSE phase,
             current' \subseteq Geoms, collections' \in Seq(SUBSET Geoms), CollectOK'
      PROVE  ClusterInv'
  <2>1. \A x \in Geoms : ids[x] \in -1 .. N - 1 - Cardinality(rest')
    BY <1>1, <1>3, FirstFacts, RestCount, NAssumption DEF ClusterInv, EmissionOK
  <2>2. EmissionOK'
    BY <1>1, <1>7, <2>1, EmissionStep DEF ClusterInv, EmissionOK
  <2>3. AssignOK'
    BY <1>1 DEF AssignOK
  <2>4. phase' \in {"emit", "done"}
    BY <1>1, <1>7
  <2> QED BY <1>1, <1>7, <2>2, <2>3, <2>4, ScanKept DEF ClusterInv
<1>8. CASE ~LastOfSet(i) /\ current' = current \cup {i} /\ UNCHANGED <<phase, collections>>
  <2>1. PICK y \in rest \ {i} : clusters[y] = clusters[i]
    BY <1>8 DEF LastOfSet
  <2>2. Emitted' = Emitted
    BY <1>1, <1>5, <2>1 DEF Emitted
  <2>3. current' = {x \in Geoms \ rest' : clusters[x] \notin Emitted}
    BY <1>1, <1>2, <1>3, <1>8, FirstFacts
  <2>4. CollectOK'
    BY <1>1, <1>2, <1>8, <2>2, <2>3 DEF CollectOK
  <2>5. rest' # {}
    BY <1>1, <2>1
  <2> QED BY <1>1, <1>3, <1>4, <1>7, <1>8, <2>4, <2>5
<1>9. CASE LastOfSet(i)
  <2> DEFINE r == clusters[i]
             block == current \cup {i}
  <2>1. Emitted' = Emitted \cup {r}
    <3>1. \A s \in Roots : s # r => (s \in Emitted' <=> s \in Emitted)
      BY <1>1, <1>5 DEF Emitted
    <3>2. r \in Emitted'
      BY <1>1, <1>3, <1>5, <1>9 DEF Emitted, LastOfSet
    <3> QED BY <1>3, <1>5, <3>1, <3>2 DEF Emitted
  <2>2. block = Members(clusters, r)
    <3>1. Members(clusters, r) = {x \in Geoms : clusters[x] = r}
      BY <1>1, FirstFacts
    <3>2. ASSUME NEW x \in Geoms, clusters[x] = r PROVE x \in block
      BY <1>2, <1>3, <1>9, <3>2 DEF LastOfSet
    <3>3. ASSUME NEW x \in block PROVE x \in Geoms /\ clusters[x] = r
      BY <1>3, <1>4, <1>6
    <3> QED BY <3>1, <3>2, <3>3
  <2>3. {x \in Geoms \ rest' : clusters[x] \notin Emitted'} = {}
    BY <1>1, <1>2, <1>6, <2>1, FirstFacts
  <2>4. Cardinality(Emitted') = Cardinality(Emitted) + 1
    BY <1>3, <1>5, <2>1, FS_AddElement
  <2>5. Len(collections) < numClusters
    <3>1. Cardinality(Emitted) # Cardinality(Roots) /\ Cardinality(Emitted) <= Cardinality(Roots)
      BY <1>3, <1>5, FS_Subset
    <3>2. Cardinality(Emitted) \in Nat /\ Cardinality(Roots) \in Nat
      BY <1>5, FS_CardinalityType
    <3>3. numClusters = Cardinality(Roots)
      BY DEF ClusterInv, UFInv, NumClustersCounts
    <3> QED BY <1>2, <3>1, <3>2, <3>3
  <2> HIDE DEF block, r
  <2>6. /\ collections' = Append(collections, block) /\ current' = {}
        /\ phase' = IF rest' = {} THEN "done" ELSE phase
    <3>1. numClusters \in Int /\ Len(collections) \in Nat
      BY <1>4, LenProperties, UFInvTypeOK DEF ClusterInv, UFTypeOK
    <3> QED BY <1>9, <2>5, <3>1 DEF Collect, block
  <2>7. block \in SUBSET Geoms
    BY <1>3, <1>4 DEF block
  <2>8. collections' \in Seq(SUBSET Geoms) /\ Len(collections') = Len(collections) + 1
    BY <1>4, <2>6, <2>7, AppendProperties
  <2>9. Range(collections') = Range(collections) \cup {block}
    BY <1>4, <2>6, <2>7, AppendRange
  <2>10. Range(collections') = {Members(clusters, s) : s \in Emitted'}
    BY <1>2, <2>1, <2>2, <2>9
  <2>11. CollectOK'
    BY <1>1, <1>2, <2>3, <2>4, <2>6, <2>8, <2>10 DEF CollectOK
  <2> QED BY <1>7, <2>6, <2>8, <2>11
<1> QED BY <1>8, <1>9 DEF Collect

\* The number given last is the highest; the next set gets the one above it.
LEMMA AssignInv == ASSUME ClusterInv, NEW i \in Geoms, Assign(i) PROVE ClusterInv'
<1>1. /\ phase = "emit" /\ mode = "dbscan" /\ i \in FirstOfRest /\ rest' = rest \ {i}
      /\ phase' = IF rest' = {} THEN "done" ELSE phase
      /\ UNCHANGED <<call, uf, success, scan>> /\ current' = current /\ collections' = collections
      /\ mode' = mode /\ clusters' = clusters /\ Geoms' = Geoms /\ inACluster' = inACluster
  BY DEF Assign, call, uf, scan, Geoms, Elements
<1>2. phase' \in {"emit", "done"}
  BY <1>1
<1>3. /\ \A x \in Geoms : ids[x] # -1 <=> x \in Numbered
      /\ \A x, y \in Numbered : ids[x] = ids[y] <=> clusters[x] = clusters[y]
      /\ \A x \in Numbered : \A n \in 0 .. ids[x] : \E y \in Numbered : ids[y] = n
      /\ lastOldId = -1 <=> Numbered = {}
      /\ Numbered # {} =>
            \E m \in Numbered : /\ clusters[m] = lastOldId
                                /\ \A y \in Numbered : ids[y] <= ids[m] /\ clusters[y] <= lastOldId
  BY <1>1 DEF ClusterInv, AssignOK
<1>4. /\ ids \in [Geoms -> Int] /\ lastOldId \in -1 .. N - 1
      /\ current \subseteq Geoms /\ collections \in Seq(SUBSET Geoms)
      /\ \A x \in Geoms : ids[x] \in -1 .. N - 1 - Cardinality(rest)
  BY DEF ClusterInv, EmissionOK
<1>5. /\ i \in rest /\ rest \subseteq Geoms /\ clusters[i] \in 0 .. N - 1 /\ i \notin Numbered
      /\ Numbered \subseteq Geoms
      /\ \A x \in Numbered : clusters[x] <= clusters[i] /\ clusters[x] \in 0 .. N - 1
  BY <1>1, FirstFacts DEF Numbered
<1>6. Cardinality(rest) \in 1 .. N /\ Cardinality(rest') = Cardinality(rest) - 1
  BY <1>1, <1>5, RestCount
<1>7. Numbered' = IF i \in inACluster THEN Numbered \cup {i} ELSE Numbered
  BY <1>1, FirstFacts DEF Numbered
<1>8. CollectOK'
  BY <1>1 DEF CollectOK
<1>9. ASSUME ids' \in [Geoms -> Int], lastOldId' \in -1 .. N - 1,
             \A x \in Geoms : ids'[x] \in -1 .. N - 1 - Cardinality(rest'), AssignOK'
      PROVE  ClusterInv'
  BY <1>1, <1>2, <1>4, <1>8, <1>9, EmissionStep, ScanKept DEF ClusterInv
<1>10. CASE i \notin inACluster
  <2>1. ids' = ids /\ lastOldId' = lastOldId /\ Numbered' = Numbered
    BY <1>7, <1>10 DEF Assign
  <2>2. AssignOK'
    BY <1>1, <1>3, <2>1 DEF AssignOK
  <2>3. \A x \in Geoms : ids'[x] \in -1 .. N - 1 - Cardinality(rest')
    BY <1>4, <1>6, <2>1, NAssumption
  <2> QED BY <1>4, <1>9, <2>1, <2>2, <2>3
<1>11. CASE i \in inACluster
  <2> DEFINE highest == CHOOSE n \in {ids[j] : j \in Geoms} : \A j \in Geoms : ids[j] <= n
             current_new_id == IF lastOldId = -1 THEN 0 ELSE highest
             new == IF lastOldId \notin {-1, clusters[i]} THEN current_new_id + 1 ELSE current_new_id
  <2>1. ids' = [ids EXCEPT ![i] = new] /\ lastOldId' = clusters[i]
    BY <1>11 DEF Assign
  <2>2. CASE Numbered = {}
    <3>1. new = 0
      BY <1>3, <2>2
    <3> HIDE DEF new
    <3>2. ids'[i] = 0 /\ ids' \in [Geoms -> Int] /\ \A x \in Geoms : x # i => ids'[x] = ids[x] /\ ids[x] = -1
      BY <1>3, <1>4, <2>1, <2>2, <3>1
    <3>3. \A x \in Geoms : ids'[x] \in -1 .. N - 1 - Cardinality(rest')
      BY <1>6, <3>2, NAssumption
    <3>4. Numbered' = {i}
      BY <1>7, <1>11, <2>2
    <3>5. lastOldId' # -1 /\ lastOldId' \in -1 .. N - 1
      BY <1>5, <2>1
    <3>6. AssignOK'
      BY <1>1, <1>5, <2>1, <3>2, <3>4, <3>5 DEF AssignOK
    <3> QED BY <1>9, <3>2, <3>3, <3>5, <3>6
  <2>3. CASE Numbered # {}
    <3>1. PICK m \in Numbered : /\ clusters[m] = lastOldId
                               /\ \A y \in Numbered : ids[y] <= ids[m] /\ clusters[y] <= lastOldId
      BY <1>3, <2>3
    <3>2. \A x \in Geoms : ids[x] <= ids[m]
      BY <1>3, <1>4, <1>5, <3>1
    <3>3. highest = ids[m]
      <4> DEFINE top(n) == n \in {ids[j] : j \in Geoms} /\ \A j \in Geoms : ids[j] <= n
      <4>1. top(ids[m])
        BY <1>5, <3>2
      <4>2. top(highest)
        BY <4>1
      <4>3. highest \in Int /\ ids[m] \in Int
        BY <1>4, <1>5, <4>2
      <4>4. highest <= ids[m] /\ ids[m] <= highest
        BY <1>5, <3>2, <4>2
      <4> HIDE DEF highest
      <4> QED BY <4>3, <4>4
    <3>4. new = IF clusters[m] # clusters[i] THEN ids[m] + 1 ELSE ids[m]
      <4>1. lastOldId # -1 /\ clusters[m] = lastOldId
        BY <1>3, <2>3, <3>1
      <4> HIDE DEF highest
      <4> QED BY <3>3, <4>1
    <3> HIDE DEF new, highest
    <3>5. /\ ids[m] \in 0 .. N - 1 - Cardinality(rest) /\ m \in Geoms /\ m # i /\ new \in Int
      BY <1>3, <1>4, <1>5, <1>6, <3>4, NAssumption
    <3>6. ids'[i] = new /\ ids' \in [Geoms -> Int] /\ \A x \in Geoms : x # i => ids'[x] = ids[x]
      BY <1>4, <2>1, <3>5
    <3>7. \A x \in Geoms : ids'[x] \in -1 .. N - 1 - Cardinality(rest')
      <4> DEFINE a == N - 1 - Cardinality(rest)
                 b == N - 1 - Cardinality(rest')
      <4>1. a \in Int /\ b = a + 1
        BY <1>6, NAssumption
      <4>2. new \in 0 .. a + 1
        <5>1. ids[m] \in 0 .. a
          BY <3>5
        <5> HIDE DEF a
        <5> QED BY <3>4, <4>1, <5>1
      <4>3. \A x \in Geoms : ids[x] \in -1 .. a
        BY <1>4
      <4> HIDE DEF a, b
      <4>4. \A x \in Geoms : ids'[x] \in -1 .. b
        BY ONLY <3>6, <4>1, <4>2, <4>3
      <4> QED BY <4>4 DEF b
    <3>8. Numbered' = Numbered \cup {i}
      BY <1>7, <1>11
    <3>9. lastOldId' # -1 /\ lastOldId' \in -1 .. N - 1
      BY <1>5, <2>1
    <3>10. \A x \in Numbered : ids'[x] = ids[x] /\ ids[x] \in Int /\ ids[x] <= ids[m]
      BY <1>4, <1>5, <3>1, <3>6
    <3>11. \A x \in Geoms : ids'[x] # -1 <=> x \in Numbered'
      BY <1>3, <3>4, <3>5, <3>6, <3>8
    <3>12. ASSUME NEW x \in Numbered PROVE ids'[x] = new <=> clusters[x] = clusters[i]
      <4>1. CASE clusters[m] = clusters[i]
        BY <1>3, <3>4, <3>10, <4>1
      <4>2. CASE clusters[m] # clusters[i]
        <5>1. clusters[x] <= clusters[m] /\ clusters[m] <= clusters[i] /\ clusters[x] \in Int
              /\ clusters[m] \in Int /\ clusters[i] \in Int
          BY <1>5, <3>1, NAssumption
        <5>2. clusters[x] # clusters[i]
          BY <4>2, <5>1
        <5>3. ids'[x] # new
          BY <3>4, <3>5, <3>10, <4>2
        <5> QED BY <5>2, <5>3
      <4> QED BY <4>1, <4>2
    <3>13. \A x, y \in Numbered' : ids'[x] = ids'[y] <=> clusters[x] = clusters[y]
      BY <1>3, <3>6, <3>8, <3>10, <3>12
    <3>14. ASSUME NEW x \in Numbered', NEW n \in 0 .. ids'[x] PROVE \E y \in Numbered' : ids'[y] = n
      <4>1. n \in 0 .. ids[m] \/ n = new
        BY <3>4, <3>5, <3>6, <3>8, <3>10
      <4>2. CASE n \in 0 .. ids[m]
        <5>1. PICK y \in Numbered : ids[y] = n
          BY <1>3, <4>2
        <5> QED BY <5>1, <3>8, <3>10
      <4>3. CASE n = new
        BY <3>6, <3>8, <4>3
      <4> QED BY <4>1, <4>2, <4>3
    <3>15. \A y \in Numbered' : ids'[y] <= ids'[i] /\ clusters[y] <= clusters[i]
      BY <1>5, <3>4, <3>5, <3>6, <3>8, <3>10, NAssumption
    <3>16. AssignOK'
      BY <1>1, <2>1, <3>8, <3>9, <3>11, <3>13, <3>14, <3>15 DEF AssignOK
    <3> QED BY <1>9, <3>6, <3>7, <3>9, <3>16
  <2> QED BY <2>2, <2>3
<1> QED BY <1>10, <1>11

LEMMA StutterInv == ASSUME ClusterInv, UNCHANGED vars PROVE ClusterInv'
<1>1. /\ UNCHANGED <<call, uf, success, scan>> /\ phase' = phase /\ mode' = mode
      /\ rest' = rest /\ current' = current /\ collections' = collections
      /\ ids' = ids /\ lastOldId' = lastOldId
      /\ clusters' = clusters /\ inACluster' = inACluster /\ Geoms' = Geoms
  BY DEF vars, emission, call, uf, scan, Geoms, Elements
<1>2. EmissionOK'
  BY <1>1 DEF ClusterInv, EmissionOK
<1>3. CollectOK'
  BY <1>1 DEF ClusterInv, CollectOK, Emitted, Roots
<1>4. AssignOK'
  BY <1>1 DEF ClusterInv, AssignOK, Numbered
<1> QED BY <1>1, <1>2, <1>3, <1>4, ScanKept DEF ClusterInv

\* Every action keeps the invariant.
LEMMA NextInv == ASSUME ClusterInv, [Next]_vars PROVE ClusterInv'
<1>1. CASE Advance
  BY <1>1, AdvanceInv
<1>2. CASE EndScan
  BY <1>2, EndScanInv
<1>3. CASE JoinPending
  BY <1>3, JoinPendingInv
<1>4. ASSUME NEW q \in Geoms,
             \/ VisitIntersecting(q) \/ VisitWithin(q) \/ VisitSettled(q) \/ Measure(q)
             \/ Collect(q) \/ Assign(q)
      PROVE  ClusterInv'
  BY <1>4, VisitIntersectingInv, VisitWithinInv, VisitSettledInv, MeasureInv, CollectInv, AssignInv
<1>5. CASE UNCHANGED vars
  BY <1>5, StutterInv
<1> QED BY <1>1, <1>2, <1>3, <1>4, <1>5 DEF Next

\* The invariant holds in every reachable state.
THEOREM ClusterSpecInv == Spec => []ClusterInv
BY InitCluster, NextInv, PTL DEF Spec

-----------------------------------------------------------------------------
(* What the invariant says of the results *)

LEMMA ClusterTypes == ASSUME ClusterInv PROVE TypeOK
<1>1. UFTypeOK /\ ScanOK /\ EmissionOK
  BY UFInvTypeOK DEF ClusterInv
<1>2. ASSUME NEW i \in Geoms PROVE ids[i] \in -1 .. N - 1
  <2>1. Cardinality(rest) \in Nat
    BY <1>1, SubsetCounts DEF EmissionOK, Geoms
  <2> QED BY <1>1, <2>1, NAssumption DEF EmissionOK
<1>3. ids \in [Geoms -> -1 .. N - 1]
  BY <1>1, <1>2 DEF EmissionOK
<1> QED BY <1>1, <1>3 DEF TypeOK, ScanOK, EmissionOK

\* When the scan is over all near geometries are in one set, unless DBSCAN kept them apart.
LEMMA AllJoined ==
    ASSUME ClusterInv, phase = "done", ~Dbscan
    PROVE  /\ Sound(clusters, Geoms) /\ CallOK
           /\ \A i, j \in Geoms : Near(i, j) => Root(clusters, i) = Root(clusters, j)
<1>1. success /\ todo = {} /\ (Bails \/ p = N - 1)
  BY DEF ClusterInv, FailureOK, ScannedOK
<1>2. Sound(clusters, Geoms) /\ PairsJoined
  BY <1>1 DEF ClusterInv, PlainOK
<1>3. ASSUME NEW i \in Geoms, NEW j \in Geoms, {i, j} \in scene.near, i # j
      PROVE  Root(clusters, i) = Root(clusters, j)
  <2>1. i \in 0 .. N - 1 /\ j \in 0 .. N - 1
    BY DEF Geoms, Elements
  <2>2. CASE p = N - 1
    <3>1. i <= p
      BY <2>1, <2>2, NAssumption
    <3> QED BY <1>1, <1>2, <1>3, <3>1 DEF PairsJoined, RootOf
  <2>3. CASE Bails
    <3>1. N <= 1
      BY <2>3 DEF Bails
    <3> QED BY <1>3, <2>1, <3>1, NAssumption
  <2> QED BY <1>1, <2>2, <2>3
<1> QED BY <1>2, <1>3 DEF Near, ClusterInv

LEMMA CollectionsInv == ASSUME ClusterInv PROVE CollectionsAreChains
<1>1. TypeOK
  BY ClusterTypes
<1>2. phase = "failed" => scene.fails # {}
  BY DEF ClusterInv, FailureOK
<1>3. ASSUME phase = "done", mode # "dbscan"
      PROVE  /\ {collections[k] : k \in DOMAIN collections} = Chains(Geoms)
             /\ Len(collections) = numClusters
             /\ Cardinality({collections[k] : k \in DOMAIN collections}) = numClusters
  <2>1. rest = {} /\ Emitted = Roots
    BY <1>3 DEF ClusterInv, EmissionOK, Emitted
  <2>2. /\ Range(collections) = Blocks /\ Len(collections) = Cardinality(Roots)
        /\ numClusters = Cardinality(Roots)
    BY <1>3, <2>1 DEF ClusterInv, CollectOK, Blocks, UFInv, NumClustersCounts
  <2>3. Cardinality(Blocks) = Cardinality(Roots)
    BY BlocksCount DEF ClusterInv
  <2>4. Chains(Geoms) = {{j \in Geoms : Root(clusters, j) = Root(clusters, i)} : i \in Geoms}
    BY <1>3, AllJoined, ChainsAreSets DEF Dbscan
  <2>5. \A i \in Geoms : Root(clusters, i) \in Roots
    BY RootVisited DEF ClusterInv, UFInv, Rooted, Roots, Geoms
  <2>6. \A r \in Roots : r \in Geoms /\ Root(clusters, r) = r
    BY RootOfRoot DEF ClusterInv, UFInv, Rooted, Roots, Geoms
  <2>7. \A r : Members(clusters, r) = {j \in Geoms : Root(clusters, j) = r}
    BY DEF Members, Geoms
  <2>8. Chains(Geoms) = Blocks
    <3>1. ASSUME NEW i \in Geoms
          PROVE  {j \in Geoms : Root(clusters, j) = Root(clusters, i)} \in Blocks
      <4>1. Members(clusters, Root(clusters, i)) = {j \in Geoms : Root(clusters, j) = Root(clusters, i)}
        BY <2>7
      <4> QED BY <2>5, <4>1 DEF Blocks
    <3>2. ASSUME NEW r \in Roots PROVE Members(clusters, r) \in Chains(Geoms)
      <4>1. Members(clusters, r) = {j \in Geoms : Root(clusters, j) = Root(clusters, r)}
        BY <2>6, <2>7
      <4> QED BY <2>4, <2>6, <4>1
    <3>3. Chains(Geoms) \subseteq Blocks
      BY <2>4, <3>1
    <3>4. Blocks \subseteq Chains(Geoms)
      BY <3>2 DEF Blocks
    <3> QED BY <3>3, <3>4
  <2> QED BY <2>2, <2>3, <2>8 DEF Range
<1> QED BY <1>1, <1>2, <1>3 DEF CollectionsAreChains

\* What is numbered alike when DBSCAN is done: the sets.
LEMMA NumberedAll ==
    ASSUME ClusterInv, phase = "done", mode = "dbscan"
    PROVE  /\ \A i \in Geoms : ids[i] # -1 <=> i \in inACluster
           /\ \A i, j \in inACluster : ids[i] = ids[j] <=> RootOf(i) = RootOf(j)
           /\ LET used == {ids[i] : i \in inACluster} IN used = 0 .. Cardinality(used) - 1
<1>1. Numbered = inACluster /\ inACluster \subseteq Geoms
  BY DEF ClusterInv, ScanOK, EmissionOK, Numbered
<1>2. /\ \A i \in Geoms : ids[i] # -1 <=> i \in inACluster
      /\ \A i, j \in inACluster : ids[i] = ids[j] <=> clusters[i] = clusters[j]
      /\ \A i \in inACluster : \A n \in 0 .. ids[i] : \E j \in inACluster : ids[j] = n
      /\ inACluster # {} => \E m \in inACluster : \A j \in inACluster : ids[j] <= ids[m]
  BY <1>1 DEF ClusterInv, AssignOK
<1>3. \A i \in Geoms : clusters[i] = RootOf(i)
  BY DEF ClusterInv, ScannedOK
<1>4. \A i \in Geoms : ids[i] \in -1 .. N - 1
  BY ClusterTypes DEF TypeOK
<1> DEFINE used == {ids[i] : i \in inACluster}
<1>5. used = 0 .. Cardinality(used) - 1
  <2>1. CASE inACluster = {}
    <3>1. used = {}
      BY <2>1
    <3> HIDE DEF used
    <3>2. Cardinality(used) - 1 = -1 /\ 0 .. -1 = {}
      BY <3>1, FS_EmptySet
    <3> QED BY <3>1, <3>2
  <2>2. CASE inACluster # {}
    <3>1. PICK m \in inACluster : \A j \in inACluster : ids[j] <= ids[m]
      BY <1>2, <2>2
    <3>2. \A i \in inACluster : ids[i] \in 0 .. ids[m]
      BY <1>1, <1>2, <1>4, <3>1
    <3>3. used = 0 .. ids[m]
      BY <1>2, <3>1, <3>2
    <3>4. ids[m] \in Nat
      BY <3>2
    <3> HIDE DEF used
    <3>5. Cardinality(used) = ids[m] + 1
      BY <3>3, <3>4, FS_Interval
    <3> QED BY <3>3, <3>4, <3>5
  <2> QED BY <2>1, <2>2
<1> QED BY <1>1, <1>2, <1>3, <1>5

\* DBSCAN for one point: every geometry is a core geometry.
LEMMA AllCore ==
    ASSUME ClusterInv, ~Dbscan, mode = "dbscan"
    PROVE  Core = Geoms /\ inACluster = Geoms
<1>1. minPoints \in Nat /\ minPoints <= 1 /\ inACluster = Geoms
  BY SceneAssumption DEF Dbscan, ClusterInv, CallOK, ScanOK
<1>2. ASSUME NEW i \in Geoms PROVE Cardinality(Neighborhood(i)) >= minPoints
  <2>1. i \in Neighborhood(i)
    BY DEF Neighborhood, Near
  <2>2. IsFiniteSet(Neighborhood(i)) /\ Cardinality(Neighborhood(i)) \in Nat
    BY SubsetCounts, FS_CardinalityType DEF Neighborhood, Geoms
  <2>3. Cardinality(Neighborhood(i)) # 0
    BY <2>1, <2>2, FS_EmptySet
  <2> QED BY <1>1, <2>2, <2>3
<1> QED BY <1>1, <1>2 DEF Core

\* DBSCAN for more points: when the scan is over every core geometry is in a
\* core, and nothing is still to come.
LEMMA CoreComplete ==
    ASSUME ClusterInv, phase = "done", Dbscan, minPoints # N
    PROVE  /\ isInCore = Core /\ Core \in SUBSET Geoms /\ Core \subseteq inACluster /\ CallOK
           /\ inACluster = {i \in Geoms : Core \cap Neighborhood(i) # {}}
           /\ \A q \in inACluster : \E c \in Core : Near(c, q) /\ RootOf(c) = RootOf(q)
           /\ Sound(clusters, Core)
           /\ \A i, j \in Core : Near(i, j) => Root(clusters, i) = Root(clusters, j)
<1>1. CountOK /\ CoreFound /\ BorderOK /\ Sound(clusters, Core) /\ CoreLinked /\ CoreReached
  BY DEF ClusterInv, DbscanOK
<1>2. /\ CallOK /\ ScanOK /\ todo = {} /\ pending = <<>> /\ (Bails \/ p = N - 1)
      /\ minPoints \in Nat
  BY SceneAssumption DEF ClusterInv, ScannedOK, ScanOK, CallOK
<1>3. Core \in SUBSET Geoms /\ isInCore \subseteq Core /\ isInCore \subseteq inACluster /\ inACluster \subseteq Geoms
  BY <1>1, <1>2 DEF Core, CoreFound, ScanOK
<1>4. Core \subseteq isInCore
  <2>1. CASE Bails
    <3>1. N < minPoints
      BY <1>2, <2>1, NAssumption DEF Bails
    <3>2. ASSUME NEW i \in Core PROVE FALSE
      <4>1. Cardinality(Neighborhood(i)) \in 0 .. N
        BY SubsetCounts DEF Neighborhood, Geoms
      <4>2. Cardinality(Neighborhood(i)) >= minPoints
        BY DEF Core
      <4> QED BY <1>2, <3>1, <4>1, <4>2, NAssumption
    <3> QED BY <3>2
  <2>2. CASE p = N - 1
    <3> SUFFICES ASSUME NEW i \in Core PROVE i \in isInCore
      OBVIOUS
    <3>1. i \in 0 .. N - 1
      BY <1>3 DEF Geoms, Elements
    <3>2. i <= p /\ p \in Geoms
      BY <2>2, <3>1, NAssumption DEF Geoms, Elements
    <3> QED BY <1>1, <1>2, <3>2, CoreCounted DEF ScanOK
  <2> QED BY <1>2, <2>1, <2>2
<1>5. isInCore = Core /\ ToCome = {}
  <2>1. Range(pending) = {}
    BY <1>2 DEF Range
  <2> QED BY <1>2, <1>3, <1>4, <2>1 DEF ToCome
<1>6. \A q \in inACluster : \E c \in Core : Near(c, q) /\ RootOf(c) = RootOf(q)
  BY <1>1, <1>5 DEF BorderOK
<1>7. ASSUME NEW i \in Geoms PROVE i \in inACluster <=> Core \cap Neighborhood(i) # {}
  <2>1. ASSUME i \in inACluster PROVE Core \cap Neighborhood(i) # {}
    BY <1>3, <1>6, <2>1, NearSymmetric DEF Neighborhood
  <2>2. ASSUME NEW c \in Core \cap Neighborhood(i) PROVE i \in inACluster
    <3>1. Near(c, i)
      BY NearSymmetric DEF Neighborhood
    <3> QED BY <1>1, <1>5, <3>1 DEF CoreReached
  <2> QED BY <2>1, <2>2
<1>8. \A i, j \in Core : Near(i, j) => Root(clusters, i) = Root(clusters, j)
  BY <1>1, <1>5 DEF CoreLinked, RootOf
<1> QED BY <1>1, <1>2, <1>3, <1>5, <1>6, <1>7, <1>8

LEMMA DbscanInv == ASSUME ClusterInv PROVE DbscanCorrect
<1> SUFFICES ASSUME phase = "done", mode = "dbscan", minPoints # N PROVE NumberedByDensity
  BY DEF DbscanCorrect
<1>1. /\ Core \in SUBSET Geoms /\ Core \subseteq inACluster /\ inACluster \subseteq Geoms /\ CallOK
      /\ inACluster = {i \in Geoms : Core \cap Neighborhood(i) # {}}
      /\ \A q \in inACluster : \E c \in Core : Near(c, q) /\ RootOf(c) = RootOf(q)
      /\ Sound(clusters, Core)
      /\ \A i, j \in Core : Near(i, j) => Root(clusters, i) = Root(clusters, j)
  <2>1. CASE Dbscan
    <3>1. inACluster \subseteq Geoms
      BY DEF ClusterInv, ScanOK
    <3> QED BY <2>1, <3>1, CoreComplete
  <2>2. CASE ~Dbscan
    <3>1. Core = Geoms /\ inACluster = Geoms /\ CallOK
      BY <2>2, AllCore DEF ClusterInv
    <3>2. \A i \in Geoms : Near(i, i) /\ i \in Neighborhood(i)
      BY DEF Near, Neighborhood
    <3> QED BY <2>2, <3>1, <3>2, AllJoined
  <2> QED BY <2>1, <2>2
<1>2. /\ {i \in Geoms : ids[i] # -1} = inACluster
      /\ \A i, j \in inACluster : ids[i] = ids[j] <=> RootOf(i) = RootOf(j)
      /\ LET used == {ids[i] : i \in inACluster} IN used = 0 .. Cardinality(used) - 1
  BY <1>1, NumberedAll
<1>3. \A i, j \in Core : ids[i] = ids[j] <=> \E C \in Chains(Core) : {i, j} \subseteq C
  <2>1. ASSUME NEW i \in Core, NEW j \in Core
        PROVE  (\E C \in Chains(Core) : {i, j} \subseteq C) <=> Root(clusters, i) = Root(clusters, j)
    <3>1. /\ CallOK /\ Core \in SUBSET Geoms /\ Sound(clusters, Core)
          /\ \A x, y \in Core : Near(x, y) => Root(clusters, x) = Root(clusters, y)
      BY <1>1
    <3> QED BY <3>1, ChainJoins
  <2>2. \A i, j \in Core : ids[i] = ids[j] <=> Root(clusters, i) = Root(clusters, j)
    BY <1>1, <1>2 DEF RootOf
  <2> QED BY <2>1, <2>2
<1>4. ASSUME NEW i \in inACluster PROVE \E j \in Core \cap Neighborhood(i) : ids[j] = ids[i]
  <2>1. PICK c \in Core : Near(c, i) /\ RootOf(c) = RootOf(i)
    BY <1>1
  <2>2. c \in Neighborhood(i)
    BY <1>1, <2>1, NearSymmetric DEF Neighborhood
  <2> QED BY <1>1, <1>2, <2>1, <2>2
<1> QED BY <1>1, <1>2, <1>3, <1>4 DEF NumberedByDensity

(***************************************************************************)
(* The results.                                                            *)
(***************************************************************************)
\* The variables keep their types and bounds, whatever is clustered.
THEOREM ClusterTypeCorrect == Spec => []TypeOK
BY ClusterSpecInv, ClusterTypes, PTL

\* The collections returned by the clusterings by intersection and by distance
\* are the chains of near geometries, each once, and fill the array allocated
\* for them; only a failed measurement makes a clustering fail.
THEOREM CollectionsCorrect == Spec => []CollectionsAreChains
BY ClusterSpecInv, CollectionsInv, PTL

\* DBSCAN numbers the geometries by density, in whatever order the index
\* returns the candidates, unless there are exactly min_points geometries.
THEOREM NumbersCorrect == Spec => []DbscanCorrect
BY ClusterSpecInv, DbscanInv, PTL

=============================================================================
