----------------------------- MODULE UnionFind -----------------------------
(***************************************************************************)
(* The disjoint-set forest of lwunionfind.c: parent pointers, union by     *)
(* size, path compression.  The operators take the pointers as a parameter *)
(* so that one call may use the forest an earlier call of the same step    *)
(* has compressed.                                                         *)
(***************************************************************************)
EXTENDS Integers, FiniteSets

CONSTANT N                 \* uf->N
ASSUME NAssumption == N \in Nat

VARIABLES clusters, clusterSizes, numClusters

uf == <<clusters, clusterSizes, numClusters>>

Elements == 0 .. N - 1

UFInit ==
    /\ clusters = [i \in Elements |-> i]
    /\ clusterSizes = [i \in Elements |-> 1]
    /\ numClusters = N

-----------------------------------------------------------------------------
(***************************************************************************)
(* UF_find.  The loop over parent pointers visits the least set that holds *)
(* i and is closed under the pointers, and stops at a self-pointer in it.  *)
(* The second loop points every element it visited at that root.           *)
(***************************************************************************)
Closed(c, S) == \A x \in S : c[x] \in S

Visited(c, i) ==
    LET closed == {S \in SUBSET Elements : i \in S /\ Closed(c, S)}
    IN  {j \in Elements : \A S \in closed : j \in S}

Root(c, i) == CHOOSE r \in Visited(c, i) : c[r] = r

Compressed(c, i) ==
    LET visited == Visited(c, i)
        root == Root(c, i)
    IN  [k \in Elements |-> IF k \in visited THEN root ELSE c[k]]

Find(i) ==
    /\ clusters' = Compressed(clusters, i)
    /\ UNCHANGED <<clusterSizes, numClusters>>

\* UF_union looks both elements up before it compares their roots.
Found(i, j) == Compressed(Compressed(clusters, i), j)

\* The smaller tree goes under the larger, the higher index under the lower.
Loses(a, b) ==
    \/ clusterSizes[a] < clusterSizes[b]
    \/ clusterSizes[a] = clusterSizes[b] /\ a > b

\* Defect: the loser's size is left in place.
AttachKeepsSize(c, loser, winner) ==
    /\ clusters' = [c EXCEPT ![loser] = c[winner]]
    /\ clusterSizes' = [clusterSizes EXCEPT ![winner] = clusterSizes[winner] + clusterSizes[loser]]
    /\ numClusters' = numClusters - 1

\* Defect: each of the two is made to point at the other.
AttachBoth(c, loser, winner) ==
    /\ clusters' = [c EXCEPT ![loser] = winner, ![winner] = loser]
    /\ clusterSizes' = [clusterSizes EXCEPT ![winner] = clusterSizes[winner] + clusterSizes[loser],
                                            ![loser] = 0]
    /\ numClusters' = numClusters - 1

Attach(c, loser, winner) ==
    /\ clusters' = [c EXCEPT ![loser] = c[winner]]
    /\ clusterSizes' = [clusterSizes EXCEPT ![winner] = clusterSizes[winner] + clusterSizes[loser],
                                            ![loser] = 0]
    /\ numClusters' = numClusters - 1

\* Defect: the elements are joined instead of their roots.
UnionOfElements(i, j) ==
    LET c == Found(i, j)
    IN  \/ c[i] = c[j] /\ clusters' = c /\ UNCHANGED <<clusterSizes, numClusters>>
        \/ c[i] # c[j] /\ Loses(c[i], c[j]) /\ Attach(c, i, c[j])
        \/ c[i] # c[j] /\ ~Loses(c[i], c[j]) /\ Attach(c, j, c[i])

\* Defect: the number of clusters goes down although nothing was joined.
UnionCountsSame(i, j) ==
    LET c == Found(i, j)
        a == Root(clusters, i)
        b == Root(Compressed(clusters, i), j)
    IN  \/ a = b /\ clusters' = c /\ UNCHANGED clusterSizes /\ numClusters' = numClusters - 1
        \/ a # b /\ Loses(a, b) /\ Attach(c, a, b)
        \/ a # b /\ ~Loses(a, b) /\ Attach(c, b, a)

Union(i, j) ==
    LET c == Found(i, j)
        a == Root(clusters, i)
        b == Root(Compressed(clusters, i), j)
    IN  \/ a = b /\ clusters' = c /\ UNCHANGED <<clusterSizes, numClusters>>
        \/ a # b /\ Loses(a, b) /\ Attach(c, a, b)
        \/ a # b /\ ~Loses(a, b) /\ Attach(c, b, a)

UFNext ==
    \/ \E i \in Elements : Find(i)
    \/ \E i, j \in Elements : Union(i, j)

UFSpec == UFInit /\ [][UFNext]_uf

-----------------------------------------------------------------------------
Roots == {r \in Elements : clusters[r] = r}

Members(c, r) == {i \in Elements : Root(c, i) = r}

UFTypeOK ==
    /\ clusters \in [Elements -> Elements]
    /\ clusterSizes \in [Elements -> 0 .. N]
    /\ numClusters \in 0 .. N

\* No pointers lead round in a cycle: a set they never leave holds a root.
Forest(c) == \A S \in SUBSET Elements : S # {} /\ Closed(c, S) => \E r \in S : c[r] = r

\* UF_find ends from every element: following the pointers comes to an
\* element that points to itself.
Rooted == Forest(clusters)

\* The sizes that decide which tree loses, and that UF_size returns, count
\* the elements that UF_find takes to that root; the others hold 0.
SizesCount ==
    \A r \in Elements :
        clusterSizes[r] = IF r \in Roots THEN Cardinality(Members(clusters, r)) ELSE 0

\* combine_geometries allocates num_clusters slots and fills one per root.
NumClustersCounts == numClusters = Cardinality(Roots)

\* The forest, its sizes and its counter agree after any sequence of unions and
\* finds (UF_find ends, UF_union chooses by true sizes, combine_geometries
\* allocates as many slots as it fills).
ForestOK == UFTypeOK /\ Rooted /\ SizesCount /\ NumClustersCounts

(***************************************************************************)
(* Looking up and compressing never moves an element to another set, and a *)
(* union joins the two sets it was asked for and no others.                *)
(***************************************************************************)
Blocks == {Members(clusters, r) : r \in Roots}

Sets == INSTANCE Partition WITH blocks <- Blocks

PartitionSpec == Sets!Spec

=============================================================================
