----------------------------- MODULE MCCluster -----------------------------
(***************************************************************************)
(* Every relation over four geometries, beside three empty ones, and two   *)
(* stars that share a border geometry whose index lies before, between and *)
(* after the indices of the two centers.                                   *)
(***************************************************************************)
EXTENDS Cluster

Pairs(S) == {{i, j} : i, j \in S} \ {{i} : i \in S}

Scene(near, boxes, fails, empty) == [near |-> near, boxes |-> boxes, fails |-> fails, empty |-> empty]

Small == {Scene(near, {{0, 1}, {2, 3}}, {}, 4 .. N - 1) : near \in SUBSET Pairs(0 .. 3)}
         \cup {Scene(near, {}, {{1, 2}}, 4 .. N - 1) :
            near \in SUBSET {{0, 1}, {0, 2}, {2, 3}}}

Star(center, points) == {{center, i} : i \in points}

TwoStars == {Scene(Star(a, {b, 2, 3}) \cup Star(c, {b, 5, 6}), {{a, c}}, {}, {}) :
               <<a, b, c>> \in {<<0, 1, 4>>, <<0, 4, 1>>, <<1, 0, 4>>}}

MCScenes == Small \cup TwoStars

\* As many geometries as min_points, all near each other.
Triangle == {Scene(Pairs(Geoms), {}, {}, {})}

=============================================================================
