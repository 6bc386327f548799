--------------------------- MODULE TopoGeomProofs ---------------------------
(***************************************************************************)
(* What the predicates of TopoGeom mean, for any coordinates.  They look   *)
(* at the vertices of lines and at signs of products; the lemmas here say  *)
(* what that tells of all the points of the plane, in five parts:          *)
(*   - Between, Overlap and CrossInside, and segments that are Clear of    *)
(*     each other: they have at most one point in common, an end of one;   *)
(*   - ClockwiseBefore, which orders directions around a point as on a     *)
(*     circle, wherever the order starts;                                  *)
(*   - Turns, the round of the ends around a point, and what ends that     *)
(*     come, go, move or change their names make of it;                    *)
(*   - IsSimple and InteriorsMeet, by what points lie on which line;       *)
(*   - lines reversed, cut and joined, which stay simple and apart.        *)
(* An argument about a point of a segment goes by the fraction of the way  *)
(* at which the point lies (OnWay): on one line, order and distance are    *)
(* those of integers.                                                      *)
(***************************************************************************)
EXTENDS TopoGeom, Induction, FiniteSetTheorems, SequenceTheorems

-----------------------------------------------------------------------------
(* Points of a segment *)

LEMMA BetweenNumbers ==
  \A x, a, b \in Int : (x - a) * (x - b) <= 0 <=> (a <= x /\ x <= b) \/ (b <= x /\ x <= a)
  OBVIOUS

\* A vector parallel to w is its dot product with w times w.
LEMMA AlongX ==
  ASSUME NEW w1 \in Int, NEW w2 \in Int, NEW x \in Int, NEW y \in Int, w1 * y = w2 * x
  PROVE  /\ (w1 * w1 + w2 * w2) * x = (w1 * x + w2 * y) * w1
         /\ (w1 * w1 + w2 * w2) * y = (w1 * x + w2 * y) * w2
  OBVIOUS

LEMMA PointParts ==
  ASSUME NEW a \in Plane, NEW b \in Plane
  PROVE  /\ a[1] \in Int /\ a[2] \in Int
         /\ a = b <=> a[1] = b[1] /\ a[2] = b[2]
  BY DEF Plane

\* Between without products of differences but the one.
LEMMA BetweenOpen ==
  ASSUME NEW p \in Plane, NEW a \in Plane, NEW b \in Plane
  PROVE  Between(p, a, b) <=>
           /\ (b[1] - a[1]) * (p[2] - a[2]) = (b[2] - a[2]) * (p[1] - a[1])
           /\ (a[1] <= p[1] /\ p[1] <= b[1]) \/ (b[1] <= p[1] /\ p[1] <= a[1])
           /\ (a[2] <= p[2] /\ p[2] <= b[2]) \/ (b[2] <= p[2] /\ p[2] <= a[2])
<1>1. /\ p[1] \in Int /\ p[2] \in Int
      /\ a[1] \in Int /\ a[2] \in Int
      /\ b[1] \in Int /\ b[2] \in Int
  BY PointParts
<1>2. (p[1] - a[1]) * (p[1] - b[1]) <= 0
        <=> (a[1] <= p[1] /\ p[1] <= b[1]) \/ (b[1] <= p[1] /\ p[1] <= a[1])
  BY <1>1, BetweenNumbers
<1>3. (p[2] - a[2]) * (p[2] - b[2]) <= 0
        <=> (a[2] <= p[2] /\ p[2] <= b[2]) \/ (b[2] <= p[2] /\ p[2] <= a[2])
  BY <1>1, BetweenNumbers
<1>4. (b[1] - a[1]) * (p[2] - a[2]) \in Int /\ (b[2] - a[2]) * (p[1] - a[1]) \in Int
  BY <1>1
<1>5. Cross(a, b, p) = 0 <=> (b[1] - a[1]) * (p[2] - a[2]) = (b[2] - a[2]) * (p[1] - a[1])
  BY <1>4 DEF Cross
<1> QED BY <1>2, <1>3, <1>5 DEF Between

Dot(u, v) == u[1] * v[1] + u[2] * v[2]

Along(a, b, p) == Dot(Direction(a, b), Direction(a, p))

\* p is s / W times the vector w away from o.
Scaled(W, X, k, c) == W * X = k * c

OnWay(o, w, W, p, s) == Scaled(W, p[1] - o[1], s, w[1]) /\ Scaled(W, p[2] - o[2], s, w[2])

\* Multiples by factors of one sign lie on one side.
LEMMA SameSide ==
  ASSUME NEW W \in Int, W > 0, NEW c \in Int, NEW k \in Int, NEW l \in Int,
         NEW X \in Int, NEW Y \in Int, Scaled(W, X, k, c), Scaled(W, Y, l, c),
         (k >= 0 /\ l >= 0) \/ (k <= 0 /\ l <= 0)
  PROVE  (X >= 0 /\ Y >= 0) \/ (X <= 0 /\ Y <= 0)
<1>1. (k * c >= 0 /\ l * c >= 0) \/ (k * c <= 0 /\ l * c <= 0)
  OBVIOUS
<1>2. k * c \in Int /\ l * c \in Int
  OBVIOUS
<1>0. W * X = k * c /\ W * Y = l * c
  BY DEF Scaled
<1>3. W * X >= 0 => X >= 0
  OBVIOUS
<1>4. W * X <= 0 => X <= 0
  OBVIOUS
<1>5. W * Y >= 0 => Y >= 0
  OBVIOUS
<1>6. W * Y <= 0 => Y <= 0
  OBVIOUS
<1> QED BY <1>0, <1>1, <1>3, <1>4, <1>5, <1>6

\* Multiples of one vector are parallel.
LEMMA Parallel ==
  ASSUME NEW W \in Int, W > 0, NEW c \in Int, NEW d \in Int, NEW k \in Int, NEW l \in Int,
         NEW X \in Int, NEW Y \in Int, NEW U \in Int, NEW V \in Int,
         Scaled(W, X, k, c), Scaled(W, Y, k, d), Scaled(W, U, l, c), Scaled(W, V, l, d)
  PROVE  X * V = Y * U
<1>1. (W * X) * (W * V) = (k * c) * (l * d) /\ (W * Y) * (W * U) = (k * d) * (l * c)
  BY DEF Scaled
<1>2. (W * W) * (X * V) = (W * W) * (Y * U)
  BY <1>1
<1>3. W * W > 0 /\ X * V \in Int /\ Y * U \in Int
  OBVIOUS
<1> QED BY <1>2, <1>3

\* The way from one point of a line to another.
LEMMA StepAlong ==
  ASSUME NEW W \in Int, NEW w \in Int, NEW r \in Int, NEW s \in Int,
         NEW x \in Int, NEW y \in Int, NEW o \in Int,
         Scaled(W, x - o, r, w), Scaled(W, y - o, s, w)
  PROVE  Scaled(W, y - x, s - r, w)
  BY DEF Scaled

\* Points of a line are between each other as their factors are.
LEMMA Ordered ==
  ASSUME NEW o \in Plane, NEW w \in Plane, NEW W \in Int, W > 0,
         NEW x \in Plane, NEW y \in Plane, NEW z \in Plane,
         NEW r \in Int, NEW s \in Int, NEW t \in Int,
         OnWay(o, w, W, x, r), OnWay(o, w, W, y, s), OnWay(o, w, W, z, t),
         (r <= s /\ s <= t) \/ (t <= s /\ s <= r)
  PROVE  Between(y, x, z)
<1>0. /\ x[1] \in Int /\ x[2] \in Int /\ y[1] \in Int /\ y[2] \in Int /\ z[1] \in Int /\ z[2] \in Int
      /\ o[1] \in Int /\ o[2] \in Int /\ w[1] \in Int /\ w[2] \in Int
  BY PointParts
<1> DEFINE X == y[1] - x[1]
           Y == y[2] - x[2]
           U == z[1] - y[1]
           V == z[2] - y[2]
           k == s - r
           l == t - s
<1>a. X \in Int /\ Y \in Int /\ U \in Int /\ V \in Int /\ k \in Int /\ l \in Int
  BY <1>0
<1>b. (k >= 0 /\ l >= 0) \/ (k <= 0 /\ l <= 0)
  OBVIOUS
<1>1. Scaled(W, X, k, w[1]) /\ Scaled(W, Y, k, w[2])
  BY <1>0, StepAlong DEF OnWay
<1>2. Scaled(W, U, l, w[1]) /\ Scaled(W, V, l, w[2])
  BY <1>0, StepAlong DEF OnWay
<1>c. /\ y[1] = x[1] + X /\ y[2] = x[2] + Y /\ z[1] = x[1] + X + U /\ z[2] = x[2] + Y + V
      /\ z[1] - x[1] = X + U /\ z[2] - x[2] = Y + V
  BY <1>0
<1>d. y[1] - x[1] = X /\ y[2] - x[2] = Y
  OBVIOUS
<1> HIDE DEF X, Y, U, V, k, l
<1>3. (X >= 0 /\ U >= 0) \/ (X <= 0 /\ U <= 0)
  BY <1>0, <1>1, <1>2, <1>a, <1>b, SameSide
<1>4. (Y >= 0 /\ V >= 0) \/ (Y <= 0 /\ V <= 0)
  BY <1>0, <1>1, <1>2, <1>a, <1>b, SameSide
<1>5. X * V = Y * U
  BY <1>0, <1>1, <1>2, <1>a, Parallel
<1>6. (X + U) * Y = (Y + V) * X
  BY <1>5, <1>a
<1>7. (z[1] - x[1]) * (y[2] - x[2]) = (z[2] - x[2]) * (y[1] - x[1])
  BY <1>c, <1>d, <1>6
<1>8. (x[1] <= y[1] /\ y[1] <= z[1]) \/ (z[1] <= y[1] /\ y[1] <= x[1])
  BY <1>0, <1>a, <1>c, <1>3
<1>9. (x[2] <= y[2] /\ y[2] <= z[2]) \/ (z[2] <= y[2] /\ y[2] <= x[2])
  BY <1>0, <1>a, <1>c, <1>4
<1> QED BY <1>7, <1>8, <1>9, BetweenOpen

\* Points on the line through a and b, by how far along they are.
LEMMA Frame ==
  ASSUME NEW a \in Plane, NEW b \in Plane, a # b
  PROVE  /\ Direction(a, b) \in Plane
         /\ Dot(Direction(a, b), Direction(a, b)) \in Int
         /\ Dot(Direction(a, b), Direction(a, b)) > 0
         /\ \A p \in Plane : Along(a, b, p) \in Int
         /\ Along(a, b, a) = 0 /\ Along(a, b, b) = Dot(Direction(a, b), Direction(a, b))
         /\ Cross(a, b, a) = 0 /\ Cross(a, b, b) = 0
         /\ \A p \in Plane : Cross(a, b, p) = 0 =>
               OnWay(a, Direction(a, b), Dot(Direction(a, b), Direction(a, b)), p, Along(a, b, p))
<1>1. /\ a[1] \in Int /\ a[2] \in Int /\ b[1] \in Int /\ b[2] \in Int
      /\ a[1] # b[1] \/ a[2] # b[2]
  BY PointParts
<1>2. PICK w1 \in Int, w2 \in Int : w1 = b[1] - a[1] /\ w2 = b[2] - a[2]
  BY <1>1
<1>3. Direction(a, b) = <<w1, w2>> /\ Dot(Direction(a, b), Direction(a, b)) = w1 * w1 + w2 * w2
  BY <1>2 DEF Direction, Dot
<1>4. w1 # 0 \/ w2 # 0
  BY <1>1, <1>2
<1>5. w1 * w1 + w2 * w2 > 0 /\ w1 * w1 + w2 * w2 \in Int
  <2>1. w1 * w1 >= 0 /\ w2 * w2 >= 0 /\ (w1 # 0 => w1 * w1 > 0) /\ (w2 # 0 => w2 * w2 > 0)
    OBVIOUS
  <2>2. w1 * w1 \in Int /\ w2 * w2 \in Int
    OBVIOUS
  <2> QED BY <2>1, <2>2, <1>4
<1>6. ASSUME NEW p \in Plane
      PROVE  /\ Along(a, b, p) = w1 * (p[1] - a[1]) + w2 * (p[2] - a[2])
             /\ Along(a, b, p) \in Int
             /\ Cross(a, b, p) = w1 * (p[2] - a[2]) - w2 * (p[1] - a[1])
  <2>1. p[1] \in Int /\ p[2] \in Int
    BY PointParts
  <2>2. Direction(a, p) = <<p[1] - a[1], p[2] - a[2]>>
    BY DEF Direction
  <2> QED BY <2>1, <2>2, <1>1, <1>2, <1>3 DEF Along, Dot, Cross
<1>7. ASSUME NEW p \in Plane, Cross(a, b, p) = 0
      PROVE  OnWay(a, Direction(a, b), Dot(Direction(a, b), Direction(a, b)), p, Along(a, b, p))
  <2>1. p[1] \in Int /\ p[2] \in Int
    BY PointParts
  <2>2. PICK x \in Int, y \in Int : x = p[1] - a[1] /\ y = p[2] - a[2]
    BY <2>1, <1>1
  <2>3. w1 * y - w2 * x = 0 /\ Along(a, b, p) = w1 * x + w2 * y
    BY <1>6, <1>7, <2>2
  <2>4. w1 * y = w2 * x
    BY <2>3
  <2>5. /\ (w1 * w1 + w2 * w2) * x = (w1 * x + w2 * y) * w1
        /\ (w1 * w1 + w2 * w2) * y = (w1 * x + w2 * y) * w2
    BY <2>4, AlongX
  <2>6. Direction(a, b)[1] = w1 /\ Direction(a, b)[2] = w2
    BY <1>3
  <2> QED BY <2>2, <2>3, <2>5, <2>6, <1>3 DEF OnWay, Scaled
<1>8. Along(a, b, a) = 0 /\ Cross(a, b, a) = 0
  BY <1>1, <1>6
<1>9. Along(a, b, b) = w1 * w1 + w2 * w2 /\ Cross(a, b, b) = 0
  BY <1>1, <1>2, <1>6
<1>10. Direction(a, b) \in Plane
  BY <1>3 DEF Plane
<1> QED BY <1>3, <1>5, <1>6, <1>7, <1>8, <1>9, <1>10

\* A point is on a segment when it is on its line, not before the start and not
\* after the end.
LEMMA BetweenAlong ==
  ASSUME NEW a \in Plane, NEW b \in Plane, a # b, NEW p \in Plane
  PROVE  Between(p, a, b) <=> /\ Cross(a, b, p) = 0
                              /\ 0 <= Along(a, b, p) /\ Along(a, b, p) <= Along(a, b, b)
<1>1. /\ a[1] \in Int /\ a[2] \in Int /\ b[1] \in Int /\ b[2] \in Int /\ p[1] \in Int /\ p[2] \in Int
  BY PointParts
<1>2. ASSUME Between(p, a, b)
      PROVE  /\ Cross(a, b, p) = 0
             /\ 0 <= Along(a, b, p) /\ Along(a, b, p) <= Along(a, b, b)
  <2> DEFINE w1 == b[1] - a[1]
             w2 == b[2] - a[2]
             x == p[1] - a[1]
             y == p[2] - a[2]
  <2>1. w1 \in Int /\ w2 \in Int /\ x \in Int /\ y \in Int
    BY <1>1
  <2>2. Along(a, b, p) = w1 * x + w2 * y /\ Along(a, b, b) = w1 * w1 + w2 * w2
    BY DEF Along, Dot, Direction
  <2>3. ((0 <= x /\ x <= w1) \/ (w1 <= x /\ x <= 0)) /\ ((0 <= y /\ y <= w2) \/ (w2 <= y /\ y <= 0))
    BY <1>1, <1>2, BetweenOpen
  <2> HIDE DEF w1, w2, x, y
  <2>4. 0 <= w1 * x /\ w1 * x <= w1 * w1 /\ 0 <= w2 * y /\ w2 * y <= w2 * w2
    BY <2>1, <2>3
  <2>5. w1 * x \in Int /\ w1 * w1 \in Int /\ w2 * y \in Int /\ w2 * w2 \in Int
    BY <2>1
  <2>6. 0 <= Along(a, b, p) /\ Along(a, b, p) <= Along(a, b, b)
    BY <2>2, <2>4, <2>5
  <2> QED BY <1>2, <2>6 DEF Between
<1>3. ASSUME Cross(a, b, p) = 0, 0 <= Along(a, b, p), Along(a, b, p) <= Along(a, b, b)
      PROVE  Between(p, a, b)
  <2> DEFINE w == Direction(a, b)
             W == Dot(w, w)
  <2>1. w \in Plane /\ W \in Int /\ W > 0 /\ Along(a, b, p) \in Int
    BY Frame
  <2>2. OnWay(a, w, W, a, 0) /\ OnWay(a, w, W, b, W) /\ OnWay(a, w, W, p, Along(a, b, p))
    BY <1>3, Frame
  <2>3. Along(a, b, b) = W
    BY Frame
  <2> HIDE DEF w, W
  <2>4. 0 \in Int
    OBVIOUS
  <2> QED BY <1>3, <2>1, <2>2, <2>3, <2>4, Ordered
<1> QED BY <1>2, <1>3

LEMMA BetweenEnds ==
  ASSUME NEW a \in Plane, NEW b \in Plane
  PROVE  Between(a, a, b) /\ Between(b, a, b)
  BY BetweenOpen, PointParts

LEMMA BetweenBox ==
  ASSUME NEW a \in Plane, NEW b \in Plane, NEW p \in Plane, Between(p, a, b)
  PROVE  /\ (a[1] <= p[1] /\ p[1] <= b[1]) \/ (b[1] <= p[1] /\ p[1] <= a[1])
         /\ (a[2] <= p[2] /\ p[2] <= b[2]) \/ (b[2] <= p[2] /\ p[2] <= a[2])
  BY BetweenOpen

LEMMA BetweenSwap ==
  ASSUME NEW a \in Plane, NEW b \in Plane, NEW p \in Plane
  PROVE  Between(p, a, b) <=> Between(p, b, a)
<1>1. /\ a[1] \in Int /\ a[2] \in Int /\ b[1] \in Int /\ b[2] \in Int /\ p[1] \in Int /\ p[2] \in Int
  BY PointParts
<1>2. (b[1] - a[1]) * (p[2] - a[2]) = (b[2] - a[2]) * (p[1] - a[1])
        <=> (a[1] - b[1]) * (p[2] - b[2]) = (a[2] - b[2]) * (p[1] - b[1])
  <2> DEFINE w1 == b[1] - a[1]
             w2 == b[2] - a[2]
             x == p[1] - a[1]
             y == p[2] - a[2]
  <2>1. w1 \in Int /\ w2 \in Int /\ x \in Int /\ y \in Int
    BY <1>1
  <2>2. a[1] - b[1] = -w1 /\ a[2] - b[2] = -w2 /\ p[1] - b[1] = x - w1 /\ p[2] - b[2] = y - w2
    BY <1>1
  <2>3. w1 * y = w2 * x <=> (-w1) * (y - w2) = (-w2) * (x - w1)
    <3> HIDE DEF w1, w2, x, y
    <3>1. (-w1) * (y - w2) = w1 * w2 - w1 * y /\ (-w2) * (x - w1) = w1 * w2 - w2 * x
      BY <2>1
    <3>2. w1 * w2 \in Int /\ w1 * y \in Int /\ w2 * x \in Int
      BY <2>1
    <3> QED BY <3>1, <3>2
  <2> QED BY <2>2, <2>3
<1> QED BY <1>1, <1>2, BetweenOpen

LEMMA BetweenPoint ==
  ASSUME NEW a \in Plane, NEW p \in Plane, Between(p, a, a)
  PROVE  p = a
<1>1. a[1] \in Int /\ a[2] \in Int /\ p[1] \in Int /\ p[2] \in Int
  BY PointParts
<1>2. a[1] = p[1] /\ a[2] = p[2]
  BY <1>1, BetweenBox
<1> QED BY <1>2, PointParts

LEMMA ParallelTwice ==
  ASSUME NEW w1 \in Int, NEW w2 \in Int, NEW x \in Int, NEW y \in Int, NEW u \in Int, NEW v \in Int,
         x # 0 \/ y # 0, w1 * y = w2 * x, x * v = y * u
  PROVE  w1 * v = w2 * u
<1>1. CASE x # 0
  <2>1. x * (w1 * v) = x * (w2 * u)
    <3>1. x * (w1 * v) = w1 * (x * v) /\ x * (w2 * u) = (w2 * x) * u
      OBVIOUS
    <3>2. w1 * (x * v) = (w1 * y) * u
      OBVIOUS
    <3> QED BY <3>1, <3>2
  <2>2. w1 * v \in Int /\ w2 * u \in Int
    OBVIOUS
  <2> QED BY <1>1, <2>1, <2>2
<1>2. CASE y # 0
  <2>1. y * (w1 * v) = y * (w2 * u)
    <3>1. y * (w1 * v) = (w1 * y) * v /\ y * (w2 * u) = w2 * (y * u)
      OBVIOUS
    <3>2. (w1 * y) * v = w2 * (x * v)
      OBVIOUS
    <3> QED BY <3>1, <3>2
  <2>2. w1 * v \in Int /\ w2 * u \in Int
    OBVIOUS
  <2> QED BY <1>2, <2>1, <2>2
<1> QED BY <1>1, <1>2

\* A part of a segment lies on it.
LEMMA BetweenPart ==
  ASSUME NEW a \in Plane, NEW b \in Plane, NEW p \in Plane, NEW q \in Plane,
         Between(p, a, b), Between(q, a, p)
  PROVE  Between(q, a, b)
<1>1. /\ a[1] \in Int /\ a[2] \in Int /\ b[1] \in Int /\ b[2] \in Int
      /\ p[1] \in Int /\ p[2] \in Int /\ q[1] \in Int /\ q[2] \in Int
  BY PointParts
<1>2. CASE p = a
  BY <1>2, BetweenPoint, BetweenEnds
<1>3. CASE p # a
  <2> DEFINE w1 == b[1] - a[1]
             w2 == b[2] - a[2]
             x == p[1] - a[1]
             y == p[2] - a[2]
             u == q[1] - a[1]
             v == q[2] - a[2]
  <2>1. w1 \in Int /\ w2 \in Int /\ x \in Int /\ y \in Int /\ u \in Int /\ v \in Int
    BY <1>1
  <2>2. w1 * y = w2 * x /\ x * v = y * u
    BY BetweenOpen
  <2>3. x # 0 \/ y # 0
    BY <1>1, <1>3, PointParts
  <2>4. w1 * v = w2 * u
    <3> HIDE DEF w1, w2, x, y, u, v
    <3> QED BY <2>1, <2>2, <2>3, ParallelTwice
  <2>5. (a[1] <= q[1] /\ q[1] <= b[1]) \/ (b[1] <= q[1] /\ q[1] <= a[1])
    BY <1>1, BetweenOpen
  <2>6. (a[2] <= q[2] /\ q[2] <= b[2]) \/ (b[2] <= q[2] /\ q[2] <= a[2])
    BY <1>1, BetweenOpen
  <2> QED BY <2>4, <2>5, <2>6, BetweenOpen
<1> QED BY <1>2, <1>3

\* The two parts of a segment meet in one point.
LEMMA BetweenParts ==
  ASSUME NEW a \in Plane, NEW b \in Plane, NEW p \in Plane, NEW q \in Plane,
         Between(p, a, b), Between(q, a, p), Between(q, p, b)
  PROVE  q = p
<1>1. /\ a[1] \in Int /\ a[2] \in Int /\ b[1] \in Int /\ b[2] \in Int
      /\ p[1] \in Int /\ p[2] \in Int /\ q[1] \in Int /\ q[2] \in Int
  BY PointParts
<1>2. /\ (a[1] <= p[1] /\ p[1] <= b[1]) \/ (b[1] <= p[1] /\ p[1] <= a[1])
      /\ (a[2] <= p[2] /\ p[2] <= b[2]) \/ (b[2] <= p[2] /\ p[2] <= a[2])
      /\ (a[1] <= q[1] /\ q[1] <= p[1]) \/ (p[1] <= q[1] /\ q[1] <= a[1])
      /\ (a[2] <= q[2] /\ q[2] <= p[2]) \/ (p[2] <= q[2] /\ q[2] <= a[2])
      /\ (p[1] <= q[1] /\ q[1] <= b[1]) \/ (b[1] <= q[1] /\ q[1] <= p[1])
      /\ (p[2] <= q[2] /\ q[2] <= b[2]) \/ (b[2] <= q[2] /\ q[2] <= p[2])
  BY BetweenBox
<1>3. q[1] = p[1]
  BY <1>1, <1>2
<1>4. q[2] = p[2]
  BY <1>1, <1>2
<1> QED BY <1>3, <1>4, PointParts

-----------------------------------------------------------------------------
(* Two segments *)

\* A number that is linear along a way is a mean of its values at the ends.
LEMMA Linear ==
  ASSUME NEW c \in Plane, NEW d \in Plane, NEW x \in Plane, NEW W \in Int, NEW s \in Int,
         OnWay(c, Direction(c, d), W, x, s), NEW a \in Plane, NEW b \in Plane
  PROVE  /\ W * Cross(a, b, x) = (W - s) * Cross(a, b, c) + s * Cross(a, b, d)
         /\ W * Along(a, b, x) = (W - s) * Along(a, b, c) + s * Along(a, b, d)
<1>1. /\ a[1] \in Int /\ a[2] \in Int /\ b[1] \in Int /\ b[2] \in Int
      /\ c[1] \in Int /\ c[2] \in Int /\ d[1] \in Int /\ d[2] \in Int
      /\ x[1] \in Int /\ x[2] \in Int
  BY PointParts
<1> DEFINE w1 == b[1] - a[1]
           w2 == b[2] - a[2]
           c1 == c[1] - a[1]
           c2 == c[2] - a[2]
           v1 == d[1] - c[1]
           v2 == d[2] - c[2]
           x1 == x[1] - c[1]
           x2 == x[2] - c[2]
<1>2. /\ w1 \in Int /\ w2 \in Int /\ c1 \in Int /\ c2 \in Int
      /\ v1 \in Int /\ v2 \in Int /\ x1 \in Int /\ x2 \in Int
  BY <1>1
<1>3. W * x1 = s * v1 /\ W * x2 = s * v2
  BY DEF OnWay, Scaled, Direction
<1>4. /\ x[1] - a[1] = x1 + c1 /\ x[2] - a[2] = x2 + c2
      /\ d[1] - a[1] = v1 + c1 /\ d[2] - a[2] = v2 + c2
  BY <1>1
<1>5. /\ Cross(a, b, x) = w1 * (x2 + c2) - w2 * (x1 + c1)
      /\ Cross(a, b, c) = w1 * c2 - w2 * c1
      /\ Cross(a, b, d) = w1 * (v2 + c2) - w2 * (v1 + c1)
  BY <1>4 DEF Cross
<1>6. /\ Along(a, b, x) = w1 * (x1 + c1) + w2 * (x2 + c2)
      /\ Along(a, b, c) = w1 * c1 + w2 * c2
      /\ Along(a, b, d) = w1 * (v1 + c1) + w2 * (v2 + c2)
  BY <1>4 DEF Along, Dot, Direction
<1> HIDE DEF w1, w2, c1, c2, v1, v2, x1, x2
<1>7. /\ W * (w1 * (x2 + c2) - w2 * (x1 + c1))
           = w1 * (W * x2) - w2 * (W * x1) + W * (w1 * c2 - w2 * c1)
      /\ W * (w1 * (x1 + c1) + w2 * (x2 + c2))
           = w1 * (W * x1) + w2 * (W * x2) + W * (w1 * c1 + w2 * c2)
  BY <1>2
<1>8. /\ w1 * (s * v2) - w2 * (s * v1) + W * (w1 * c2 - w2 * c1)
           = (W - s) * (w1 * c2 - w2 * c1) + s * (w1 * (v2 + c2) - w2 * (v1 + c1))
      /\ w1 * (s * v1) + w2 * (s * v2) + W * (w1 * c1 + w2 * c2)
           = (W - s) * (w1 * c1 + w2 * c2) + s * (w1 * (v1 + c1) + w2 * (v2 + c2))
  BY <1>2
<1> QED BY <1>3, <1>5, <1>6, <1>7, <1>8

LEMMA CrossInt ==
  ASSUME NEW a \in Plane, NEW b \in Plane, NEW p \in Plane
  PROVE  Cross(a, b, p) \in Int /\ Along(a, b, p) \in Int
<1>1. /\ a[1] \in Int /\ a[2] \in Int /\ b[1] \in Int /\ b[2] \in Int
      /\ p[1] \in Int /\ p[2] \in Int
  BY PointParts
<1> QED BY <1>1 DEF Cross, Along, Dot, Direction

LEMMA ZeroTwice ==
  ASSUME NEW W \in Int, W > 0, NEW s \in Int, NEW t \in Int, s # t, NEW x \in Int, NEW y \in Int,
         (W - s) * x + s * y = 0, (W - t) * x + t * y = 0
  PROVE  x = 0 /\ y = 0
<1>1. t * ((W - s) * x + s * y) - s * ((W - t) * x + t * y) = (W * (t - s)) * x
  OBVIOUS
<1>2. (W * (t - s)) * x = 0
  BY <1>1
<1>3. W * (t - s) # 0 /\ W * (t - s) \in Int
  OBVIOUS
<1>4. x = 0
  BY <1>2, <1>3
<1>5. s * y = 0 /\ t * y = 0
  BY <1>4
<1>6. s # 0 \/ t # 0
  OBVIOUS
<1>7. y = 0
  BY <1>5, <1>6
<1> QED BY <1>4, <1>7

\* A mean is not outside of what it is a mean of.
LEMMA Mean ==
  ASSUME NEW W \in Int, W > 0, NEW s \in Int, 0 <= s, s <= W,
         NEW x \in Int, NEW y \in Int, NEW z \in Int, W * z = (W - s) * x + s * y
  PROVE  /\ (x <= z /\ z <= y) \/ (y <= z /\ z <= x)
         /\ 0 < s /\ s < W /\ x # y => (x < z /\ z < y) \/ (y < z /\ z < x)
<1>1. W * (z - x) = s * (y - x) /\ W * (y - z) = (W - s) * (y - x)
  OBVIOUS
<1> DEFINE u == z - x
           v == y - z
           w == y - x
           r == W - s
<1>2. u \in Int /\ v \in Int /\ w \in Int /\ r \in Int /\ r >= 0 /\ (s < W => r > 0)
  OBVIOUS
<1>3. W * u = s * w /\ W * v = r * w
  BY <1>1
<1>4. (u >= 0 /\ v >= 0) \/ (u <= 0 /\ v <= 0)
  <2> HIDE DEF u, v, w, r
  <2> QED BY <1>2, <1>3, SameSide DEF Scaled
<1>5. ASSUME 0 < s, r > 0, w # 0 PROVE u # 0 /\ v # 0
  <2> HIDE DEF u, v, w, r
  <2>1. s * w # 0 /\ r * w # 0
    BY <1>2, <1>5
  <2> QED BY <1>2, <1>3, <2>1
<1> QED BY <1>4, <1>5

LEMMA TwoNumbers ==
  ASSUME NEW x \in Int, NEW y \in Int
  PROVE  /\ Max({x, y}) = IF x >= y THEN x ELSE y
         /\ Min({x, y}) = IF x <= y THEN x ELSE y
<1>1. \E m \in {x, y} : \A k \in {x, y} : m >= k
  <2>1. CASE x >= y
    BY <2>1
  <2>2. CASE y >= x
    BY <2>2
  <2> QED BY <2>1, <2>2
<1>2. \E m \in {x, y} : \A k \in {x, y} : m <= k
  <2>1. CASE x <= y
    BY <2>1
  <2>2. CASE y <= x
    BY <2>2
  <2> QED BY <2>1, <2>2
<1>3. Max({x, y}) \in {x, y} /\ \A k \in {x, y} : Max({x, y}) >= k
  BY <1>1 DEF Max
<1>4. Min({x, y}) \in {x, y} /\ \A k \in {x, y} : Min({x, y}) <= k
  BY <1>2 DEF Min
<1>5. Max({x, y}) = IF x >= y THEN x ELSE y
  BY <1>3
<1>6. Min({x, y}) = IF x <= y THEN x ELSE y
  BY <1>4
<1> QED BY <1>5, <1>6

LEMMA Cancel ==
  ASSUME NEW W \in Int, W > 0, NEW x \in Int, NEW y \in Int, NEW z \in Int,
         W * (x - z) = W * (y - z)
  PROVE  x = y
<1>1. W * (x - y) = 0
  OBVIOUS
<1>2. x - y = 0
  BY <1>1
<1> QED BY <1>2

LEMMA SamePlace ==
  ASSUME NEW o \in Plane, NEW w \in Plane, NEW W \in Int, W > 0, NEW x \in Plane, NEW y \in Plane,
         NEW s \in Int, OnWay(o, w, W, x, s), OnWay(o, w, W, y, s)
  PROVE  x = y
<1>1. /\ x[1] \in Int /\ x[2] \in Int /\ y[1] \in Int /\ y[2] \in Int
      /\ o[1] \in Int /\ o[2] \in Int /\ w[1] \in Int /\ w[2] \in Int
  BY PointParts
<1>2. W * (x[1] - o[1]) = W * (y[1] - o[1]) /\ W * (x[2] - o[2]) = W * (y[2] - o[2])
  BY DEF OnWay, Scaled
<1>3. x[1] = y[1]
  BY <1>1, <1>2, Cancel
<1>4. x[2] = y[2]
  BY <1>1, <1>2, Cancel
<1> QED BY <1>3, <1>4, PointParts

\* Where on the segment from c to d a point of it is.
LEMMA Place ==
  ASSUME NEW c \in Plane, NEW d \in Plane, c # d, NEW p \in Plane, Between(p, c, d)
  PROVE  /\ Along(c, d, d) \in Int /\ Along(c, d, d) > 0 /\ Along(c, d, p) \in Int
         /\ 0 <= Along(c, d, p) /\ Along(c, d, p) <= Along(c, d, d)
         /\ OnWay(c, Direction(c, d), Along(c, d, d), p, Along(c, d, p))
         /\ p # c => 0 < Along(c, d, p)
         /\ p # d => Along(c, d, p) < Along(c, d, d)
<1> DEFINE w == Direction(c, d)
           W == Along(c, d, d)
           s == Along(c, d, p)
<1>1. W = Dot(w, w) /\ W \in Int /\ W > 0 /\ s \in Int /\ w \in Plane
  BY Frame
<1>2. 0 <= s /\ s <= W /\ Cross(c, d, p) = 0
  BY BetweenAlong
<1>3. OnWay(c, w, W, p, s) /\ OnWay(c, w, W, c, 0) /\ OnWay(c, w, W, d, W)
  BY <1>1, <1>2, Frame
<1>4. s = 0 => p = c
  <2> HIDE DEF w, W, s
  <2>1. 0 \in Int
    OBVIOUS
  <2> QED BY <1>1, <1>3, <2>1, SamePlace
<1>5. s = W => p = d
  <2> HIDE DEF w, W, s
  <2> QED BY <1>1, <1>3, SamePlace
<1> QED BY <1>1, <1>2, <1>3, <1>4, <1>5

\* The segments have no two points in common.
AtMostOne(a, b, c, d) ==
  \A p, q \in Plane :
    Between(p, a, b) /\ Between(p, c, d) /\ Between(q, a, b) /\ Between(q, c, d) => p = q

\* The order of the segments, and of the ends of each, does not matter.
LEMMA AtMostOneSwap ==
  ASSUME NEW a \in Plane, NEW b \in Plane, NEW c \in Plane, NEW d \in Plane
  PROVE  /\ AtMostOne(a, b, c, d) <=> AtMostOne(c, d, a, b)
         /\ AtMostOne(a, b, c, d) <=> AtMostOne(b, a, c, d)
         /\ AtMostOne(a, b, c, d) <=> AtMostOne(a, b, d, c)
  BY BetweenSwap DEF AtMostOne

LEMMA OverlapOpen ==
  ASSUME NEW a \in Plane, NEW b \in Plane, NEW c \in Plane, NEW d \in Plane
  PROVE  Overlap(a, b, c, d) <=>
           /\ Cross(a, b, c) = 0 /\ Cross(a, b, d) = 0
           /\ Max({0, Min({Along(a, b, c), Along(a, b, d)})})
                < Min({Along(a, b, b), Max({Along(a, b, c), Along(a, b, d)})})
<1>1. \A p : Along(a, b, p) = (b[1] - a[1]) * (p[1] - a[1]) + (b[2] - a[2]) * (p[2] - a[2])
  BY DEF Along, Dot, Direction
<1> QED BY <1>1 DEF Overlap

\* The lowest of two numbers and so on, without Max and Min.
LEMMA OverlapNumbers ==
  ASSUME NEW w \in Int, NEW x \in Int, NEW y \in Int
  PROVE  Max({0, Min({x, y})}) < Min({w, Max({x, y})})
           <=> /\ 0 < w /\ (0 < x \/ 0 < y) /\ (x < w \/ y < w) /\ x # y
<1>1. Min({x, y}) \in Int /\ Max({x, y}) \in Int
  BY TwoNumbers
<1>2. /\ Min({x, y}) = IF x <= y THEN x ELSE y
      /\ Max({x, y}) = IF x >= y THEN x ELSE y
  BY TwoNumbers
<1> DEFINE m == Min({x, y})
           n == Max({x, y})
<1>3. /\ Max({0, m}) = IF 0 >= m THEN 0 ELSE m
      /\ Min({w, n}) = IF w <= n THEN w ELSE n
  <2> HIDE DEF m, n
  <2>1. 0 \in Int /\ m \in Int /\ n \in Int
    BY <1>1 DEF m, n
  <2> QED BY <2>1, TwoNumbers
<1> QED BY <1>2, <1>3

LEMMA OverlapAlong ==
  ASSUME NEW a \in Plane, NEW b \in Plane, a # b, NEW c \in Plane, NEW d \in Plane
  PROVE  Overlap(a, b, c, d) <=>
           /\ Cross(a, b, c) = 0 /\ Cross(a, b, d) = 0
           /\ 0 < Along(a, b, c) \/ 0 < Along(a, b, d)
           /\ Along(a, b, c) < Along(a, b, b) \/ Along(a, b, d) < Along(a, b, b)
           /\ Along(a, b, c) # Along(a, b, d)
<1>1. /\ Along(a, b, b) \in Int /\ Along(a, b, b) > 0
      /\ Along(a, b, c) \in Int /\ Along(a, b, d) \in Int
  BY Frame
<1> QED BY <1>1, OverlapOpen, OverlapNumbers

LEMMA TwoShared ==
  ASSUME NEW a \in Plane, NEW b \in Plane, a # b, NEW c \in Plane, NEW d \in Plane,
         Cross(a, b, c) = 0, Cross(a, b, d) = 0, 0 < Along(a, b, d),
         Along(a, b, c) < Along(a, b, b), Along(a, b, c) < Along(a, b, d)
  PROVE  ~ AtMostOne(a, b, c, d)
<1> DEFINE w == Direction(a, b)
           W == Along(a, b, b)
           A(p) == Along(a, b, p)
<1>1. w \in Plane /\ W \in Int /\ W > 0 /\ W = Dot(w, w) /\ A(c) \in Int /\ A(d) \in Int
  BY Frame
<1>2. /\ A(a) = 0 /\ A(b) = W
      /\ OnWay(a, w, W, a, A(a)) /\ OnWay(a, w, W, b, A(b))
      /\ OnWay(a, w, W, c, A(c)) /\ OnWay(a, w, W, d, A(d))
  BY <1>1, Frame
<1> DEFINE p == IF A(c) >= 0 THEN c ELSE a
           q == IF A(d) <= W THEN d ELSE b
<1>3. p \in Plane /\ q \in Plane /\ A(p) \in Int /\ A(q) \in Int
  BY Frame
<1>4. OnWay(a, w, W, p, A(p)) /\ OnWay(a, w, W, q, A(q))
  BY <1>2
<1>5. /\ 0 <= A(p) /\ A(p) <= W /\ A(c) <= A(p) /\ A(p) <= A(d)
      /\ 0 <= A(q) /\ A(q) <= W /\ A(c) <= A(q) /\ A(q) <= A(d)
      /\ A(p) < A(q)
  BY <1>1, <1>2
<1> HIDE DEF w, W, A, p, q
<1>6. A(a) \in Int /\ A(b) \in Int
  BY <1>1, <1>2
<1>7. Between(p, a, b) /\ Between(q, a, b)
  BY <1>1, <1>2, <1>3, <1>4, <1>5, <1>6, Ordered
<1>8. Between(p, c, d) /\ Between(q, c, d)
  BY <1>1, <1>2, <1>3, <1>4, <1>5, Ordered
<1>9. p # q
  BY <1>3, <1>5
<1> QED BY <1>3, <1>7, <1>8, <1>9 DEF AtMostOne

\* Overlap is what it says: segments overlap when they have two points in common.
LEMMA OverlapShares ==
  ASSUME NEW a \in Plane, NEW b \in Plane, a # b, NEW c \in Plane, NEW d \in Plane, c # d
  PROVE  Overlap(a, b, c, d) <=> ~ AtMostOne(a, b, c, d)
<1> DEFINE A(p) == Along(a, b, p)
<1>1. A(b) \in Int /\ A(b) > 0 /\ A(c) \in Int /\ A(d) \in Int
  BY Frame
<1>2. ASSUME Overlap(a, b, c, d) PROVE ~ AtMostOne(a, b, c, d)
  <2>1. /\ Cross(a, b, c) = 0 /\ Cross(a, b, d) = 0
        /\ 0 < A(c) \/ 0 < A(d)
        /\ A(c) < A(b) \/ A(d) < A(b)
        /\ A(c) # A(d)
    BY <1>2, OverlapAlong
  <2>2. CASE A(c) < A(d)
    <3>1. 0 < A(d) /\ A(c) < A(b)
      BY <1>1, <2>1, <2>2
    <3> QED BY <2>1, <2>2, <3>1, TwoShared
  <2>3. CASE A(d) < A(c)
    <3>1. 0 < A(c) /\ A(d) < A(b)
      BY <1>1, <2>1, <2>3
    <3>2. ~ AtMostOne(a, b, d, c)
      BY <2>1, <2>3, <3>1, TwoShared
    <3> QED BY <3>2, AtMostOneSwap
  <2> QED BY <1>1, <2>1, <2>2, <2>3
<1>3. ASSUME ~ AtMostOne(a, b, c, d) PROVE Overlap(a, b, c, d)
  <2>1. \E p, q \in Plane :
          /\ Between(p, a, b) /\ Between(p, c, d) /\ Between(q, a, b) /\ Between(q, c, d)
          /\ p # q
    BY <1>3 DEF AtMostOne
  <2>2. PICK p \in Plane :
          \E q \in Plane :
            /\ Between(p, a, b) /\ Between(p, c, d) /\ Between(q, a, b) /\ Between(q, c, d)
            /\ p # q
    BY <2>1
  <2>3. PICK q \in Plane :
          /\ Between(p, a, b) /\ Between(p, c, d) /\ Between(q, a, b) /\ Between(q, c, d)
          /\ p # q
    BY <2>2
  <2> DEFINE V == Along(c, d, d)
             s == Along(c, d, p)
             t == Along(c, d, q)
  <2>4. /\ V \in Int /\ V > 0 /\ s \in Int /\ t \in Int
        /\ 0 <= s /\ s <= V /\ 0 <= t /\ t <= V
        /\ OnWay(c, Direction(c, d), V, p, s) /\ OnWay(c, Direction(c, d), V, q, t)
    BY <2>3, Place
  <2>5. Direction(c, d) \in Plane
    BY Frame
  <2>6. s # t
    <3> HIDE DEF V, s, t
    <3> QED BY <2>3, <2>4, <2>5, SamePlace
  <2>7. /\ Cross(a, b, p) = 0 /\ Cross(a, b, q) = 0
        /\ 0 <= A(p) /\ A(p) <= A(b) /\ 0 <= A(q) /\ A(q) <= A(b)
    BY <2>3, BetweenAlong
  <2>8. /\ V * Cross(a, b, p) = (V - s) * Cross(a, b, c) + s * Cross(a, b, d)
        /\ V * A(p) = (V - s) * A(c) + s * A(d)
        /\ V * Cross(a, b, q) = (V - t) * Cross(a, b, c) + t * Cross(a, b, d)
        /\ V * A(q) = (V - t) * A(c) + t * A(d)
    <3> HIDE DEF V, s, t
    <3> QED BY <2>4, Linear DEF A
  <2>9. /\ Cross(a, b, c) \in Int /\ Cross(a, b, d) \in Int
        /\ A(p) \in Int /\ A(q) \in Int
    BY CrossInt
  <2>10. Cross(a, b, c) = 0 /\ Cross(a, b, d) = 0
    <3> DEFINE X == Cross(a, b, c)
               Y == Cross(a, b, d)
    <3>1. X \in Int /\ Y \in Int
      BY <2>9
    <3> HIDE DEF V, s, t, A
    <3>2. V * Cross(a, b, p) = 0 /\ V * Cross(a, b, q) = 0
      BY <2>4, <2>7
    <3>3. (V - s) * X + s * Y = 0 /\ (V - t) * X + t * Y = 0
      BY <2>8, <3>2
    <3> HIDE DEF X, Y
    <3>4. X = 0 /\ Y = 0
      BY <2>4, <2>6, <3>1, <3>3, ZeroTwice
    <3> QED BY <3>4 DEF X, Y
  <2>11. A(p) # A(q)
    <3> DEFINE w == Direction(a, b)
               W == Dot(w, w)
    <3>1. /\ OnWay(a, w, W, p, A(p)) /\ OnWay(a, w, W, q, A(q))
          /\ w \in Plane /\ W \in Int /\ W > 0
      BY <2>7, Frame
    <3> HIDE DEF w, W, A
    <3> QED BY <2>3, <2>9, <3>1, SamePlace
  <2>12. /\ (A(c) <= A(p) /\ A(p) <= A(d)) \/ (A(d) <= A(p) /\ A(p) <= A(c))
         /\ (A(c) <= A(q) /\ A(q) <= A(d)) \/ (A(d) <= A(q) /\ A(q) <= A(c))
    <3> DEFINE X == A(c)
               Y == A(d)
               U == A(p)
               Z == A(q)
    <3>1. X \in Int /\ Y \in Int /\ U \in Int /\ Z \in Int
      BY <1>1, <2>9
    <3>2. V * U = (V - s) * X + s * Y /\ V * Z = (V - t) * X + t * Y
      BY <2>8
    <3> HIDE DEF V, s, t, X, Y, U, Z
    <3>3. (X <= U /\ U <= Y) \/ (Y <= U /\ U <= X)
      BY <2>4, <3>1, <3>2, Mean
    <3>4. (X <= Z /\ Z <= Y) \/ (Y <= Z /\ Z <= X)
      BY <2>4, <3>1, <3>2, Mean
    <3> QED BY <3>3, <3>4 DEF X, Y, U, Z
  <2>13. /\ 0 < A(c) \/ 0 < A(d)
         /\ A(c) < A(b) \/ A(d) < A(b)
         /\ A(c) # A(d)
    <3> HIDE DEF A
    <3> QED BY <1>1, <2>7, <2>9, <2>11, <2>12
  <2> QED BY <2>10, <2>13, OverlapAlong
<1> QED BY <1>2, <1>3

-----------------------------------------------------------------------------
(* Crossing inside *)

LEMMA Opposite ==
  ASSUME NEW x \in Int, NEW y \in Int
  PROVE  x * y < 0 <=> (x < 0 /\ 0 < y) \/ (0 < x /\ y < 0)
  OBVIOUS

\* The ends of each segment are on different sides of the other.
LEMMA CrossInsideOpen ==
  ASSUME NEW a \in Plane, NEW b \in Plane, NEW c \in Plane, NEW d \in Plane
  PROVE  CrossInside(a, b, c, d) <=>
           /\ \/ Cross(a, b, c) < 0 /\ 0 < Cross(a, b, d)
              \/ 0 < Cross(a, b, c) /\ Cross(a, b, d) < 0
           /\ \/ Cross(c, d, a) < 0 /\ 0 < Cross(c, d, b)
              \/ 0 < Cross(c, d, a) /\ Cross(c, d, b) < 0
<1>1. /\ Cross(a, b, c) \in Int /\ Cross(a, b, d) \in Int
      /\ Cross(c, d, a) \in Int /\ Cross(c, d, b) \in Int
  BY CrossInt
<1>2. Cross(a, b, c) * Cross(a, b, d) < 0
        <=> \/ Cross(a, b, c) < 0 /\ 0 < Cross(a, b, d)
            \/ 0 < Cross(a, b, c) /\ Cross(a, b, d) < 0
  BY <1>1, Opposite
<1>3. Cross(c, d, a) * Cross(c, d, b) < 0
        <=> \/ Cross(c, d, a) < 0 /\ 0 < Cross(c, d, b)
            \/ 0 < Cross(c, d, a) /\ Cross(c, d, b) < 0
  BY <1>1, Opposite
<1> QED BY <1>2, <1>3 DEF CrossInside

LEMMA CrossBack ==
  ASSUME NEW a \in Plane, NEW b \in Plane, NEW p \in Plane
  PROVE  Cross(b, a, p) = -Cross(a, b, p)
<1>1. /\ a[1] \in Int /\ a[2] \in Int /\ b[1] \in Int /\ b[2] \in Int
      /\ p[1] \in Int /\ p[2] \in Int
  BY PointParts
<1> QED BY <1>1 DEF Cross

\* The order of the segments, and of the ends of each, does not matter.
LEMMA CrossInsideSwap ==
  ASSUME NEW a \in Plane, NEW b \in Plane, NEW c \in Plane, NEW d \in Plane
  PROVE  /\ CrossInside(a, b, c, d) <=> CrossInside(c, d, a, b)
         /\ CrossInside(a, b, c, d) <=> CrossInside(b, a, c, d)
         /\ CrossInside(a, b, c, d) <=> CrossInside(a, b, d, c)
<1>1. /\ Cross(a, b, c) \in Int /\ Cross(a, b, d) \in Int
      /\ Cross(c, d, a) \in Int /\ Cross(c, d, b) \in Int
  BY CrossInt
<1>2. /\ Cross(b, a, c) = -Cross(a, b, c) /\ Cross(b, a, d) = -Cross(a, b, d)
      /\ Cross(d, c, a) = -Cross(c, d, a) /\ Cross(d, c, b) = -Cross(c, d, b)
  BY CrossBack
<1> QED BY <1>1, <1>2, CrossInsideOpen

LEMMA CrossPart ==
  ASSUME NEW a \in Plane, NEW b \in Plane, NEW p \in Plane, NEW W \in Int, NEW s \in Int,
         OnWay(a, Direction(a, b), W, p, s), NEW x \in Plane
  PROVE  W * Cross(a, p, x) = s * Cross(a, b, x)
<1>1. /\ a[1] \in Int /\ a[2] \in Int /\ b[1] \in Int /\ b[2] \in Int
      /\ p[1] \in Int /\ p[2] \in Int /\ x[1] \in Int /\ x[2] \in Int
  BY PointParts
<1> DEFINE w1 == b[1] - a[1]
           w2 == b[2] - a[2]
           v1 == p[1] - a[1]
           v2 == p[2] - a[2]
           x1 == x[1] - a[1]
           x2 == x[2] - a[2]
<1>2. /\ w1 \in Int /\ w2 \in Int /\ v1 \in Int /\ v2 \in Int
      /\ x1 \in Int /\ x2 \in Int
  BY <1>1
<1>3. W * v1 = s * w1 /\ W * v2 = s * w2
  BY DEF OnWay, Scaled, Direction
<1>4. Cross(a, p, x) = v1 * x2 - v2 * x1 /\ Cross(a, b, x) = w1 * x2 - w2 * x1
  BY DEF Cross
<1> HIDE DEF w1, w2, v1, v2, x1, x2
<1>5. W * (v1 * x2 - v2 * x1) = (W * v1) * x2 - (W * v2) * x1
  BY <1>2
<1>6. (s * w1) * x2 - (s * w2) * x1 = s * (w1 * x2 - w2 * x1)
  BY <1>2
<1> QED BY <1>3, <1>4, <1>5, <1>6

LEMMA SameSign ==
  ASSUME NEW W \in Int, W > 0, NEW s \in Int, s > 0, NEW x \in Int, NEW y \in Int, W * x = s * y
  PROVE  (x < 0 => y < 0) /\ (0 < x => 0 < y)
<1>1. x < 0 => W * x < 0
  OBVIOUS
<1>2. 0 < x => 0 < W * x
  OBVIOUS
<1>3. s * y < 0 => y < 0
  OBVIOUS
<1>4. 0 < s * y => 0 < y
  OBVIOUS
<1> QED BY <1>1, <1>2, <1>3, <1>4

LEMMA FarSign ==
  ASSUME NEW W \in Int, W > 0, NEW s \in Int, 0 < s, s <= W,
         NEW x \in Int, NEW y \in Int, NEW z \in Int, W * z = (W - s) * x + s * y
  PROVE  (x < 0 /\ 0 < z => 0 < y) /\ (0 < x /\ z < 0 => y < 0)
<1>1. x < 0 => (W - s) * x <= 0
  OBVIOUS
<1>2. 0 < x => 0 <= (W - s) * x
  OBVIOUS
<1>3. 0 < z => 0 < W * z
  OBVIOUS
<1>4. z < 0 => W * z < 0
  OBVIOUS
<1>5. s * y < 0 => y < 0
  OBVIOUS
<1>6. 0 < s * y => 0 < y
  OBVIOUS
<1>7. (W - s) * x \in Int /\ s * y \in Int /\ W * z \in Int
  OBVIOUS
<1> QED BY <1>1, <1>2, <1>3, <1>4, <1>5, <1>6, <1>7

\* What crosses a part of a segment inside crosses the segment inside.
LEMMA CrossInsidePart ==
  ASSUME NEW a \in Plane, NEW b \in Plane, NEW c \in Plane, NEW d \in Plane, NEW p \in Plane,
         Between(p, a, b), CrossInside(a, p, c, d)
  PROVE  CrossInside(a, b, c, d)
<1>1. /\ \/ Cross(a, p, c) < 0 /\ 0 < Cross(a, p, d)
         \/ 0 < Cross(a, p, c) /\ Cross(a, p, d) < 0
      /\ \/ Cross(c, d, a) < 0 /\ 0 < Cross(c, d, p)
         \/ 0 < Cross(c, d, a) /\ Cross(c, d, p) < 0
  BY CrossInsideOpen
<1>2. p # a
  <2>1. Cross(a, a, c) = 0
    <3>1. /\ a[1] \in Int /\ a[2] \in Int /\ c[1] \in Int /\ c[2] \in Int
      BY PointParts
    <3> QED BY <3>1 DEF Cross
  <2> QED BY <1>1, <2>1
<1>3. a # b
  BY <1>2, BetweenPoint
<1> DEFINE W == Along(a, b, b)
           s == Along(a, b, p)
<1>4. /\ W \in Int /\ W > 0 /\ s \in Int /\ 0 < s /\ s <= W
      /\ OnWay(a, Direction(a, b), W, p, s)
  BY <1>2, <1>3, Place
<1> DEFINE X == Cross(a, b, c)
           Y == Cross(a, b, d)
           U == Cross(c, d, a)
           V == Cross(c, d, b)
           XP == Cross(a, p, c)
           YP == Cross(a, p, d)
           UP == Cross(c, d, p)
<1>5. /\ X \in Int /\ Y \in Int /\ U \in Int /\ V \in Int
      /\ XP \in Int /\ YP \in Int /\ UP \in Int
  BY CrossInt
<1>6. W * XP = s * X /\ W * YP = s * Y
  BY <1>4, CrossPart
<1>7. W * UP = (W - s) * U + s * V
  BY <1>4, Linear
<1>8. /\ (XP < 0 /\ 0 < YP) \/ (0 < XP /\ YP < 0)
      /\ (U < 0 /\ 0 < UP) \/ (0 < U /\ UP < 0)
  BY <1>1
<1>9. /\ (X < 0 /\ 0 < Y) \/ (0 < X /\ Y < 0)
      /\ (U < 0 /\ 0 < V) \/ (0 < U /\ V < 0)
  <2> HIDE DEF W, s, X, Y, U, V, XP, YP, UP
  <2>1. (XP < 0 => X < 0) /\ (0 < XP => 0 < X)
    BY <1>4, <1>5, <1>6, SameSign
  <2>2. (YP < 0 => Y < 0) /\ (0 < YP => 0 < Y)
    BY <1>4, <1>5, <1>6, SameSign
  <2>3. (U < 0 /\ 0 < UP => 0 < V) /\ (0 < U /\ UP < 0 => V < 0)
    BY <1>4, <1>5, <1>7, FarSign
  <2> QED BY <1>8, <2>1, <2>2, <2>3
<1> QED BY <1>9, CrossInsideOpen

\* Two points on the line of a segment make the same line.
LEMMA Collinear ==
  ASSUME NEW a \in Plane, NEW b \in Plane, NEW c \in Plane, NEW d \in Plane, c # d,
         Cross(c, d, a) = 0, Cross(c, d, b) = 0
  PROVE  Cross(a, b, c) = 0 /\ Cross(a, b, d) = 0
<1> DEFINE w == Direction(c, d)
           W == Dot(w, w)
           s == Along(c, d, a)
           t == Along(c, d, b)
<1>1. /\ w \in Plane /\ W \in Int /\ W > 0 /\ s \in Int /\ t \in Int
      /\ OnWay(c, w, W, a, s) /\ OnWay(c, w, W, b, t)
      /\ OnWay(c, w, W, c, 0) /\ OnWay(c, w, W, d, W)
  BY Frame
<1>2. /\ w[1] \in Int /\ w[2] \in Int
      /\ a[1] \in Int /\ a[2] \in Int /\ b[1] \in Int /\ b[2] \in Int
      /\ c[1] \in Int /\ c[2] \in Int /\ d[1] \in Int /\ d[2] \in Int
  BY <1>1, PointParts
<1> HIDE DEF w, W, s, t
<1>3. ASSUME NEW p \in Plane, NEW r \in Int, OnWay(c, w, W, p, r)
      PROVE  Cross(a, b, p) = 0
  <2>1. p[1] \in Int /\ p[2] \in Int
    BY PointParts
  <2> DEFINE x == b[1] - a[1]
             y == b[2] - a[2]
             u == p[1] - a[1]
             v == p[2] - a[2]
             k == t - s
             l == r - s
  <2>2. Scaled(W, x, k, w[1]) /\ Scaled(W, y, k, w[2])
    BY <1>1, <1>2, StepAlong DEF OnWay
  <2>3. Scaled(W, u, l, w[1]) /\ Scaled(W, v, l, w[2])
    BY <1>1, <1>2, <1>3, <2>1, StepAlong DEF OnWay
  <2>4. x \in Int /\ y \in Int /\ u \in Int /\ v \in Int /\ k \in Int /\ l \in Int
    BY <1>1, <1>2, <2>1
  <2>5. Cross(a, b, p) = x * v - y * u
    BY DEF Cross
  <2> HIDE DEF x, y, u, v, k, l
  <2>6. x * v = y * u
    BY <1>1, <1>2, <2>2, <2>3, <2>4, Parallel
  <2>7. y * u \in Int
    BY <2>4
  <2> QED BY <2>5, <2>6, <2>7
<1>4. 0 \in Int
  OBVIOUS
<1> QED BY <1>1, <1>3, <1>4

LEMMA Balanced ==
  ASSUME NEW W \in Int, NEW s \in Int, 0 < s, s < W, NEW x \in Int, NEW y \in Int,
         (W - s) * x + s * y = 0
  PROVE  (x < 0 /\ 0 < y) \/ (0 < x /\ y < 0) \/ (x = 0 /\ y = 0)
<1>1. x < 0 => (W - s) * x < 0
  OBVIOUS
<1>2. 0 < x => 0 < (W - s) * x
  OBVIOUS
<1>3. s * y < 0 => y < 0
  OBVIOUS
<1>4. 0 < s * y => 0 < y
  OBVIOUS
<1>5. s * y = 0 => y = 0
  OBVIOUS
<1>6. (W - s) * x \in Int /\ s * y \in Int
  OBVIOUS
<1> QED BY <1>1, <1>2, <1>3, <1>4, <1>5, <1>6

\* Segments with a point inside of both in common cross or overlap.
LEMMA InnerPoint ==
  ASSUME NEW a \in Plane, NEW b \in Plane, NEW c \in Plane, NEW d \in Plane, NEW p \in Plane,
         a # b, c # d, Between(p, a, b), Between(p, c, d), p \notin {a, b, c, d}
  PROVE  CrossInside(a, b, c, d) \/ ~ AtMostOne(a, b, c, d)
<1> DEFINE W == Along(a, b, b)
           s == Along(a, b, p)
           V == Along(c, d, d)
           t == Along(c, d, p)
           X == Cross(a, b, c)
           Y == Cross(a, b, d)
           U == Cross(c, d, a)
           Z == Cross(c, d, b)
<1>1. /\ W \in Int /\ s \in Int /\ 0 < s /\ s < W
      /\ OnWay(a, Direction(a, b), W, p, s)
  BY Place
<1>2. /\ V \in Int /\ t \in Int /\ 0 < t /\ t < V
      /\ OnWay(c, Direction(c, d), V, p, t)
  BY Place
<1>3. Cross(a, b, p) = 0 /\ Cross(c, d, p) = 0
  BY BetweenAlong
<1>4. X \in Int /\ Y \in Int /\ U \in Int /\ Z \in Int
  BY CrossInt
<1>5. (V - t) * X + t * Y = 0
  <2>1. V * Cross(a, b, p) = (V - t) * X + t * Y
    BY <1>2, Linear
  <2> HIDE DEF V, X, Y, t
  <2> QED BY <2>1, <1>2, <1>3
<1>6. (W - s) * U + s * Z = 0
  <2>1. W * Cross(c, d, p) = (W - s) * U + s * Z
    BY <1>1, Linear
  <2> HIDE DEF W, U, Z, s
  <2> QED BY <2>1, <1>1, <1>3
<1>7. (X < 0 /\ 0 < Y) \/ (0 < X /\ Y < 0) \/ (X = 0 /\ Y = 0)
  <2> HIDE DEF V, X, Y, t
  <2> QED BY <1>2, <1>4, <1>5, Balanced
<1>8. (U < 0 /\ 0 < Z) \/ (0 < U /\ Z < 0) \/ (U = 0 /\ Z = 0)
  <2> HIDE DEF W, U, Z, s
  <2> QED BY <1>1, <1>4, <1>6, Balanced
<1>9. CASE X = 0 /\ Y = 0
  <2> DEFINE A(q) == Along(a, b, q)
             w == Direction(a, b)
             D == Dot(w, w)
  <2>1. A(c) \in Int /\ A(d) \in Int /\ A(p) \in Int /\ A(b) \in Int
    BY CrossInt
  <2>2. 0 < A(p) /\ A(p) < A(b)
    BY <1>1
  <2>3. A(c) # A(d)
    <3>1. /\ OnWay(a, w, D, c, A(c)) /\ OnWay(a, w, D, d, A(d))
          /\ w \in Plane /\ D \in Int /\ D > 0
      BY <1>9, Frame
    <3> HIDE DEF w, D, A
    <3> QED BY <2>1, <3>1, SamePlace
  <2>4. V * A(p) = (V - t) * A(c) + t * A(d)
    BY <1>2, Linear
  <2>5. (A(c) < A(p) /\ A(p) < A(d)) \/ (A(d) < A(p) /\ A(p) < A(c))
    <3> HIDE DEF V, t, A
    <3> QED BY <1>2, <2>1, <2>3, <2>4, Mean
  <2>6. /\ 0 < A(c) \/ 0 < A(d)
        /\ A(c) < A(b) \/ A(d) < A(b)
    <3> HIDE DEF A
    <3> QED BY <2>1, <2>2, <2>5
  <2>7. Overlap(a, b, c, d)
    BY <1>9, <2>3, <2>6, OverlapAlong
  <2> QED BY <2>7, OverlapShares
<1>10. CASE X # 0
  <2>1. ~ (U = 0 /\ Z = 0)
    BY <1>10, Collinear
  <2> QED BY <1>7, <1>8, <1>10, <2>1, CrossInsideOpen
<1> QED BY <1>7, <1>9, <1>10

-----------------------------------------------------------------------------
(* Segments that do not run into each other *)

Clear(a, b, c, d) == ~ CrossInside(a, b, c, d) /\ AtMostOne(a, b, c, d)

\* The order of the segments, and of the ends of each, does not matter.
LEMMA ClearSwap ==
  ASSUME NEW a \in Plane, NEW b \in Plane, NEW c \in Plane, NEW d \in Plane
  PROVE  /\ Clear(a, b, c, d) <=> Clear(c, d, a, b)
         /\ Clear(a, b, c, d) <=> Clear(b, a, c, d)
         /\ Clear(a, b, c, d) <=> Clear(a, b, d, c)
  BY AtMostOneSwap, CrossInsideSwap DEF Clear

\* The test of the code for two segments that have a length.
LEMMA ClearMeaning ==
  ASSUME NEW a \in Plane, NEW b \in Plane, a # b, NEW c \in Plane, NEW d \in Plane, c # d
  PROVE  Clear(a, b, c, d) <=> ~ CrossInside(a, b, c, d) /\ ~ Overlap(a, b, c, d)
  BY OverlapShares DEF Clear

\* What two clear segments have in common is an end.
LEMMA ClearCommon ==
  ASSUME NEW a \in Plane, NEW b \in Plane, a # b, NEW c \in Plane, NEW d \in Plane, c # d,
         Clear(a, b, c, d), NEW p \in Plane, Between(p, a, b), Between(p, c, d)
  PROVE  p \in {a, b, c, d}
  BY InnerPoint DEF Clear

\* A part of a segment is as clear as the segment.
LEMMA ClearPart ==
  ASSUME NEW a \in Plane, NEW b \in Plane, NEW c \in Plane, NEW d \in Plane, NEW p \in Plane,
         Between(p, a, b), Clear(a, b, c, d)
  PROVE  Clear(a, p, c, d) /\ Clear(p, b, c, d)
<1>1. ASSUME NEW e \in Plane, NEW f \in Plane, Between(p, e, f), Clear(e, f, c, d)
      PROVE  Clear(e, p, c, d)
  <2>1. ~ CrossInside(e, p, c, d)
    BY <1>1, CrossInsidePart DEF Clear
  <2>2. \A q \in Plane : Between(q, e, p) => Between(q, e, f)
    BY <1>1, BetweenPart
  <2>3. AtMostOne(e, p, c, d)
    BY <1>1, <2>2 DEF Clear, AtMostOne
  <2> QED BY <2>1, <2>3 DEF Clear
<1>2. Clear(a, p, c, d)
  BY <1>1
<1>3. Between(p, b, a) /\ Clear(b, a, c, d)
  BY BetweenSwap, ClearSwap
<1>4. Clear(b, p, c, d)
  BY <1>1, <1>3
<1> QED BY <1>2, <1>4, ClearSwap

\* So are the parts of each other.
LEMMA ClearPieces ==
  ASSUME NEW a \in Plane, NEW b \in Plane, NEW p \in Plane, Between(p, a, b)
  PROVE  Clear(a, p, p, b)
<1>1. Cross(a, p, p) = 0
  <2>1. a[1] \in Int /\ a[2] \in Int /\ p[1] \in Int /\ p[2] \in Int
    BY PointParts
  <2> DEFINE x == p[1] - a[1]
             y == p[2] - a[2]
  <2>2. x \in Int /\ y \in Int
    BY <2>1
  <2>3. Cross(a, p, p) = x * y - y * x
    BY DEF Cross
  <2> HIDE DEF x, y
  <2> QED BY <2>2, <2>3
<1>2. ~ CrossInside(a, p, p, b)
  BY <1>1, CrossInsideOpen
<1>3. AtMostOne(a, p, p, b)
  BY BetweenParts DEF AtMostOne
<1> QED BY <1>2, <1>3 DEF Clear

-----------------------------------------------------------------------------
(* Directions *)

Ways == Plane \ {<<0, 0>>}

SameWay(u, v) == Det(u, v) = 0 /\ Dot(u, v) > 0

LEMMA DirectionWay ==
  ASSUME NEW a \in Plane, NEW b \in Plane, a # b
  PROVE  Direction(a, b) \in Ways
<1>1. /\ a[1] \in Int /\ a[2] \in Int /\ b[1] \in Int /\ b[2] \in Int
      /\ a[1] # b[1] \/ a[2] # b[2]
  BY PointParts
<1>2. b[1] - a[1] # 0 \/ b[2] - a[2] # 0
  BY <1>1
<1> QED BY <1>1, <1>2 DEF Ways, Plane, Direction

LEMMA DirectionFacts ==
  ASSUME NEW a \in Plane, NEW b \in Plane, NEW p \in Plane
  PROVE  /\ Det(Direction(a, b), Direction(a, p)) = Cross(a, b, p)
         /\ Dot(Direction(a, b), Direction(a, p)) = Along(a, b, p)
  BY DEF Det, Direction, Cross, Along

\* Segments from one point in the same way have more in common than the point.
LEMMA ClearWays ==
  ASSUME NEW o \in Plane, NEW a \in Plane, NEW b \in Plane, a # o, b # o, Clear(o, a, o, b)
  PROVE  ~ SameWay(Direction(o, a), Direction(o, b))
<1> SUFFICES ASSUME SameWay(Direction(o, a), Direction(o, b)) PROVE FALSE
  OBVIOUS
<1>1. Cross(o, a, b) = 0 /\ Along(o, a, b) > 0
  BY DirectionFacts DEF SameWay
<1>2. Cross(o, a, o) = 0 /\ Along(o, a, o) = 0 /\ Along(o, a, a) > 0
      /\ Along(o, a, b) \in Int /\ Along(o, a, a) \in Int
  BY Frame
<1>3. Overlap(o, a, o, b)
  BY <1>1, <1>2, OverlapAlong
<1> QED BY <1>3, OverlapShares DEF Clear

LEMMA ShorterWay ==
  ASSUME NEW a \in Plane, NEW b \in Plane, NEW p \in Plane, Between(p, a, b), p # a
  PROVE  SameWay(Direction(a, b), Direction(a, p))
<1>1. a # b
  BY BetweenPoint
<1>2. Along(a, b, p) > 0 /\ Cross(a, b, p) = 0
  BY <1>1, Place, BetweenAlong
<1> QED BY <1>2, DirectionFacts DEF SameWay

LEMMA WayParts ==
  ASSUME NEW u \in Ways
  PROVE  /\ u[1] \in Int /\ u[2] \in Int
         /\ u[1] * u[1] + u[2] * u[2] \in Int /\ u[1] * u[1] + u[2] * u[2] > 0
<1>1. u \in Plane /\ u # <<0, 0>> /\ <<0, 0>> \in Plane
  BY DEF Ways, Plane
<1>2. u[1] \in Int /\ u[2] \in Int /\ (u[1] # 0 \/ u[2] # 0)
  BY <1>1, PointParts
<1> DEFINE x == u[1]
           y == u[2]
<1>3. x \in Int /\ y \in Int /\ (x # 0 \/ y # 0)
  BY <1>2
<1>4. x * x + y * y > 0 /\ x * x + y * y \in Int
  <2> HIDE DEF x, y
  <2>1. x * x >= 0 /\ y * y >= 0 /\ (x # 0 => x * x > 0) /\ (y # 0 => y * y > 0)
    BY <1>3
  <2>2. x * x \in Int /\ y * y \in Int
    BY <1>3
  <2> QED BY <2>1, <2>2, <1>3
<1> QED BY <1>3, <1>4

LEMMA DetInt ==
  ASSUME NEW u \in Ways, NEW v \in Ways
  PROVE  /\ Det(u, v) \in Int /\ Dot(u, v) \in Int
         /\ Det(v, u) = -Det(u, v) /\ Dot(v, u) = Dot(u, v)
<1>1. u[1] \in Int /\ u[2] \in Int /\ v[1] \in Int /\ v[2] \in Int
  BY WayParts
<1> QED BY <1>1 DEF Det, Dot

\* Parallel directions are multiples of each other.
LEMMA ParallelWays ==
  ASSUME NEW u \in Ways, NEW v \in Ways, Det(u, v) = 0, NEW w \in Ways
  PROVE  /\ Dot(u, u) \in Int /\ Dot(u, u) > 0
         /\ Dot(u, u) * Det(v, w) = Dot(u, v) * Det(u, w)
         /\ Dot(u, u) * Dot(v, w) = Dot(u, v) * Dot(u, w)
         /\ Dot(u, v) # 0
<1> DEFINE x == u[1]
           y == u[2]
           r == v[1]
           s == v[2]
           a == w[1]
           b == w[2]
           U == x * x + y * y
           W == x * r + y * s
<1>1. /\ x \in Int /\ y \in Int /\ r \in Int /\ s \in Int /\ a \in Int /\ b \in Int
      /\ U \in Int /\ U > 0 /\ r * r + s * s > 0
  BY WayParts
<1>2. x * s - y * r = 0 /\ Dot(u, u) = U /\ Dot(u, v) = W
  BY DEF Det, Dot
<1>3. /\ Det(v, w) = r * b - s * a /\ Det(u, w) = x * b - y * a
      /\ Dot(v, w) = r * a + s * b /\ Dot(u, w) = x * a + y * b
  BY DEF Det, Dot
<1>4. U * r = W * x /\ U * s = W * y /\ W \in Int
  <2> HIDE DEF x, y, r, s
  <2>1. x * s = y * r
    BY <1>1, <1>2
  <2>2. x * r + y * s \in Int
    BY <1>1
  <2> QED BY <1>1, <2>1, <2>2, AlongX DEF U, W
<1>5. U * (r * b - s * a) = W * (x * b - y * a) /\ U * (r * a + s * b) = W * (x * a + y * b)
  <2> HIDE DEF x, y, r, s, a, b, U, W
  <2>1. /\ U * (r * b - s * a) = (U * r) * b - (U * s) * a
        /\ U * (r * a + s * b) = (U * r) * a + (U * s) * b
    BY <1>1
  <2>2. /\ (W * x) * b - (W * y) * a = W * (x * b - y * a)
        /\ (W * x) * a + (W * y) * b = W * (x * a + y * b)
    BY <1>1, <1>4
  <2> QED BY <1>4, <2>1, <2>2
<1>6. W # 0
  <2> SUFFICES ASSUME W = 0 PROVE FALSE
    OBVIOUS
  <2>1. U * r = 0 /\ U * s = 0
    <3> HIDE DEF x, y, r, s, a, b, U, W
    <3> QED BY <1>1, <1>4
  <2>2. r = 0 /\ s = 0
    <3> HIDE DEF x, y, r, s, a, b, U, W
    <3> QED BY <1>1, <2>1
  <2> QED BY <1>1, <2>2
<1> HIDE DEF U, W
<1> QED BY <1>1, <1>2, <1>3, <1>5, <1>6

LEMMA SameScale ==
  ASSUME NEW U \in Int, U > 0, NEW W \in Int, W # 0, NEW x \in Int, NEW y \in Int, U * x = W * y
  PROVE  /\ W > 0 => (x < 0 <=> y < 0) /\ (x = 0 <=> y = 0) /\ (x > 0 <=> y > 0)
         /\ W < 0 => (x < 0 <=> y > 0) /\ (x = 0 <=> y = 0) /\ (x > 0 <=> y < 0)
<1>1. (x < 0 => U * x < 0) /\ (x = 0 => U * x = 0) /\ (x > 0 => U * x > 0)
  OBVIOUS
<1>2. W > 0 => (y < 0 => W * y < 0) /\ (y = 0 => W * y = 0) /\ (y > 0 => W * y > 0)
  OBVIOUS
<1>3. W < 0 => (y < 0 => W * y > 0) /\ (y = 0 => W * y = 0) /\ (y > 0 => W * y < 0)
  OBVIOUS
<1>4. U * x \in Int
  OBVIOUS
<1>5. ASSUME W > 0 PROVE (x < 0 <=> y < 0) /\ (x = 0 <=> y = 0) /\ (x > 0 <=> y > 0)
  BY <1>1, <1>2, <1>4, <1>5
<1>6. ASSUME W < 0 PROVE (x < 0 <=> y > 0) /\ (x = 0 <=> y = 0) /\ (x > 0 <=> y < 0)
  BY <1>1, <1>3, <1>4, <1>6
<1> QED BY <1>5, <1>6

\* A direction stands for all in the same way.
LEMMA SameWaySigns ==
  ASSUME NEW u \in Ways, NEW v \in Ways, SameWay(u, v), NEW w \in Ways
  PROVE  /\ Det(v, w) < 0 <=> Det(u, w) < 0
         /\ Det(v, w) = 0 <=> Det(u, w) = 0
         /\ Dot(v, w) > 0 <=> Dot(u, w) > 0
<1> DEFINE U == Dot(u, u)
           W == Dot(u, v)
           x == Det(v, w)
           y == Det(u, w)
           r == Dot(v, w)
           s == Dot(u, w)
<1>1. /\ U \in Int /\ U > 0 /\ W \in Int /\ W > 0
      /\ x \in Int /\ y \in Int /\ r \in Int /\ s \in Int
      /\ U * x = W * y /\ U * r = W * s
  BY DetInt, ParallelWays DEF SameWay
<1> HIDE DEF U, W, x, y, r, s
<1>2. (x < 0 <=> y < 0) /\ (x = 0 <=> y = 0)
  BY <1>1, SameScale
<1>3. r > 0 <=> s > 0
  BY <1>1, SameScale
<1> QED BY <1>2, <1>3 DEF x, y, r, s

\* Opposite directions have everything else on different sides.
LEMMA OppositeSigns ==
  ASSUME NEW u \in Ways, NEW v \in Ways, Det(u, v) = 0, ~ SameWay(u, v), NEW w \in Ways,
         ~ SameWay(u, w), ~ SameWay(v, w)
  PROVE  (Det(u, w) < 0 /\ Det(v, w) > 0) \/ (Det(u, w) > 0 /\ Det(v, w) < 0)
<1> DEFINE U == Dot(u, u)
           W == Dot(u, v)
           x == Det(v, w)
           y == Det(u, w)
           r == Dot(v, w)
           s == Dot(u, w)
<1>1. /\ U \in Int /\ U > 0 /\ W \in Int /\ W < 0
      /\ x \in Int /\ y \in Int /\ r \in Int /\ s \in Int
      /\ U * x = W * y /\ U * r = W * s
  <2>1. W \in Int /\ W # 0 /\ ~ (W > 0)
    BY DetInt, ParallelWays DEF SameWay
  <2>2. W < 0
    BY <2>1
  <2> QED BY <2>1, <2>2, DetInt, ParallelWays
<1>2. ~ (y = 0 /\ s > 0) /\ ~ (x = 0 /\ r > 0)
  BY DEF SameWay
<1>3. y = 0 => s # 0
  BY ParallelWays
<1> HIDE DEF U, W, x, y, r, s
<1>4. (x < 0 <=> y > 0) /\ (x = 0 <=> y = 0) /\ (x > 0 <=> y < 0)
  BY <1>1, SameScale
<1>5. (r < 0 <=> s > 0) /\ (r = 0 <=> s = 0) /\ (r > 0 <=> s < 0)
  BY <1>1, SameScale
<1>6. (y < 0 /\ x > 0) \/ (y > 0 /\ x < 0)
  BY <1>1, <1>2, <1>3, <1>4, <1>5
<1> QED BY <1>6 DEF x, y

-----------------------------------------------------------------------------
(* The clockwise order *)

\* The sectors in terms of turns.
LEMMA SectorMeaning ==
  ASSUME NEW u \in Ways, NEW v \in Ways
  PROVE  /\ Sector(u, v) = 0 <=> SameWay(u, v)
         /\ Sector(u, v) = 1 <=> Det(u, v) < 0
         /\ Sector(u, v) = 3 <=> Det(u, v) > 0
         /\ Sector(u, v) = 2 <=> Det(u, v) = 0 /\ ~ SameWay(u, v)
         /\ Sector(u, v) \in 0..3
<1>1. Det(u, v) \in Int
  BY DetInt
<1>2. SameWay(u, v) <=> Det(u, v) = 0 /\ u[1] * v[1] + u[2] * v[2] > 0
  BY DEF SameWay, Dot
<1> QED BY <1>1, <1>2 DEF Sector

\* Two of the turns from u to v, from v to w and from w to u are clockwise.
TwoTurns(u, v, w) ==
  \/ Det(u, v) < 0 /\ Det(v, w) < 0
  \/ Det(v, w) < 0 /\ Det(w, u) < 0
  \/ Det(w, u) < 0 /\ Det(u, v) < 0

Apart3(u, v, w) == ~ SameWay(u, v) /\ ~ SameWay(u, w) /\ ~ SameWay(v, w)

LEMMA SameWaySwap ==
  ASSUME NEW u \in Ways, NEW v \in Ways
  PROVE  SameWay(u, v) <=> SameWay(v, u)
<1>1. Det(u, v) \in Int /\ Det(v, u) = -Det(u, v) /\ Dot(v, u) = Dot(u, v)
  BY DetInt
<1> QED BY <1>1 DEF SameWay

\* The order in terms of turns: clockwise from u, v is before w.
LEMMA ClockwiseTurns ==
  ASSUME NEW u \in Ways, NEW v \in Ways, NEW w \in Ways, Apart3(u, v, w)
  PROVE  /\ ClockwiseBefore(u, v, w) <=> TwoTurns(u, v, w)
         /\ TwoTurns(u, v, w) \/ TwoTurns(u, w, v)
         /\ ~ (TwoTurns(u, v, w) /\ TwoTurns(u, w, v))
<1> DEFINE x == Det(u, v)
           y == Det(v, w)
           z == Det(w, u)
<1>1. x \in Int /\ y \in Int /\ z \in Int
  BY DetInt
<1>2. Det(v, u) = -x /\ Det(w, v) = -y /\ Det(u, w) = -z
  BY DetInt
<1>3. x = 0 => (y < 0 /\ z < 0) \/ (y > 0 /\ z > 0)
  BY <1>1, <1>2, OppositeSigns DEF Apart3
<1>4. y = 0 => (x < 0 /\ z < 0) \/ (x > 0 /\ z > 0)
  <2> SUFFICES ASSUME y = 0 PROVE (x < 0 /\ z < 0) \/ (x > 0 /\ z > 0)
    OBVIOUS
  <2>1. (Det(v, u) < 0 /\ Det(w, u) > 0) \/ (Det(v, u) > 0 /\ Det(w, u) < 0)
    BY OppositeSigns, SameWaySwap DEF Apart3
  <2> QED BY <1>1, <1>2, <2>1
<1>5. z = 0 => (x < 0 /\ y < 0) \/ (x > 0 /\ y > 0)
  <2> SUFFICES ASSUME z = 0 PROVE (x < 0 /\ y < 0) \/ (x > 0 /\ y > 0)
    OBVIOUS
  <2>1. (Det(w, v) < 0 /\ Det(u, v) > 0) \/ (Det(w, v) > 0 /\ Det(u, v) < 0)
    BY OppositeSigns, SameWaySwap DEF Apart3
  <2> QED BY <1>1, <1>2, <2>1
<1>6. /\ Sector(u, v) = 1 <=> x < 0
      /\ Sector(u, v) = 3 <=> x > 0
      /\ Sector(u, v) = 2 <=> x = 0
      /\ Sector(u, v) \in 1..3
  <2>1. Sector(u, v) # 0 /\ ~ SameWay(u, v)
    BY SectorMeaning DEF Apart3
  <2> QED BY <2>1, SectorMeaning
<1>7. /\ Sector(u, w) = 1 <=> z > 0
      /\ Sector(u, w) = 3 <=> z < 0
      /\ Sector(u, w) = 2 <=> z = 0
      /\ Sector(u, w) \in 1..3
  <2>1. Sector(u, w) # 0 /\ ~ SameWay(u, w)
    BY SectorMeaning DEF Apart3
  <2>2. /\ Sector(u, w) = 1 <=> Det(u, w) < 0
        /\ Sector(u, w) = 3 <=> Det(u, w) > 0
        /\ Sector(u, w) = 2 <=> Det(u, w) = 0
        /\ Sector(u, w) \in 0..3
    BY <2>1, SectorMeaning
  <2> QED BY <1>1, <1>2, <2>1, <2>2
<1>8. TwoTurns(u, v, w) <=> (x < 0 /\ y < 0) \/ (y < 0 /\ z < 0) \/ (z < 0 /\ x < 0)
  BY DEF TwoTurns
<1>9. TwoTurns(u, w, v) <=> (x > 0 /\ y > 0) \/ (y > 0 /\ z > 0) \/ (z > 0 /\ x > 0)
  BY <1>1, <1>2 DEF TwoTurns
<1>10. ClockwiseBefore(u, v, w) <=>
         \/ Sector(u, v) < Sector(u, w)
         \/ Sector(u, v) = Sector(u, w) /\ Sector(u, v) \in {1, 3} /\ y < 0
  BY DEF ClockwiseBefore
<1> HIDE DEF x, y, z
<1>11. ClockwiseBefore(u, v, w) <=> TwoTurns(u, v, w)
  BY <1>1, <1>3, <1>4, <1>5, <1>6, <1>7, <1>8, <1>10
<1>12. TwoTurns(u, v, w) \/ TwoTurns(u, w, v)
  BY <1>1, <1>3, <1>4, <1>5, <1>8, <1>9
<1>13. ~ (TwoTurns(u, v, w) /\ TwoTurns(u, w, v))
  BY <1>1, <1>8, <1>9
<1> QED BY <1>11, <1>12, <1>13

\* Of any two other directions one comes first, and the order starts anywhere.
LEMMA ClockwiseCyclic ==
  ASSUME NEW u \in Ways, NEW v \in Ways, NEW w \in Ways, Apart3(u, v, w)
  PROVE  /\ ClockwiseBefore(u, v, w) <=> ~ ClockwiseBefore(u, w, v)
         /\ ClockwiseBefore(u, v, w) <=> ClockwiseBefore(v, w, u)
<1>1. Apart3(u, w, v) /\ Apart3(v, w, u)
  BY SameWaySwap DEF Apart3
<1>2. ClockwiseBefore(u, v, w) <=> ~ ClockwiseBefore(u, w, v)
  BY <1>1, ClockwiseTurns
<1>3. TwoTurns(u, v, w) <=> TwoTurns(v, w, u)
  BY DEF TwoTurns
<1>4. ClockwiseBefore(u, v, w) <=> TwoTurns(u, v, w)
  BY ClockwiseTurns
<1>5. ClockwiseBefore(v, w, u) <=> TwoTurns(v, w, u)
  BY <1>1, ClockwiseTurns
<1> QED BY <1>2, <1>3, <1>4, <1>5

LEMMA TurnsAdd ==
  ASSUME NEW u \in Ways, NEW v \in Ways, NEW w \in Ways, NEW x \in Ways,
         Det(v, w) < 0, Det(w, x) < 0,
         \/ Det(u, v) < 0 /\ Det(u, w) < 0 /\ Det(u, x) < 0
         \/ Det(u, v) > 0 /\ Det(u, w) > 0 /\ Det(u, x) > 0
  PROVE  Det(v, x) < 0
<1> DEFINE a == Det(u, v)
           b == Det(u, w)
           c == Det(u, x)
           d == Det(v, w)
           e == Det(w, x)
           f == Det(v, x)
<1>1. /\ a \in Int /\ b \in Int /\ c \in Int /\ d \in Int /\ e \in Int /\ f \in Int
      /\ d < 0 /\ e < 0
      /\ (a < 0 /\ b < 0 /\ c < 0) \/ (a > 0 /\ b > 0 /\ c > 0)
  BY DetInt
<1>2. b * f = a * e + c * d
  <2>1. /\ u[1] \in Int /\ u[2] \in Int /\ v[1] \in Int /\ v[2] \in Int
        /\ w[1] \in Int /\ w[2] \in Int /\ x[1] \in Int /\ x[2] \in Int
    BY WayParts
  <2> DEFINE p == u[1]
             q == u[2]
             r == v[1]
             s == v[2]
             t == w[1]
             k == w[2]
             l == x[1]
             m == x[2]
  <2>2. /\ p \in Int /\ q \in Int /\ r \in Int /\ s \in Int
        /\ t \in Int /\ k \in Int /\ l \in Int /\ m \in Int
    BY <2>1
  <2>3. /\ a = p * s - q * r /\ b = p * k - q * t /\ c = p * m - q * l
        /\ d = r * k - s * t /\ e = t * m - k * l /\ f = r * m - s * l
    BY DEF Det
  <2> HIDE DEF a, b, c, d, e, f, p, q, r, s, t, k, l, m
  <2>4. (p * k - q * t) * (r * m - s * l)
          = (p * s - q * r) * (t * m - k * l) + (p * m - q * l) * (r * k - s * t)
    BY <2>2
  <2> QED BY <2>3, <2>4
<1> HIDE DEF a, b, c, d, e, f
<1>3. CASE a < 0 /\ b < 0 /\ c < 0
  <2>1. a * e > 0 /\ c * d > 0
    BY <1>1, <1>3
  <2>2. b * f > 0
    <3>1. a * e \in Int /\ c * d \in Int
      BY <1>1
    <3> QED BY <3>1, <2>1, <1>2
  <2> QED BY <1>1, <1>3, <2>2 DEF f
<1>4. CASE a > 0 /\ b > 0 /\ c > 0
  <2>1. a * e < 0 /\ c * d < 0
    BY <1>1, <1>4
  <2>2. b * f < 0
    <3>1. a * e \in Int /\ c * d \in Int
      BY <1>1
    <3> QED BY <3>1, <2>1, <1>2
  <2> QED BY <1>1, <1>4, <2>2 DEF f
<1> QED BY <1>1, <1>3, <1>4

\* Seen from one direction, the order is transitive.
LEMMA ClockwiseTransitive ==
  ASSUME NEW u \in Ways, NEW v \in Ways, NEW w \in Ways, NEW x \in Ways,
         ClockwiseBefore(u, v, w), ClockwiseBefore(u, w, x)
  PROVE  ClockwiseBefore(u, v, x)
<1>1. Sector(u, v) \in 0..3 /\ Sector(u, w) \in 0..3 /\ Sector(u, x) \in 0..3
  BY SectorMeaning
<1>2. CASE Sector(u, v) < Sector(u, w) \/ Sector(u, w) < Sector(u, x)
  <2>1. Sector(u, v) <= Sector(u, w) /\ Sector(u, w) <= Sector(u, x)
    BY <1>1 DEF ClockwiseBefore
  <2> QED BY <1>1, <1>2, <2>1 DEF ClockwiseBefore
<1>3. CASE ~ (Sector(u, v) < Sector(u, w)) /\ ~ (Sector(u, w) < Sector(u, x))
  <2>1. /\ Sector(u, v) = Sector(u, w) /\ Sector(u, w) = Sector(u, x)
        /\ Sector(u, v) \in {1, 3} /\ Det(v, w) < 0 /\ Det(w, x) < 0
    BY <1>3 DEF ClockwiseBefore
  <2>2. \/ Det(u, v) < 0 /\ Det(u, w) < 0 /\ Det(u, x) < 0
        \/ Det(u, v) > 0 /\ Det(u, w) > 0 /\ Det(u, x) > 0
    BY <2>1, SectorMeaning
  <2>3. Det(v, x) < 0
    BY <2>1, <2>2, TurnsAdd
  <2> QED BY <2>1, <2>3 DEF ClockwiseBefore
<1> QED BY <1>2, <1>3

\* Directions in the same way have the same place in the order.
LEMMA SameSectors ==
  ASSUME NEW u \in Ways, NEW v \in Ways, SameWay(u, v), NEW w \in Ways
  PROVE  Sector(u, w) = Sector(v, w) /\ Sector(w, u) = Sector(w, v)
<1>1. /\ Det(v, w) < 0 <=> Det(u, w) < 0
      /\ Det(v, w) = 0 <=> Det(u, w) = 0
      /\ Dot(v, w) > 0 <=> Dot(u, w) > 0
  BY SameWaySigns
<1>2. /\ Det(u, w) \in Int /\ Det(v, w) \in Int
      /\ Det(w, u) = -Det(u, w) /\ Det(w, v) = -Det(v, w)
      /\ Dot(w, u) = Dot(u, w) /\ Dot(w, v) = Dot(v, w)
  BY DetInt
<1>3. Sector(u, w) = Sector(v, w)
  BY <1>1, <1>2 DEF Sector, Dot
<1>4. Sector(w, u) = Sector(w, v)
  <2>1. /\ Det(w, v) < 0 <=> Det(w, u) < 0
        /\ Det(w, v) = 0 <=> Det(w, u) = 0
        /\ Dot(w, v) > 0 <=> Dot(w, u) > 0
    BY <1>1, <1>2
  <2> QED BY <2>1 DEF Sector, Dot
<1> QED BY <1>3, <1>4

\* The order of directions is that of others in the same ways.
LEMMA SameOrder ==
  ASSUME NEW u \in Ways, NEW v \in Ways, NEW w \in Ways,
         NEW u2 \in Ways, NEW v2 \in Ways, NEW w2 \in Ways,
         SameWay(u, u2), SameWay(v, v2), SameWay(w, w2)
  PROVE  /\ ClockwiseBefore(u, v, w) <=> ClockwiseBefore(u2, v2, w2)
         /\ SameWay(u, v) <=> SameWay(u2, v2)
<1>1. Sector(u, v) = Sector(u2, v2) /\ Sector(u, w) = Sector(u2, w2)
      /\ Sector(v, w) = Sector(v2, w2)
  BY SameSectors
<1>2. Det(v, w) < 0 <=> Det(v2, w2) < 0
  BY <1>1, SectorMeaning
<1>3. ClockwiseBefore(u, v, w) <=> ClockwiseBefore(u2, v2, w2)
  BY <1>1, <1>2 DEF ClockwiseBefore
<1>4. SameWay(u, v) <=> SameWay(u2, v2)
  BY <1>1, SectorMeaning
<1> QED BY <1>3, <1>4

-----------------------------------------------------------------------------
(* Turning around a point from one end to the next *)

\* The ends of E leave in directions D, no two in the same.
Spread(E, D) ==
  /\ \A c \in E : D[c] \in Ways
  /\ \A c, d \in E : c # d => ~ SameWay(D[c], D[d])

LEMMA SpreadPart ==
  ASSUME NEW E, NEW D, Spread(E, D), NEW F, F \subseteq E
  PROVE  Spread(F, D)
  BY DEF Spread

Before(D, a, b, c) == ClockwiseBefore(D[a], D[b], D[c])

\* Of three ends in a round, two orders are possible, whichever comes first.
LEMMA Round ==
  ASSUME NEW E, NEW D, Spread(E, D), NEW a \in E, NEW b \in E, NEW c \in E, a # b, a # c, b # c
  PROVE  /\ Before(D, a, b, c) <=> ~ Before(D, a, c, b)
         /\ Before(D, a, b, c) <=> Before(D, b, c, a)
         /\ Before(D, a, b, c) <=> Before(D, c, a, b)
<1>1. Apart3(D[a], D[b], D[c]) /\ Apart3(D[c], D[a], D[b])
  BY DEF Spread, Apart3
<1>2. D[a] \in Ways /\ D[b] \in Ways /\ D[c] \in Ways
  BY DEF Spread
<1> QED BY <1>1, <1>2, ClockwiseCyclic DEF Before

\* Seen from one end, the order is transitive.
LEMMA RoundOn ==
  ASSUME NEW E, NEW D, Spread(E, D), NEW a \in E, NEW b \in E, NEW c \in E, NEW d \in E,
         Before(D, a, b, c), Before(D, a, c, d)
  PROVE  Before(D, a, b, d)
  BY ClockwiseTransitive DEF Spread, Before

\* Four ends in order, seen from the second.
LEMMA RoundFour ==
  ASSUME NEW E, NEW D, Spread(E, D), NEW a \in E, NEW b \in E, NEW c \in E, NEW d \in E,
         a # b, a # c, a # d, b # c, b # d, c # d,
         Before(D, a, b, c), Before(D, a, c, d)
  PROVE  Before(D, b, c, d)
<1>1. Before(D, c, d, a)
  BY Round
<1>2. Before(D, c, a, b)
  BY Round
<1>3. Before(D, c, d, b)
  BY <1>1, <1>2, RoundOn
<1> QED BY <1>3, Round

FirstAfter(E, D, a, x) == x \in E /\ \A c \in E \ {x} : Before(D, a, x, c)

LastAfter(E, D, a, x) == x \in E /\ \A c \in E \ {x} : Before(D, a, c, x)

\* T takes each end to the first one clockwise of it.
Turns(E, D, T) ==
  \A c \in E : IF E = {c} THEN T[c] = c ELSE FirstAfter(E \ {c}, D, c, T[c])

\* There is one first end after a direction, and one last.
LEMMA OneFirst ==
  ASSUME NEW E, NEW D, NEW a, Spread(E \cup {a}, D), a \notin E, NEW x, NEW y
  PROVE  /\ FirstAfter(E, D, a, x) /\ FirstAfter(E, D, a, y) => x = y
         /\ LastAfter(E, D, a, x) /\ LastAfter(E, D, a, y) => x = y
  BY Round DEF FirstAfter, LastAfter

\* There is one way to turn around a point.
LEMMA OneTurn ==
  ASSUME NEW E, NEW D, Spread(E, D), NEW T, NEW U, Turns(E, D, T), Turns(E, D, U)
  PROVE  \A c \in E : T[c] = U[c]
<1> SUFFICES ASSUME NEW c \in E PROVE T[c] = U[c]
  OBVIOUS
<1>1. CASE E = {c}
  BY <1>1 DEF Turns
<1>2. CASE E # {c}
  <2>1. (E \ {c}) \cup {c} = E
    OBVIOUS
  <2>2. FirstAfter(E \ {c}, D, c, T[c]) /\ FirstAfter(E \ {c}, D, c, U[c])
    BY <1>2 DEF Turns
  <2> QED BY <2>1, <2>2, OneFirst
<1> QED BY <1>1, <1>2

\* A new end k between the last end and the first one after it.
LEMMA TurnsInserted ==
  ASSUME NEW E, NEW D, NEW k, k \notin E, Spread(E \cup {k}, D),
         NEW T, Turns(E, D, T), NEW cw, NEW ccw,
         FirstAfter(E, D, k, cw), LastAfter(E, D, k, ccw),
         NEW U, U[k] = cw, U[ccw] = k, \A c \in E \ {ccw} : U[c] = T[c]
  PROVE  Turns(E \cup {k}, D, U) /\ T[ccw] = cw
<1> DEFINE F == E \cup {k}
<1>1. cw \in E /\ ccw \in E /\ ccw # k
  BY DEF FirstAfter, LastAfter
<1>2. ASSUME NEW c \in E, c # cw PROVE Before(D, k, cw, c)
  BY <1>2 DEF FirstAfter
<1>3. ASSUME NEW c \in E, c # ccw PROVE Before(D, k, c, ccw)
  BY <1>3 DEF LastAfter
<1>4. FirstAfter(F \ {k}, D, k, U[k])
  BY DEF FirstAfter
<1>5. FirstAfter(F \ {ccw}, D, ccw, U[ccw])
  <2> SUFFICES ASSUME NEW c \in E, c # ccw PROVE Before(D, ccw, k, c)
    BY <1>1 DEF FirstAfter
  <2>1. Before(D, k, c, ccw)
    BY <1>3
  <2> QED BY <1>1, <2>1, Round
<1>6. ASSUME NEW c \in E, c # ccw
      PROVE  FirstAfter(F \ {c}, D, c, U[c])
  <2>1. E # {c} /\ U[c] = T[c] /\ FirstAfter(E \ {c}, D, c, T[c])
    BY <1>1, <1>6 DEF Turns
  <2> DEFINE x == T[c]
  <2>2. x \in E /\ x # c /\ \A d \in E \ {c, x} : Before(D, c, x, d)
    BY <2>1 DEF FirstAfter
  <2> HIDE DEF x
  <2>3. Before(D, c, ccw, k)
    BY <1>1, <1>3, <1>6, Round
  <2>4. Before(D, c, x, k)
    <3>1. CASE x = ccw
      BY <2>3, <3>1
    <3>2. CASE x # ccw
      <4>1. Before(D, c, x, ccw)
        BY <1>1, <1>6, <2>2, <3>2
      <4> QED BY <1>1, <2>2, <2>3, <4>1, RoundOn
    <3> QED BY <3>1, <3>2
  <2>5. \A d \in (F \ {c}) \ {x} : Before(D, c, x, d)
    BY <2>2, <2>4
  <2> QED BY <2>1, <2>2, <2>5 DEF FirstAfter, x
<1>7. Turns(F, D, U)
  <2> SUFFICES ASSUME NEW c \in F PROVE F # {c} /\ FirstAfter(F \ {c}, D, c, U[c])
    BY DEF Turns
  <2>1. F # {c}
    BY <1>1
  <2> QED BY <2>1, <1>4, <1>5, <1>6
<1>8. T[ccw] = cw
  <2>1. CASE E = {ccw}
    BY <1>1, <2>1 DEF Turns
  <2>2. CASE E # {ccw}
    <3>1. FirstAfter(E \ {ccw}, D, ccw, T[ccw])
      BY <1>1, <2>2 DEF Turns
    <3>2. PICK c \in E : c # ccw
      BY <1>1, <2>2
    <3>3. cw # ccw
      <4> SUFFICES ASSUME cw = ccw PROVE FALSE
        OBVIOUS
      <4>1. Before(D, k, cw, c) /\ Before(D, k, c, ccw)
        BY <1>2, <1>3, <3>2
      <4> QED BY <1>1, <3>2, <4>1, Round
    <3>4. FirstAfter(E \ {ccw}, D, ccw, cw)
      <4> SUFFICES ASSUME NEW d \in E, d # ccw, d # cw PROVE Before(D, ccw, cw, d)
        BY <1>1, <3>3 DEF FirstAfter
      <4>1. Before(D, k, cw, d) /\ Before(D, k, d, ccw)
        BY <1>2, <1>3
      <4>2. Before(D, cw, d, ccw)
        BY <1>1, <3>3, <4>1, RoundFour
      <4> QED BY <1>1, <3>3, <4>2, Round
    <3>5. Spread((E \ {ccw}) \cup {ccw}, D)
      BY <1>1, SpreadPart
    <3> QED BY <3>1, <3>4, <3>5, OneFirst
  <2> QED BY <2>1, <2>2
<1> QED BY <1>7, <1>8

\* An end goes: the one that turned to it turns to the end after it.
LEMMA TurnsRemoved ==
  ASSUME NEW E, NEW D, Spread(E, D), NEW T, Turns(E, D, T), NEW x \in E, E # {x},
         NEW U, \A c \in E \ {x} : U[c] = IF T[c] = x THEN T[x] ELSE T[c]
  PROVE  Turns(E \ {x}, D, U)
<1> DEFINE y == T[x]
<1>1. y \in E /\ y # x /\ \A d \in E \ {x, y} : Before(D, x, y, d)
  BY DEF Turns, FirstAfter
<1> HIDE DEF y
<1> SUFFICES ASSUME NEW c \in E, c # x
             PROVE  IF E \ {x} = {c} THEN U[c] = c ELSE FirstAfter((E \ {x}) \ {c}, D, c, U[c])
  BY DEF Turns
<1>2. T[c] \in E /\ T[c] # c /\ \A d \in E \ {c, T[c]} : Before(D, c, T[c], d)
  BY DEF Turns, FirstAfter
<1>3. CASE E \ {x} = {c}
  <2>1. T[c] = x /\ y = c
    BY <1>1, <1>2, <1>3
  <2> QED BY <1>3, <2>1 DEF y
<1>4. CASE E \ {x} # {c} /\ T[c] # x
  <2>1. U[c] = T[c]
    BY <1>4
  <2> QED BY <1>2, <1>4, <2>1 DEF FirstAfter
<1>5. CASE E \ {x} # {c} /\ T[c] = x
  <2>1. U[c] = y
    BY <1>5 DEF y
  <2>2. \A d \in E \ {c, x} : Before(D, c, x, d)
    BY <1>2, <1>5
  <2>3. y # c
    <3> SUFFICES ASSUME y = c PROVE FALSE
      OBVIOUS
    <3>1. PICK d \in E : d # x /\ d # c
      BY <1>5
    <3>2. Before(D, c, x, d) /\ Before(D, x, c, d)
      BY <1>1, <2>2, <3>1
    <3> QED BY <3>1, <3>2, Round
  <2>4. ASSUME NEW d \in E, d # c, d # x, d # y PROVE Before(D, c, y, d)
    <3>1. Before(D, x, y, d) /\ Before(D, c, x, d)
      BY <1>1, <2>2, <2>4
    <3>2. Before(D, x, d, c)
      BY <2>4, <3>1, Round
    <3>3. Before(D, y, d, c)
      BY <1>1, <2>3, <2>4, <3>1, <3>2, RoundFour
    <3> QED BY <1>1, <2>3, <2>4, <3>3, Round
  <2> QED BY <1>1, <1>5, <2>1, <2>3, <2>4 DEF FirstAfter
<1> QED BY <1>3, <1>4, <1>5

\* A finite set has a least member in a linear order.
LEMMA LeastOf ==
  ASSUME NEW E, IsFiniteSet(E), E # {}, NEW R,
         \A x, y \in E : x # y => <<x, y>> \in R \/ <<y, x>> \in R,
         \A x, y, z \in E : <<x, y>> \in R /\ <<y, z>> \in R => <<x, z>> \in R
  PROVE  \E x \in E : \A c \in E \ {x} : <<x, c>> \in R
<1> DEFINE Has(F) == \E x \in F : \A c \in F \ {x} : <<x, c>> \in R
           S == {n \in Nat : \A F \in SUBSET E : Cardinality(F) = n /\ F # {} => Has(F)}
<1>1. \A F \in SUBSET E : IsFiniteSet(F) /\ Cardinality(F) \in Nat
  BY FS_Subset, FS_CardinalityType
<1>2. 0 \in S
  BY <1>1, FS_EmptySet
<1>3. ASSUME NEW n \in Nat, n \in S PROVE n + 1 \in S
  <2> SUFFICES ASSUME NEW F \in SUBSET E, Cardinality(F) = n + 1, F # {} PROVE Has(F)
    OBVIOUS
  <2>1. PICK y \in F : TRUE
    OBVIOUS
  <2> DEFINE G == F \ {y}
  <2>2. Cardinality(G) = n
    <3>1. IsFiniteSet(F)
      BY <1>1
    <3>2. Cardinality(F \ {y}) = Cardinality(F) - 1
      BY <2>1, <3>1, FS_RemoveElement
    <3> QED BY <3>2
  <2>3. CASE G = {}
    BY <2>1, <2>3
  <2>4. CASE G # {}
    <3>1. Has(G)
      BY <1>3, <2>2, <2>4
    <3>2. PICK x \in G : \A c \in G \ {x} : <<x, c>> \in R
      BY <3>1
    <3>3. CASE <<x, y>> \in R
      <4>1. \A c \in F \ {x} : <<x, c>> \in R
        BY <3>2, <3>3
      <4> QED BY <4>1, <3>2
    <3>4. CASE <<y, x>> \in R
      <4>1. \A c \in F \ {y} : <<y, c>> \in R
        BY <2>1, <3>2, <3>4
      <4> QED BY <4>1, <2>1
    <3> QED BY <2>1, <3>2, <3>3, <3>4
  <2> QED BY <2>3, <2>4
<1> HIDE DEF S
<1>4. \A n \in Nat : n \in S
  BY <1>2, <1>3, NumberInduction
<1>5. Cardinality(E) \in S
  BY <1>1, <1>4
<1> QED BY <1>5 DEF S

\* So ends have a first and a last one seen from a direction.
LEMMA FirstAndLast ==
  ASSUME NEW E, IsFiniteSet(E), E # {}, NEW D, NEW a, a \notin E, Spread(E \cup {a}, D)
  PROVE  (\E x \in E : FirstAfter(E, D, a, x)) /\ (\E x \in E : LastAfter(E, D, a, x))
<1> DEFINE R == {p \in E \X E : Before(D, a, p[1], p[2])}
           Q == {p \in E \X E : Before(D, a, p[2], p[1])}
<1>0. /\ \A x, y \in E : <<x, y>> \in R <=> Before(D, a, x, y)
      /\ \A x, y \in E : <<x, y>> \in Q <=> Before(D, a, y, x)
  OBVIOUS
<1>1. \A x, y \in E : x # y => Before(D, a, x, y) \/ Before(D, a, y, x)
  BY Round
<1>2. \A x, y, z \in E : Before(D, a, x, y) /\ Before(D, a, y, z) => Before(D, a, x, z)
  BY RoundOn
<1> HIDE DEF R, Q
<1>3. \E x \in E : \A c \in E \ {x} : <<x, c>> \in R
  <2>1. \A x, y \in E : x # y => <<x, y>> \in R \/ <<y, x>> \in R
    BY <1>0, <1>1
  <2>2. \A x, y, z \in E : <<x, y>> \in R /\ <<y, z>> \in R => <<x, z>> \in R
    BY <1>0, <1>2
  <2> QED BY <2>1, <2>2, LeastOf
<1>4. \E x \in E : \A c \in E \ {x} : <<x, c>> \in Q
  <2>1. \A x, y \in E : x # y => <<x, y>> \in Q \/ <<y, x>> \in Q
    BY <1>0, <1>1
  <2>2. \A x, y, z \in E : <<x, y>> \in Q /\ <<y, z>> \in Q => <<x, z>> \in Q
    BY <1>0, <1>2
  <2> QED BY <2>1, <2>2, LeastOf
<1> QED BY <1>0, <1>3, <1>4 DEF FirstAfter, LastAfter

\* The ends under other names, in the same ways.
LEMMA TurnsRenamed ==
  ASSUME NEW E, NEW D, Spread(E, D), NEW T, Turns(E, D, T),
         NEW f, \A c, d \in E : f[c] = f[d] => c = d,
         NEW D2, \A c \in E : D2[f[c]] \in Ways /\ SameWay(D[c], D2[f[c]]),
         NEW U, \A c \in E : U[f[c]] = f[T[c]]
  PROVE  Spread({f[c] : c \in E}, D2) /\ Turns({f[c] : c \in E}, D2, U)
<1> DEFINE F == {f[c] : c \in E}
<1>1. /\ \A c \in E : D[c] \in Ways
      /\ \A c, d \in E : c # d => ~ SameWay(D[c], D[d])
  BY DEF Spread
<1>2. Spread(F, D2)
  <2>1. \A c, d \in E : f[c] # f[d] => ~ SameWay(D2[f[c]], D2[f[d]])
    <3> SUFFICES ASSUME NEW c \in E, NEW d \in E, f[c] # f[d]
                 PROVE  ~ SameWay(D2[f[c]], D2[f[d]])
      OBVIOUS
    <3>1. ~ SameWay(D[c], D[d])
      BY <1>1
    <3> QED BY <1>1, <3>1, SameOrder
  <2> QED BY <2>1 DEF Spread
<1>3. ASSUME NEW a \in E, NEW b \in E, NEW c \in E, Before(D, a, b, c)
      PROVE  Before(D2, f[a], f[b], f[c])
  BY <1>1, <1>3, SameOrder DEF Before
<1>4. ASSUME NEW c \in E
      PROVE  IF F = {f[c]} THEN U[f[c]] = f[c] ELSE FirstAfter(F \ {f[c]}, D2, f[c], U[f[c]])
  <2>1. CASE E = {c}
    <3>1. T[c] = c
      BY <2>1 DEF Turns
    <3> QED BY <2>1, <3>1
  <2>2. CASE E # {c}
    <3>1. FirstAfter(E \ {c}, D, c, T[c])
      BY <2>2 DEF Turns
    <3>2. T[c] \in E /\ T[c] # c /\ \A d \in E \ {c, T[c]} : Before(D, c, T[c], d)
      BY <3>1 DEF FirstAfter
    <3>3. f[T[c]] \in F \ {f[c]}
      BY <3>2
    <3>4. \A d \in E \ {c, T[c]} : Before(D2, f[c], f[T[c]], f[d])
      BY <1>3, <3>2
    <3>5. FirstAfter(F \ {f[c]}, D2, f[c], f[T[c]])
      BY <3>3, <3>4 DEF FirstAfter
    <3>6. F # {f[c]}
      BY <3>3
    <3> QED BY <3>5, <3>6
  <2> QED BY <2>1, <2>2
<1>5. Turns(F, D2, U)
  BY <1>4 DEF Turns
<1> QED BY <1>2, <1>5

\* The ends of E that come before j from k on.
Nearer(E, D, k, j) == {c \in E : Before(D, k, c, j)}

\* The new ends k and j part the others: those before j and those after it.
LEMMA NearOrFar ==
  ASSUME NEW E, NEW D, NEW k, NEW j, k \notin E, j \notin E, k # j, Spread(E \cup {k, j}, D)
  PROVE  /\ Nearer(E, D, k, j) \cup Nearer(E, D, j, k) = E
         /\ Nearer(E, D, k, j) \cap Nearer(E, D, j, k) = {}
         /\ Nearer(E, D, j, k) = {c \in E : Before(D, k, j, c)}
         /\ \A c \in Nearer(E, D, k, j), d \in Nearer(E, D, j, k) : Before(D, k, c, d) /\ Before(D, j, d, c)
         /\ \A c, d \in Nearer(E, D, k, j) : c # d => (Before(D, k, c, d) <=> Before(D, j, c, d))
<1> DEFINE F == E \cup {k, j}
<1>1. \A c \in E : c \in F /\ c # k /\ c # j
  OBVIOUS
<1>2. \A c \in E : /\ Before(D, k, c, j) <=> ~ Before(D, k, j, c)
                   /\ Before(D, k, j, c) <=> Before(D, j, c, k)
                   /\ Before(D, k, c, j) <=> Before(D, j, k, c)
  BY Round
<1>3. \A c, d \in E : Before(D, k, c, j) /\ Before(D, k, j, d) => Before(D, k, c, d)
  BY RoundOn
<1>4. \A c, d \in E : Before(D, j, d, k) /\ Before(D, j, k, c) => Before(D, j, d, c)
  BY RoundOn
<1>5. ASSUME NEW c \in E, NEW d \in E, c # d, Before(D, k, c, j), Before(D, k, d, j), Before(D, k, c, d)
      PROVE  Before(D, j, c, d)
  <2>1. Before(D, c, d, j)
    BY <1>1, <1>5, RoundFour
  <2> QED BY <1>1, <1>5, <2>1, Round
<1>6. ASSUME NEW c \in E, NEW d \in E, c # d, Before(D, k, c, j), Before(D, k, d, j)
      PROVE  Before(D, k, c, d) <=> Before(D, j, c, d)
  <2>1. Before(D, k, c, d) => Before(D, j, c, d)
    BY <1>5, <1>6
  <2>2. Before(D, k, d, c) => Before(D, j, d, c)
    BY <1>5, <1>6
  <2>3. /\ Before(D, k, c, d) <=> ~ Before(D, k, d, c)
        /\ Before(D, j, c, d) <=> ~ Before(D, j, d, c)
    BY <1>1, <1>6, Round
  <2> QED BY <2>1, <2>2, <2>3
<1> QED BY <1>2, <1>3, <1>4, <1>6 DEF Nearer

\* The first and the last end from k on to j are cw and ccw.
Sees(E, D, k, j, cw, ccw) ==
  Nearer(E, D, k, j) # {} => /\ FirstAfter(Nearer(E, D, k, j), D, k, cw)
                             /\ LastAfter(Nearer(E, D, k, j), D, j, ccw)

\* U is T with the new ends k and j where they belong.
InsertedTwice(E, D, k, j, scw, sccw, tcw, tccw, T, U) ==
  /\ U[k] = IF Nearer(E, D, k, j) = {} THEN j ELSE scw
  /\ U[j] = IF Nearer(E, D, j, k) = {} THEN k ELSE tcw
  /\ \A c \in E : U[c] = IF Nearer(E, D, k, j) # {} /\ c = tccw THEN j
                         ELSE IF Nearer(E, D, j, k) # {} /\ c = sccw THEN k
                         ELSE T[c]

\* Two new ends k and j at once: each sees the others up to the other new end.
LEMMA TurnsInsertedTwice ==
  ASSUME NEW E, E # {}, NEW D, NEW k, NEW j, k \notin E, j \notin E, k # j,
         Spread(E \cup {k, j}, D), NEW T, Turns(E, D, T),
         NEW scw, NEW sccw, NEW tcw, NEW tccw,
         Sees(E, D, k, j, scw, tccw), Sees(E, D, j, k, tcw, sccw),
         NEW U, InsertedTwice(E, D, k, j, scw, sccw, tcw, tccw, T, U)
  PROVE  /\ Turns(E \cup {k, j}, D, U)
         /\ Nearer(E, D, k, j) # {} /\ Nearer(E, D, j, k) # {} => T[sccw] = scw /\ T[tccw] = tcw
         /\ Nearer(E, D, k, j) = {} => T[sccw] = tcw
         /\ Nearer(E, D, j, k) = {} => T[tccw] = scw
<1> DEFINE N == Nearer(E, D, k, j)
           M == Nearer(E, D, j, k)
           F == E \cup {k}
           cw1 == IF N = {} THEN tcw ELSE scw
           ccw1 == IF M = {} THEN tccw ELSE sccw
           cw2 == IF M = {} THEN k ELSE tcw
           ccw2 == IF N = {} THEN k ELSE tccw
           U1 == [c \in F |-> IF c = k THEN cw1 ELSE IF c = ccw1 THEN k ELSE T[c]]
<1>1. /\ N \cup M = E /\ N \cap M = {}
      /\ \A c \in N, d \in M : Before(D, k, c, d) /\ Before(D, j, d, c)
      /\ \A c, d \in N : c # d => (Before(D, k, c, d) <=> Before(D, j, c, d))
  BY NearOrFar
<1>2. \A c, d \in M : c # d => (Before(D, k, c, d) <=> Before(D, j, c, d))
  <2>1. Spread(E \cup {j, k}, D)
    <3>1. {j, k} = {k, j}
      OBVIOUS
    <3> QED BY <3>1
  <2>2. \A c, d \in M : c # d => (Before(D, j, c, d) <=> Before(D, k, c, d))
    BY <2>1, NearOrFar
  <2> QED BY <2>2
<1>3. /\ N # {} => /\ scw \in N /\ \A c \in N \ {scw} : Before(D, k, scw, c)
                   /\ tccw \in N /\ \A c \in N \ {tccw} : Before(D, j, c, tccw)
      /\ M # {} => /\ tcw \in M /\ \A c \in M \ {tcw} : Before(D, j, tcw, c)
                   /\ sccw \in M /\ \A c \in M \ {sccw} : Before(D, k, c, sccw)
  BY DEF FirstAfter, LastAfter, Sees
<1>4. \A c \in N : Before(D, k, c, j) /\ Before(D, j, k, c)
  <2> SUFFICES ASSUME NEW c \in N PROVE Before(D, k, c, j) /\ Before(D, j, k, c)
    OBVIOUS
  <2>1. c \in E /\ Before(D, k, c, j) /\ c # k /\ c # j
    BY DEF Nearer
  <2>2. Before(D, k, c, j) <=> Before(D, j, k, c)
    BY <2>1, Round
  <2> QED BY <2>1, <2>2
<1>5. \A c \in M : Before(D, j, c, k)
  BY DEF Nearer
<1> HIDE DEF N, M
<1>6. FirstAfter(E, D, k, cw1)
  BY <1>1, <1>2, <1>3 DEF FirstAfter
<1>7. LastAfter(E, D, k, ccw1)
  BY <1>1, <1>3 DEF LastAfter
<1>8. FirstAfter(F, D, j, cw2)
  BY <1>1, <1>3, <1>4, <1>5 DEF FirstAfter
<1>9. LastAfter(F, D, j, ccw2)
  BY <1>1, <1>3, <1>4, <1>5 DEF LastAfter
<1>10. ccw1 \in E /\ ccw1 # k
  BY <1>7 DEF LastAfter
<1>11. U1[k] = cw1 /\ U1[ccw1] = k /\ \A c \in E \ {ccw1} : U1[c] = T[c]
  BY <1>10
<1>12. Spread(F, D)
  BY SpreadPart
<1> HIDE DEF U1
<1>13. Turns(F, D, U1) /\ T[ccw1] = cw1
  <2> HIDE DEF cw1, ccw1
  <2> QED BY <1>6, <1>7, <1>11, <1>12, TurnsInserted
<1>14. U[j] = cw2 /\ U[ccw2] = j /\ \A c \in F \ {ccw2} : U[c] = U1[c]
  <2>0. /\ U[k] = IF N = {} THEN j ELSE scw
        /\ U[j] = IF M = {} THEN k ELSE tcw
        /\ \A c \in E : U[c] = IF N # {} /\ c = tccw THEN j
                               ELSE IF M # {} /\ c = sccw THEN k
                               ELSE T[c]
    BY DEF InsertedTwice, N, M
  <2>1. U[j] = cw2
    BY <2>0
  <2>2. U[ccw2] = j
    <3>1. CASE N = {}
      BY <2>0, <3>1
    <3>2. CASE N # {}
      <4>1. tccw \in E /\ ccw2 = tccw
        BY <1>1, <1>3, <3>2
      <4>2. U[tccw] = j
        BY <2>0, <3>2, <4>1
      <4> QED BY <4>1, <4>2
    <3> QED BY <3>1, <3>2
  <2>3. N # {} => U[k] = U1[k]
    BY <1>11, <2>0
  <2>4. ASSUME NEW c \in E, c # ccw2 PROVE U[c] = U1[c]
    <3>1. CASE c = ccw1
      <4>1. M # {}
        BY <1>1, <2>4, <3>1
      <4>2. c = sccw
        BY <3>1, <4>1
      <4>3. ~ (N # {} /\ c = tccw)
        BY <1>1, <1>3, <4>1, <4>2
      <4>4. U[c] = k
        BY <2>0, <4>1, <4>2, <4>3
      <4> QED BY <1>11, <3>1, <4>4
    <3>2. CASE c # ccw1
      <4>1. ~ (N # {} /\ c = tccw) /\ ~ (M # {} /\ c = sccw)
        BY <2>4, <3>2
      <4>2. U[c] = T[c]
        BY <2>0, <4>1
      <4> QED BY <1>11, <3>2, <4>2
    <3> QED BY <3>1, <3>2
  <2> QED BY <2>1, <2>2, <2>3, <2>4
<1>15. j \notin F /\ F \cup {j} = E \cup {k, j}
  OBVIOUS
<1>16. Turns(E \cup {k, j}, D, U) /\ U1[ccw2] = cw2
  <2>1. Turns(F \cup {j}, D, U) /\ U1[ccw2] = cw2
    <3> HIDE DEF cw2, ccw2
    <3>1. Spread(F \cup {j}, D)
      BY <1>15
    <3> HIDE DEF F
    <3> QED BY <1>8, <1>9, <1>13, <1>14, <1>15, <3>1, TurnsInserted
  <2> QED BY <1>15, <2>1
<1>17. N # {} /\ M # {} => T[sccw] = scw /\ T[tccw] = tcw
  <2> SUFFICES ASSUME N # {}, M # {} PROVE T[sccw] = scw /\ T[tccw] = tcw
    OBVIOUS
  <2>1. tccw \in E /\ tccw # ccw1
    BY <1>1, <1>3
  <2> QED BY <1>11, <1>13, <1>16, <2>1
<1>18. (N = {} => T[sccw] = tcw) /\ (M = {} => T[tccw] = scw)
  <2>1. ~ (N = {} /\ M = {})
    BY <1>1
  <2> QED BY <1>13, <2>1
<1> QED BY <1>16, <1>17, <1>18 DEF N, M

\* Only the directions matter.
LEMMA SpreadSame ==
  ASSUME NEW E, NEW D, NEW D2, \A c \in E : D2[c] = D[c], Spread(E, D)
  PROVE  /\ Spread(E, D2)
         /\ \A T : Turns(E, D, T) => Turns(E, D2, T)
<1>1. Spread(E, D2)
  BY DEF Spread
<1>2. ASSUME NEW T, Turns(E, D, T) PROVE Turns(E, D2, T)
  BY <1>2 DEF Turns, FirstAfter, Before
<1> QED BY <1>1, <1>2

\* An end that moves and still has the same neighbours.
LEMMA TurnsMoved ==
  ASSUME NEW E, NEW D, NEW D2, Spread(E, D), Spread(E, D2), NEW k \in E, E # {k},
         \A c \in E \ {k} : D2[c] = D[c], NEW cw, NEW ccw,
         FirstAfter(E \ {k}, D, k, cw), LastAfter(E \ {k}, D, k, ccw),
         FirstAfter(E \ {k}, D2, k, cw), LastAfter(E \ {k}, D2, k, ccw),
         NEW T, Turns(E, D, T)
  PROVE  Turns(E, D2, T)
<1> DEFINE F == E \ {k}
           T1 == [c \in F |-> IF T[c] = k THEN T[k] ELSE T[c]]
           U == [c \in E |-> IF c = k THEN cw ELSE IF c = ccw THEN k ELSE T1[c]]
<1>1. F \cup {k} = E /\ k \notin F
  OBVIOUS
<1>2. ccw \in F
  BY DEF LastAfter
<1>3. \A c \in F : T1[c] = IF T[c] = k THEN T[k] ELSE T[c]
  OBVIOUS
<1>4. Turns(F, D, T1)
  <2> HIDE DEF T1
  <2> QED BY <1>3, TurnsRemoved
<1>5. Spread(F, D) /\ Turns(F, D2, T1)
  <2>1. Spread(F, D)
    BY <1>1, SpreadPart
  <2>2. \A c \in F : D2[c] = D[c]
    OBVIOUS
  <2> HIDE DEF F, T1
  <2> QED BY <1>4, <2>1, <2>2, SpreadSame
<1>6. U[k] = cw /\ U[ccw] = k /\ \A c \in F \ {ccw} : U[c] = T1[c]
  BY <1>2
<1> HIDE DEF T1, U
<1>7. Turns(E, D, U)
  <2>1. Turns(F \cup {k}, D, U)
    <3>1. Spread(F \cup {k}, D) /\ k \notin F /\ FirstAfter(F, D, k, cw) /\ LastAfter(F, D, k, ccw)
      BY <1>1
    <3> HIDE DEF F
    <3> QED BY <3>1, <1>4, <1>6, TurnsInserted
  <2> QED BY <1>1, <2>1
<1>8. Turns(E, D2, U)
  <2>1. Turns(F \cup {k}, D2, U)
    <3>1. Spread(F \cup {k}, D2) /\ k \notin F /\ FirstAfter(F, D2, k, cw) /\ LastAfter(F, D2, k, ccw)
      BY <1>1
    <3> HIDE DEF F
    <3> QED BY <3>1, <1>5, <1>6, TurnsInserted
  <2> QED BY <1>1, <2>1
<1>9. \A c \in E : T[c] = U[c]
  BY <1>7, OneTurn
<1> QED BY <1>8, <1>9 DEF Turns

\* The two ends of a closed line that moves, when both still have the same
\* neighbours.
LEMMA TurnsMovedTwice ==
  ASSUME NEW E, E # {}, NEW D, NEW D2, NEW k, NEW j, k \notin E, j \notin E, k # j,
         Spread(E \cup {k, j}, D), Spread(E \cup {k, j}, D2), \A c \in E : D2[c] = D[c],
         NEW scw, NEW sccw, NEW tcw, NEW tccw,
         Nearer(E, D, k, j) = {} <=> Nearer(E, D2, k, j) = {},
         Nearer(E, D, j, k) = {} <=> Nearer(E, D2, j, k) = {},
         Sees(E, D, k, j, scw, tccw), Sees(E, D, j, k, tcw, sccw),
         Sees(E, D2, k, j, scw, tccw), Sees(E, D2, j, k, tcw, sccw),
         NEW T, Turns(E \cup {k, j}, D, T)
  PROVE  Turns(E \cup {k, j}, D2, T)
<1> DEFINE F == E \cup {k, j}
           G == E \cup {j}
           none == Nearer(E, D, k, j) = {}
           some == Nearer(E, D, j, k) = {}
           T1 == [c \in G |-> IF T[c] = k THEN T[k] ELSE T[c]]
           T2 == [c \in E |-> IF T1[c] = j THEN T1[j] ELSE T1[c]]
           U == [c \in F |-> IF c = k THEN IF none THEN j ELSE scw
                             ELSE IF c = j THEN IF some THEN k ELSE tcw
                             ELSE IF ~ none /\ c = tccw THEN j
                             ELSE IF ~ some /\ c = sccw THEN k
                             ELSE T2[c]]
<1>1. F \ {k} = G /\ G \ {j} = E /\ k \in F /\ F # {k} /\ j \in G /\ G # {j}
  OBVIOUS
<1>2. Turns(G, D, T1)
  <2>1. \A c \in F \ {k} : T1[c] = IF T[c] = k THEN T[k] ELSE T[c]
    BY <1>1
  <2>2. Turns(F \ {k}, D, T1)
    <3> HIDE DEF T1, F
    <3> QED BY <1>1, <2>1, TurnsRemoved DEF F
  <2> QED BY <1>1, <2>2
<1>3. Spread(G, D) /\ Spread(E, D)
  BY SpreadPart
<1>4. Turns(E, D, T2)
  <2>1. \A c \in G \ {j} : T2[c] = IF T1[c] = j THEN T1[j] ELSE T1[c]
    BY <1>1
  <2>2. Turns(G \ {j}, D, T2)
    <3> HIDE DEF T1, T2, G
    <3> QED BY <1>1, <1>2, <1>3, <2>1, TurnsRemoved
  <2> QED BY <1>1, <2>2
<1>5. Turns(E, D2, T2)
  <2> HIDE DEF T2
  <2> QED BY <1>3, <1>4, SpreadSame
<1>6. /\ InsertedTwice(E, D, k, j, scw, sccw, tcw, tccw, T2, U)
      /\ InsertedTwice(E, D2, k, j, scw, sccw, tcw, tccw, T2, U)
  <2> HIDE DEF T2
  <2> QED BY DEF InsertedTwice
<1> HIDE DEF T2, U
<1>7. Turns(F, D, U)
  BY <1>4, <1>6, TurnsInsertedTwice
<1>8. Turns(F, D2, U)
  BY <1>5, <1>6, TurnsInsertedTwice
<1>9. \A c \in F : T[c] = U[c]
  <2> HIDE DEF F
  <2> QED BY <1>7, OneTurn DEF F
<1> QED BY <1>8, <1>9 DEF Turns

-----------------------------------------------------------------------------
(* Lines *)

LEMMA LineFacts ==
  ASSUME NEW l \in Polylines
  PROVE  /\ Len(l) \in Nat /\ Len(l) >= 2 /\ DOMAIN l = 1..Len(l)
         /\ \A i \in 1..Len(l) : l[i] \in Plane
         /\ \A i \in Segments(l) : /\ i \in Nat /\ i \in 1..Len(l) /\ i + 1 \in 1..Len(l)
                                   /\ l[i] # l[i + 1] /\ l[i] \in Plane /\ l[i + 1] \in Plane
         /\ Head(l) = l[1] /\ Last(l) = l[Len(l)] /\ Ends(l) = {l[1], l[Len(l)]}
         /\ 1 \in Segments(l) /\ Len(l) - 1 \in Segments(l)
  BY DEF Polylines, Segments, Ends, Last

LEMMA SegmentRange ==
  ASSUME NEW l \in Polylines, NEW i
  PROVE  i \in Segments(l) <=> i \in Nat /\ 1 <= i /\ i <= Len(l) - 1
  BY LineFacts DEF Segments

LEMMA LineMade ==
  ASSUME NEW n \in Nat, n >= 2, NEW l, l \in [1..n -> Plane], \A i \in 1..(n - 1) : l[i] # l[i + 1]
  PROVE  l \in Polylines /\ Len(l) = n
<1>1. l \in Seq(Plane) /\ Len(l) = n
  OBVIOUS
<1> QED BY <1>1 DEF Polylines, Segments

\* The vertices lie on the line.
LEMMA Vertices ==
  ASSUME NEW l \in Polylines, NEW i \in 1..Len(l)
  PROVE  OnLine(l[i], l)
<1>1. CASE i = Len(l)
  <2>1. Len(l) - 1 \in Segments(l) /\ l[Len(l) - 1] \in Plane /\ l[i] \in Plane /\ (Len(l) - 1) + 1 = i
    BY <1>1, LineFacts
  <2>2. Between(l[i], l[Len(l) - 1], l[(Len(l) - 1) + 1])
    BY <2>1, BetweenEnds
  <2> QED BY <2>1, <2>2 DEF OnLine
<1>2. CASE i # Len(l)
  <2>1. i \in Segments(l)
    <3>1. Len(l) \in Nat /\ i \in Nat /\ 1 <= i /\ i <= Len(l) - 1
      BY <1>2, LineFacts
    <3> QED BY <3>1, SegmentRange
  <2>2. Between(l[i], l[i], l[i + 1])
    BY <2>1, LineFacts, BetweenEnds
  <2> QED BY <2>1, <2>2 DEF OnLine
<1> QED BY <1>1, <1>2

\* No segment of l runs into one of m.
ClearLines(l, m) ==
  \A i \in Segments(l), j \in Segments(m) : Clear(l[i], l[i + 1], m[j], m[j + 1])

\* The lines have ends of theirs in common and no other points.
Apart(l, m) ==
  /\ ClearLines(l, m)
  /\ \A p \in Plane : OnLine(p, l) /\ OnLine(p, m) => p \in Ends(l) \cup Ends(m)

\* InteriorsMeet looks at pairs of segments and at vertices, and that is enough.
LEMMA ApartMeaning ==
  ASSUME NEW l \in Polylines, NEW m \in Polylines
  PROVE  ~ InteriorsMeet(l, m) <=> Apart(l, m)
<1>1. \A i \in Segments(l), j \in Segments(m) :
        Clear(l[i], l[i + 1], m[j], m[j + 1])
          <=> ~ CrossInside(l[i], l[i + 1], m[j], m[j + 1]) /\ ~ Overlap(l[i], l[i + 1], m[j], m[j + 1])
  BY LineFacts, ClearMeaning
<1>2. ASSUME ~ InteriorsMeet(l, m) PROVE Apart(l, m)
  <2>1. ClearLines(l, m)
    BY <1>1, <1>2 DEF InteriorsMeet, ClearLines
  <2>2. /\ \A i \in 1..Len(l) : OnLine(l[i], m) => l[i] \in Ends(l) \cup Ends(m)
        /\ \A j \in 1..Len(m) : OnLine(m[j], l) => m[j] \in Ends(l) \cup Ends(m)
    BY <1>2 DEF InteriorsMeet
  <2>3. ASSUME NEW p \in Plane, OnLine(p, l), OnLine(p, m) PROVE p \in Ends(l) \cup Ends(m)
    <3>1. PICK i \in Segments(l) : Between(p, l[i], l[i + 1])
      BY <2>3 DEF OnLine
    <3>2. PICK j \in Segments(m) : Between(p, m[j], m[j + 1])
      BY <2>3 DEF OnLine
    <3>3. Clear(l[i], l[i + 1], m[j], m[j + 1])
      BY <2>1 DEF ClearLines
    <3>4. p \in {l[i], l[i + 1], m[j], m[j + 1]}
      <4>1. /\ l[i] \in Plane /\ l[i + 1] \in Plane /\ l[i] # l[i + 1]
            /\ m[j] \in Plane /\ m[j + 1] \in Plane /\ m[j] # m[j + 1]
        BY LineFacts
      <4> QED BY <4>1, <2>3, <3>1, <3>2, <3>3, ClearCommon
    <3>5. i \in 1..Len(l) /\ i + 1 \in 1..Len(l) /\ j \in 1..Len(m) /\ j + 1 \in 1..Len(m)
      BY LineFacts
    <3> QED BY <2>2, <2>3, <3>4, <3>5
  <2> QED BY <2>1, <2>3 DEF Apart
<1>3. ASSUME Apart(l, m) PROVE ~ InteriorsMeet(l, m)
  <2>1. /\ \A i \in 1..Len(l) : OnLine(l[i], l) /\ l[i] \in Plane
        /\ \A j \in 1..Len(m) : OnLine(m[j], m) /\ m[j] \in Plane
    BY LineFacts, Vertices
  <2>2. \A i \in Segments(l), j \in Segments(m) :
          ~ CrossInside(l[i], l[i + 1], m[j], m[j + 1]) /\ ~ Overlap(l[i], l[i + 1], m[j], m[j + 1])
    BY <1>1, <1>3 DEF Apart, ClearLines
  <2> QED BY <1>3, <2>1, <2>2 DEF Apart, InteriorsMeet
<1> QED BY <1>2, <1>3

LEMMA ApartSwap ==
  ASSUME NEW l \in Polylines, NEW m \in Polylines, Apart(l, m)
  PROVE  Apart(m, l)
<1>1. ClearLines(m, l)
  BY LineFacts, ClearSwap DEF Apart, ClearLines
<1> QED BY <1>1 DEF Apart

\* A line meets itself only where one segment follows another.
Simple(l) ==
  \A i, j \in Segments(l) : i < j =>
    /\ Clear(l[i], l[i + 1], l[j], l[j + 1])
    /\ \A p \in Plane : Between(p, l[i], l[i + 1]) /\ Between(p, l[j], l[j + 1]) =>
         \/ j = i + 1 /\ p = l[j]
         \/ i = 1 /\ j = Len(l) - 1 /\ p = Head(l) /\ Head(l) = Last(l)

\* IsSimple looks at pairs of segments and at their ends, and that is enough.
LEMMA SimpleMeaning ==
  ASSUME NEW l \in Polylines
  PROVE  IsSimple(l) <=> Simple(l)
<1>1. \A i, j \in Segments(l) :
        Clear(l[i], l[i + 1], l[j], l[j + 1])
          <=> ~ CrossInside(l[i], l[i + 1], l[j], l[j + 1]) /\ ~ Overlap(l[i], l[i + 1], l[j], l[j + 1])
  BY LineFacts, ClearMeaning
<1>2. ASSUME IsSimple(l), NEW i \in Segments(l), NEW j \in Segments(l), i < j
      PROVE  /\ Clear(l[i], l[i + 1], l[j], l[j + 1])
             /\ \A p \in Plane : Between(p, l[i], l[i + 1]) /\ Between(p, l[j], l[j + 1]) =>
                  \/ j = i + 1 /\ p = l[j]
                  \/ i = 1 /\ j = Len(l) - 1 /\ p = Head(l) /\ Head(l) = Last(l)
  <2>1. Clear(l[i], l[i + 1], l[j], l[j + 1])
    BY <1>1, <1>2 DEF IsSimple
  <2>2. ASSUME NEW p \in Plane, Between(p, l[i], l[i + 1]), Between(p, l[j], l[j + 1])
        PROVE  \/ j = i + 1 /\ p = l[j]
               \/ i = 1 /\ j = Len(l) - 1 /\ p = Head(l) /\ Head(l) = Last(l)
    <3>0. /\ i \in Nat /\ j \in Nat
          /\ l[i] \in Plane /\ l[i + 1] \in Plane /\ l[j] \in Plane /\ l[j + 1] \in Plane
          /\ l[i] # l[i + 1] /\ l[j] # l[j + 1]
      BY LineFacts
    <3>1. CASE j = i + 1
      <4>1. Between(l[j], l[i], l[i + 1]) /\ Between(l[j], l[j], l[j + 1])
        BY <3>0, <3>1, BetweenEnds
      <4> QED BY <2>1, <2>2, <3>0, <3>1, <4>1 DEF Clear, AtMostOne
    <3>2. CASE j > i + 1
      <4>1. p \in {l[i], l[i + 1], l[j], l[j + 1]}
        BY <2>1, <2>2, <3>0, ClearCommon
      <4>2. i = 1 /\ j = Len(l) - 1 /\ p \in Ends(l) /\ Head(l) = Last(l)
        BY <1>2, <2>2, <3>2, <4>1 DEF IsSimple
      <4> QED BY <4>2 DEF Ends
    <3> QED BY <1>2, <3>0, <3>1, <3>2
  <2> QED BY <2>1, <2>2
<1>3. ASSUME Simple(l), NEW i \in Segments(l), NEW j \in Segments(l), i < j
      PROVE  /\ ~ CrossInside(l[i], l[i + 1], l[j], l[j + 1])
             /\ ~ Overlap(l[i], l[i + 1], l[j], l[j + 1])
             /\ j > i + 1 =>
                  \A p \in {l[i], l[i + 1], l[j], l[j + 1]} :
                    Between(p, l[i], l[i + 1]) /\ Between(p, l[j], l[j + 1])
                      => i = 1 /\ j = Len(l) - 1 /\ p \in Ends(l) /\ Head(l) = Last(l)
  <2>0. /\ i \in Nat /\ j \in Nat
        /\ l[i] \in Plane /\ l[i + 1] \in Plane /\ l[j] \in Plane /\ l[j + 1] \in Plane
    BY LineFacts
  <2>1. /\ Clear(l[i], l[i + 1], l[j], l[j + 1])
        /\ \A p \in Plane : Between(p, l[i], l[i + 1]) /\ Between(p, l[j], l[j + 1]) =>
             \/ j = i + 1 /\ p = l[j]
             \/ i = 1 /\ j = Len(l) - 1 /\ p = Head(l) /\ Head(l) = Last(l)
    BY <1>3 DEF Simple
  <2>2. ASSUME j > i + 1, NEW p \in {l[i], l[i + 1], l[j], l[j + 1]},
               Between(p, l[i], l[i + 1]), Between(p, l[j], l[j + 1])
        PROVE  i = 1 /\ j = Len(l) - 1 /\ p \in Ends(l) /\ Head(l) = Last(l)
    <3>1. j # i + 1 /\ p \in Plane
      BY <2>0, <2>2
    <3> QED BY <2>1, <2>2, <3>1 DEF Ends
  <2> QED BY <1>1, <2>1, <2>2
<1> QED BY <1>2, <1>3 DEF IsSimple, Simple

-----------------------------------------------------------------------------
(* Lines walked back *)

LEMMA Reversed ==
  ASSUME NEW l \in Polylines
  PROVE  /\ Reverse(l) \in Polylines /\ Len(Reverse(l)) = Len(l)
         /\ \A i \in 1..Len(l) : Reverse(l)[i] = l[(Len(l) - i) + 1]
         /\ Head(Reverse(l)) = Last(l) /\ Last(Reverse(l)) = Head(l)
         /\ Ends(Reverse(l)) = Ends(l)
         /\ Reverse(Reverse(l)) = l
<1> DEFINE n == Len(l)
           r == Reverse(l)
<1>1. n \in Nat /\ n >= 2 /\ l \in [1..n -> Plane]
  <2>1. l \in Seq(Plane)
    BY DEF Polylines
  <2> QED BY <2>1, LineFacts
<1>2. r = [i \in 1..n |-> l[(n - i) + 1]]
  BY DEF Reverse
<1>3. \A i \in 1..n : (n - i) + 1 \in 1..n
  BY <1>1
<1>4. r \in [1..n -> Plane]
  BY <1>1, <1>2, <1>3
<1>5. \A i \in 1..n : r[i] = l[(n - i) + 1]
  BY <1>2
<1>6. ASSUME NEW i \in 1..(n - 1) PROVE r[i] # r[i + 1]
  <2>1. /\ i \in 1..n /\ i + 1 \in 1..n /\ (n - (i + 1)) + 1 = n - i /\ (n - i) + 1 \in 1..n
        /\ n - i \in Nat /\ 1 <= n - i /\ n - i <= n - 1
    BY <1>1
  <2>2. n - i \in Segments(l)
    BY <2>1, SegmentRange
  <2>3. l[n - i] # l[(n - i) + 1]
    BY <2>2, LineFacts
  <2> QED BY <1>5, <2>1, <2>3
<1> HIDE DEF r
<1>7. r \in Polylines /\ Len(r) = n
  BY <1>1, <1>4, <1>6, LineMade
<1>8. r[1] = l[n] /\ r[n] = l[1]
  <2>1. 1 \in 1..n /\ n \in 1..n /\ (n - 1) + 1 = n /\ (n - n) + 1 = 1
    BY <1>1
  <2> QED BY <1>5, <2>1
<1>9. Reverse(r) = l
  <2>1. Reverse(r) = [i \in 1..n |-> r[(n - i) + 1]]
    BY <1>7 DEF Reverse
  <2>2. \A i \in 1..n : r[(n - i) + 1] = l[i]
    <3> SUFFICES ASSUME NEW i \in 1..n PROVE r[(n - i) + 1] = l[i]
      OBVIOUS
    <3>1. r[(n - i) + 1] = l[(n - ((n - i) + 1)) + 1]
      BY <1>3, <1>5
    <3>2. (n - ((n - i) + 1)) + 1 = i
      BY <1>1
    <3> QED BY <3>1, <3>2
  <2> QED BY <1>1, <2>1, <2>2
<1>10. /\ Head(l) = l[1] /\ Last(l) = l[n] /\ Ends(l) = {l[1], l[n]}
       /\ Head(r) = r[1] /\ Last(r) = r[n] /\ Ends(r) = {r[1], r[n]}
  BY <1>7, LineFacts
<1> QED BY <1>5, <1>7, <1>8, <1>9, <1>10 DEF r

\* Segment i of the line walked back is a segment of the line.
LEMMA ReversedSegment ==
  ASSUME NEW l \in Polylines, NEW i \in Segments(l)
  PROVE  /\ Len(l) - i \in Segments(l)
         /\ Len(l) - (Len(l) - i) = i
         /\ Reverse(l)[i] = l[(Len(l) - i) + 1] /\ Reverse(l)[i + 1] = l[Len(l) - i]
         /\ Segments(Reverse(l)) = Segments(l)
<1> DEFINE n == Len(l)
<1>1. n \in Nat /\ i \in Nat /\ 1 <= i /\ i <= n - 1
  BY SegmentRange, LineFacts
<1>2. n - i \in Nat /\ 1 <= n - i /\ n - i <= n - 1 /\ n - (n - i) = i
  BY <1>1
<1>3. n - i \in Segments(l)
  BY <1>2, SegmentRange
<1>4. i \in 1..n /\ i + 1 \in 1..n /\ (n - (i + 1)) + 1 = n - i
  BY <1>1
<1>5. Reverse(l)[i] = l[(n - i) + 1] /\ Reverse(l)[i + 1] = l[n - i]
  BY <1>4, Reversed
<1>6. Segments(Reverse(l)) = Segments(l)
  BY Reversed DEF Segments
<1> QED BY <1>2, <1>3, <1>5, <1>6

\* A line walked back has the points and the crossings of the line.
LEMMA ReversedPoints ==
  ASSUME NEW l \in Polylines, NEW p \in Plane
  PROVE  OnLine(p, Reverse(l)) <=> OnLine(p, l)
<1>1. ASSUME NEW m \in Polylines, OnLine(p, m) PROVE OnLine(p, Reverse(m))
  <2>1. PICK i \in Segments(m) : Between(p, m[i], m[i + 1])
    BY <1>1 DEF OnLine
  <2> DEFINE j == Len(m) - i
  <2>2. j \in Segments(m) /\ Len(m) - j = i
    BY ReversedSegment
  <2>3. Reverse(m)[j] = m[i + 1] /\ Reverse(m)[j + 1] = m[i] /\ Segments(Reverse(m)) = Segments(m)
    <3> HIDE DEF j
    <3> QED BY <2>2, ReversedSegment
  <2>4. m[i] \in Plane /\ m[i + 1] \in Plane
    BY LineFacts
  <2>5. Between(p, Reverse(m)[j], Reverse(m)[j + 1])
    BY <2>1, <2>3, <2>4, BetweenSwap
  <2> QED BY <2>2, <2>3, <2>5 DEF OnLine
<1>2. Reverse(l) \in Polylines /\ Reverse(Reverse(l)) = l
  BY Reversed
<1> QED BY <1>1, <1>2

LEMMA ReversedApart ==
  ASSUME NEW l \in Polylines, NEW m \in Polylines, Apart(l, m)
  PROVE  Apart(Reverse(l), m)
<1>1. ClearLines(Reverse(l), m)
  <2>0. Segments(Reverse(l)) = Segments(l)
    BY Reversed DEF Segments
  <2> SUFFICES ASSUME NEW i \in Segments(l), NEW j \in Segments(m)
               PROVE  Clear(Reverse(l)[i], Reverse(l)[i + 1], m[j], m[j + 1])
    BY <2>0 DEF ClearLines
  <2> DEFINE k == Len(l) - i
  <2>1. k \in Segments(l) /\ Reverse(l)[i] = l[k + 1] /\ Reverse(l)[i + 1] = l[k]
    BY ReversedSegment
  <2> HIDE DEF k
  <2>2. Clear(l[k], l[k + 1], m[j], m[j + 1])
    BY <2>1 DEF Apart, ClearLines
  <2>3. l[k] \in Plane /\ l[k + 1] \in Plane /\ m[j] \in Plane /\ m[j + 1] \in Plane
    BY <2>1, LineFacts
  <2> QED BY <2>1, <2>2, <2>3, ClearSwap
<1>2. Ends(Reverse(l)) = Ends(l)
  BY Reversed
<1> QED BY <1>1, <1>2, ReversedPoints DEF Apart

LEMMA ReversedSimple ==
  ASSUME NEW l \in Polylines, Simple(l)
  PROVE  Simple(Reverse(l))
<1> DEFINE n == Len(l)
           r == Reverse(l)
<1>1. /\ r \in Polylines /\ Len(r) = n /\ Head(r) = Last(l) /\ Last(r) = Head(l)
      /\ n \in Nat
  BY Reversed, LineFacts
<1> SUFFICES ASSUME NEW i \in Segments(r), NEW j \in Segments(r), i < j
             PROVE  /\ Clear(r[i], r[i + 1], r[j], r[j + 1])
                    /\ \A p \in Plane : Between(p, r[i], r[i + 1]) /\ Between(p, r[j], r[j + 1]) =>
                         \/ j = i + 1 /\ p = r[j]
                         \/ i = 1 /\ j = Len(r) - 1 /\ p = Head(r) /\ Head(r) = Last(r)
  BY DEF Simple
<1> DEFINE k == n - j
           m == n - i
<1>2. i \in Segments(l) /\ j \in Segments(l)
  BY <1>1 DEF Segments
<1>3. /\ k \in Segments(l) /\ m \in Segments(l)
      /\ r[i] = l[m + 1] /\ r[i + 1] = l[m] /\ r[j] = l[k + 1] /\ r[j + 1] = l[k]
  BY <1>2, ReversedSegment
<1>4. i \in Nat /\ j \in Nat /\ k \in Nat /\ m \in Nat
  BY <1>2, <1>3, SegmentRange
<1>5. k < m /\ (m = k + 1 => j = i + 1) /\ (k = 1 => j = n - 1) /\ (m = n - 1 => i = 1)
  BY <1>1, <1>4
<1>6. /\ l[k] \in Plane /\ l[k + 1] \in Plane /\ l[m] \in Plane /\ l[m + 1] \in Plane
  BY <1>3, LineFacts
<1> HIDE DEF k, m, r, n
<1>7. /\ Clear(l[k], l[k + 1], l[m], l[m + 1])
      /\ \A p \in Plane : Between(p, l[k], l[k + 1]) /\ Between(p, l[m], l[m + 1]) =>
           \/ m = k + 1 /\ p = l[m]
           \/ k = 1 /\ m = n - 1 /\ p = Head(l) /\ Head(l) = Last(l)
  BY <1>3, <1>5 DEF Simple, n
<1>8. Clear(r[i], r[i + 1], r[j], r[j + 1])
  BY <1>3, <1>6, <1>7, ClearSwap
<1>9. ASSUME NEW p \in Plane, Between(p, r[i], r[i + 1]), Between(p, r[j], r[j + 1])
      PROVE  \/ j = i + 1 /\ p = r[j]
             \/ i = 1 /\ j = Len(r) - 1 /\ p = Head(r) /\ Head(r) = Last(r)
  <2>1. Between(p, l[m], l[m + 1]) /\ Between(p, l[k], l[k + 1])
    BY <1>3, <1>6, <1>9, BetweenSwap
  <2>2. \/ m = k + 1 /\ p = l[m]
        \/ k = 1 /\ m = n - 1 /\ p = Head(l) /\ Head(l) = Last(l)
    BY <1>7, <2>1
  <2> QED BY <1>1, <1>3, <1>5, <2>2
<1> QED BY <1>8, <1>9

-----------------------------------------------------------------------------
(* Lines cut at a point *)

\* Segment i is the first of l that p is on.
FirstOn(l, p, i) ==
  /\ i \in Segments(l) /\ Between(p, l[i], l[i + 1])
  /\ \A j \in Segments(l) : j < i => ~ Between(p, l[j], l[j + 1])

\* h is l up to p on segment i.
HeadOf(l, p, i, h) ==
  /\ h \in Polylines /\ Len(h) = i + 1
  /\ \A j \in 1..i : h[j] = l[j]
  /\ h[i + 1] = p

\* p is where l can be cut.
Cuts(l, p) == p \in Plane /\ OnLine(p, l) /\ p \notin Ends(l)

\* The head of a line ends on the first segment that has the point.
LEMMA HeadFacts ==
  ASSUME NEW l \in Polylines, NEW p, Cuts(l, p)
  PROVE  \E i \in Segments(l) : FirstOn(l, p, i) /\ p # l[i] /\ HeadOf(l, p, i, HeadTo(l, p))
<1> DEFINE S == {j \in Segments(l) : Between(p, l[j], l[j + 1])}
           i == Min(S)
           h == HeadTo(l, p)
<1>0. p \in Plane /\ OnLine(p, l) /\ p \notin Ends(l)
  BY DEF Cuts
<1>1. \E m \in S : \A k \in S : m <= k
  <2>1. S \in SUBSET Nat /\ S # {}
    BY <1>0, SegmentRange DEF OnLine
  <2> HIDE DEF S
  <2> QED BY <2>1, LeastNumber
<1>2. i \in S /\ \A k \in S : i <= k
  BY <1>1 DEF Min
<1>3. i \in Segments(l) /\ Between(p, l[i], l[i + 1])
  BY <1>2
<1>4. ASSUME NEW j \in Segments(l), j < i PROVE ~ Between(p, l[j], l[j + 1])
  <2>1. i \in Nat /\ j \in Nat
    BY <1>3, SegmentRange
  <2>2. j \notin S
    BY <1>2, <1>4, <2>1
  <2> QED BY <2>2
<1>5. h = Append(SubSeq(l, 1, i), p)
  BY DEF HeadTo
<1> HIDE DEF S, i, h
<1>6. FirstOn(l, p, i)
  BY <1>3, <1>4 DEF FirstOn
<1>7. i \in Nat /\ 1 <= i /\ i <= Len(l) - 1 /\ Len(l) \in Nat /\ l \in [1..Len(l) -> Plane]
  <2>1. l \in Seq(Plane)
    BY DEF Polylines
  <2> QED BY <1>3, <2>1, SegmentRange, LineFacts
<1>8. p # l[i]
  <2>1. CASE i = 1
    BY <1>0, <2>1, LineFacts
  <2>2. CASE i # 1
    <3>1. i - 1 \in Segments(l) /\ i - 1 < i /\ (i - 1) + 1 = i
      BY <1>7, <2>2, SegmentRange
    <3>2. l[i - 1] \in Plane /\ l[i] \in Plane
      BY <1>3, <3>1, LineFacts
    <3>3. Between(l[i], l[i - 1], l[(i - 1) + 1])
      BY <3>1, <3>2, BetweenEnds
    <3> QED BY <3>1, <3>3, <1>6 DEF FirstOn
  <2> QED BY <2>1, <2>2
<1>9. h = [j \in 1..(i + 1) |-> IF j = i + 1 THEN p ELSE l[j]]
  <2>1. SubSeq(l, 1, i) = [j \in 1..i |-> l[j]]
    BY <1>7
  <2>2. SubSeq(l, 1, i) \in Seq(Plane) /\ Len(SubSeq(l, 1, i)) = i
    BY <1>7, <2>1
  <2> QED BY <1>0, <1>5, <1>7, <2>1, <2>2
<1>10. h \in [1..(i + 1) -> Plane]
  BY <1>0, <1>7, <1>9
<1>11. h[i + 1] = p /\ \A j \in 1..i : h[j] = l[j]
  BY <1>7, <1>9
<1>12. ASSUME NEW j \in 1..i PROVE h[j] # h[j + 1]
  <2>1. CASE j = i
    BY <1>8, <1>11, <2>1
  <2>2. CASE j # i
    <3>1. j \in Nat /\ 1 <= j /\ j <= Len(l) - 1 /\ j + 1 \in 1..i
      BY <1>7, <2>2
    <3>2. l[j] # l[j + 1]
      BY <3>1, SegmentRange, LineFacts
    <3> QED BY <1>11, <3>1, <3>2
  <2> QED BY <2>1, <2>2
<1>13. i + 1 \in Nat /\ i + 1 >= 2 /\ (i + 1) - 1 = i
  BY <1>7
<1>14. h \in Polylines /\ Len(h) = i + 1
  BY <1>10, <1>12, <1>13, LineMade
<1> QED BY <1>3, <1>6, <1>8, <1>11, <1>14 DEF HeadOf, h

\* What HeadOf says of the segments.
LEMMA HeadSegments ==
  ASSUME NEW l \in Polylines, NEW p \in Plane, NEW i \in Segments(l), NEW h, HeadOf(l, p, i, h)
  PROVE  /\ i \in Nat /\ h \in Polylines
         /\ \A j : j \in Segments(h) <=> j \in Nat /\ 1 <= j /\ j <= i
         /\ \A j \in Segments(h) : j \in Segments(l) /\ h[j] = l[j]
         /\ \A j \in Segments(h) : j < i => h[j + 1] = l[j + 1]
         /\ h[i + 1] = p
         /\ Head(h) = Head(l) /\ Last(h) = p /\ Ends(h) = {Head(l), p}
<1>1. i \in Nat /\ 1 <= i /\ i <= Len(l) - 1 /\ Len(l) \in Nat
  BY SegmentRange, LineFacts
<1>2. h \in Polylines /\ Len(h) = i + 1 /\ h[i + 1] = p /\ \A j \in 1..i : h[j] = l[j]
  BY DEF HeadOf
<1>3. \A j : j \in Segments(h) <=> j \in Nat /\ 1 <= j /\ j <= i
  <2>1. (i + 1) - 1 = i
    BY <1>1
  <2> QED BY <1>2, <2>1, SegmentRange
<1>4. \A j \in Segments(h) : j \in Segments(l) /\ h[j] = l[j]
  <2> SUFFICES ASSUME NEW j \in Segments(h) PROVE j \in Segments(l) /\ h[j] = l[j]
    OBVIOUS
  <2>1. j \in Nat /\ 1 <= j /\ j <= i /\ j <= Len(l) - 1
    BY <1>1, <1>3
  <2> QED BY <1>2, <2>1, SegmentRange
<1>5. \A j \in Segments(h) : j < i => h[j + 1] = l[j + 1]
  BY <1>1, <1>2, <1>3
<1>6. Head(h) = Head(l) /\ Last(h) = p /\ Ends(h) = {Head(l), p}
  <2>1. Head(h) = h[1] /\ Last(h) = h[Len(h)] /\ Ends(h) = {h[1], h[Len(h)]} /\ Head(l) = l[1]
    BY <1>2, LineFacts
  <2>2. h[1] = l[1]
    BY <1>1, <1>2
  <2> QED BY <1>2, <2>1, <2>2
<1> QED BY <1>1, <1>2, <1>3, <1>4, <1>5, <1>6

LEMMA HeadPart ==
  ASSUME NEW l \in Polylines, NEW p \in Plane, NEW i \in Segments(l), Between(p, l[i], l[i + 1]),
         NEW h, HeadOf(l, p, i, h), NEW j \in Segments(h)
  PROVE  /\ \A q \in Plane : Between(q, h[j], h[j + 1]) => Between(q, l[j], l[j + 1])
         /\ \A c, d \in Plane : Clear(l[j], l[j + 1], c, d) => Clear(h[j], h[j + 1], c, d)
<1>1. j \in Segments(l) /\ h[j] = l[j]
  BY HeadSegments
<1>2. l[j] \in Plane /\ l[j + 1] \in Plane
  BY <1>1, LineFacts
<1>3. CASE j = i
  <2>1. h[j + 1] = p
    BY <1>3, HeadSegments
  <2> QED BY <1>1, <1>2, <1>3, <2>1, BetweenPart, ClearPart
<1>4. CASE j # i
  <2>1. j < i
    BY <1>4, HeadSegments
  <2>2. h[j + 1] = l[j + 1]
    BY <2>1, HeadSegments
  <2> QED BY <1>1, <2>2
<1> QED BY <1>3, <1>4

\* A cut takes a line's end away from its head.
LEMMA HeadMisses ==
  ASSUME NEW l \in Polylines, NEW p, Cuts(l, p), NEW i \in Segments(l), Between(p, l[i], l[i + 1]),
         NEW h, HeadOf(l, p, i, h)
  PROVE  i + 1 = Len(l) => ~ Between(Last(l), h[i], h[i + 1])
<1> SUFFICES ASSUME i + 1 = Len(l), Between(Last(l), h[i], h[i + 1]) PROVE FALSE
  OBVIOUS
<1>1. p \in Plane /\ p # Last(l)
  BY DEF Cuts, Ends
<1>2. h[i] = l[i] /\ h[i + 1] = p
  <2>1. i \in Segments(h)
    BY <1>1, HeadSegments, SegmentRange
  <2> QED BY <1>1, <2>1, HeadSegments
<1>3. l[i + 1] = Last(l) /\ l[i] \in Plane /\ l[i + 1] \in Plane
  BY LineFacts
<1> DEFINE q == Last(l)
<1>4. Between(q, l[i], p) /\ Between(p, l[i], q) /\ q \in Plane
  BY <1>2, <1>3
<1>5. Between(q, p, q)
  BY <1>1, <1>4, BetweenEnds
<1> HIDE DEF q
<1>6. q = p
  BY <1>1, <1>3, <1>4, <1>5, BetweenParts
<1> QED BY <1>1, <1>6 DEF q

\* The head of a simple line is simple.
LEMMA HeadSimple ==
  ASSUME NEW l \in Polylines, Simple(l), NEW p, Cuts(l, p)
  PROVE  HeadTo(l, p) \in Polylines /\ Simple(HeadTo(l, p))
<1> DEFINE h == HeadTo(l, p)
<1>1. PICK i \in Segments(l) : FirstOn(l, p, i) /\ HeadOf(l, p, i, h)
  BY HeadFacts
<1> HIDE DEF h
<1>2. p \in Plane /\ Between(p, l[i], l[i + 1])
  BY <1>1 DEF Cuts, FirstOn
<1>3. h \in Polylines
  BY <1>1 DEF HeadOf
<1>4. ASSUME NEW j \in Segments(h), NEW k \in Segments(h), j < k
      PROVE  /\ Clear(h[j], h[j + 1], h[k], h[k + 1])
             /\ \A q \in Plane : Between(q, h[j], h[j + 1]) /\ Between(q, h[k], h[k + 1]) =>
                  k = j + 1 /\ q = h[k]
  <2>1. /\ j \in Segments(l) /\ k \in Segments(l) /\ h[k] = l[k]
        /\ i \in Nat /\ k \in Nat /\ k <= i
    BY <1>1, <1>2, HeadSegments
  <2>2. /\ Clear(l[j], l[j + 1], l[k], l[k + 1])
        /\ \A q \in Plane : Between(q, l[j], l[j + 1]) /\ Between(q, l[k], l[k + 1]) =>
             \/ k = j + 1 /\ q = l[k]
             \/ j = 1 /\ k = Len(l) - 1 /\ q = Head(l) /\ Head(l) = Last(l)
    BY <1>4, <2>1 DEF Simple
  <2>3. /\ l[j] \in Plane /\ l[j + 1] \in Plane /\ l[k] \in Plane /\ l[k + 1] \in Plane
        /\ h[j] \in Plane /\ h[j + 1] \in Plane /\ h[k] \in Plane /\ h[k + 1] \in Plane
    BY <1>3, <2>1, LineFacts
  <2>4. Clear(h[j], h[j + 1], l[k], l[k + 1])
    BY <1>1, <1>2, <2>2, <2>3, HeadPart
  <2>5. Clear(l[k], l[k + 1], h[j], h[j + 1])
    BY <2>3, <2>4, ClearSwap
  <2>6. Clear(h[k], h[k + 1], h[j], h[j + 1])
    BY <1>1, <1>2, <2>3, <2>5, HeadPart
  <2>7. Clear(h[j], h[j + 1], h[k], h[k + 1])
    BY <2>3, <2>6, ClearSwap
  <2>8. ASSUME NEW q \in Plane, Between(q, h[j], h[j + 1]), Between(q, h[k], h[k + 1])
        PROVE  k = j + 1 /\ q = h[k]
    <3>1. Between(q, l[j], l[j + 1]) /\ Between(q, l[k], l[k + 1])
      BY <1>1, <1>2, <2>8, HeadPart
    <3>2. CASE k = j + 1 /\ q = l[k]
      BY <2>1, <3>2
    <3>3. CASE k = Len(l) - 1 /\ q = Last(l)
      <4>1. Len(l) \in Nat /\ i <= Len(l) - 1
        BY SegmentRange, LineFacts
      <4>2. k = i /\ i + 1 = Len(l)
        BY <2>1, <3>3, <4>1
      <4> QED BY <1>1, <1>2, <2>8, <3>3, <4>2, HeadMisses
    <3> QED BY <2>2, <3>1, <3>2, <3>3
  <2> QED BY <2>7, <2>8
<1>5. Simple(h)
  BY <1>4 DEF Simple
<1> QED BY <1>3, <1>5 DEF h

\* The head has points of the line, the far end only when the line is closed.
LEMMA HeadOn ==
  ASSUME NEW l \in Polylines, Simple(l), NEW p, Cuts(l, p)
  PROVE  /\ \A q \in Plane : OnLine(q, HeadTo(l, p)) => OnLine(q, l)
         /\ Head(HeadTo(l, p)) = Head(l) /\ Last(HeadTo(l, p)) = p
         /\ Ends(HeadTo(l, p)) = {Head(l), p}
         /\ OnLine(Last(l), HeadTo(l, p)) => Last(l) = Head(l)
<1> DEFINE h == HeadTo(l, p)
<1>1. PICK i \in Segments(l) : FirstOn(l, p, i) /\ HeadOf(l, p, i, h)
  BY HeadFacts
<1> HIDE DEF h
<1>2. p \in Plane /\ Between(p, l[i], l[i + 1])
  BY <1>1 DEF Cuts, FirstOn
<1>3. ASSUME NEW q \in Plane, OnLine(q, h) PROVE OnLine(q, l)
  <2>1. PICK j \in Segments(h) : Between(q, h[j], h[j + 1])
    BY <1>3 DEF OnLine
  <2>2. Between(q, l[j], l[j + 1]) /\ j \in Segments(l)
    BY <1>1, <1>2, <2>1, HeadPart, HeadSegments
  <2> QED BY <2>2 DEF OnLine
<1>4. Head(h) = Head(l) /\ Last(h) = p /\ Ends(h) = {Head(l), p}
  BY <1>1, <1>2, HeadSegments
<1>5. ASSUME OnLine(Last(l), h) PROVE Last(l) = Head(l)
  <2> DEFINE n == Len(l) - 1
             q == Last(l)
  <2>1. PICK j \in Segments(h) : Between(q, h[j], h[j + 1])
    BY <1>5 DEF OnLine
  <2>2. /\ n \in Segments(l) /\ n \in Nat /\ n + 1 = Len(l) /\ q = l[n + 1]
        /\ l[n] \in Plane /\ l[n + 1] \in Plane /\ l[n] # l[n + 1]
    <3>1. Len(l) \in Nat /\ Len(l) - 1 \in Segments(l) /\ (Len(l) - 1) + 1 = Len(l) /\ Last(l) = l[Len(l)]
      BY LineFacts
    <3> QED BY <3>1, LineFacts, SegmentRange
  <2>3. q \in Plane /\ Between(q, l[n], l[n + 1])
    BY <2>2, BetweenEnds
  <2>4. Between(q, l[j], l[j + 1]) /\ j \in Segments(l)
    BY <1>1, <1>2, <2>1, <2>3, HeadPart, HeadSegments
  <2>5. j \in Nat /\ j <= i /\ i \in Nat /\ i <= n
    BY <1>1, <1>2, <2>2, SegmentRange, HeadSegments
  <2> HIDE DEF n
  <2>6. CASE j < n
    <3>1. \/ n = j + 1 /\ q = l[n]
          \/ q = Head(l)
      BY <2>2, <2>3, <2>4, <2>6 DEF Simple
    <3> QED BY <2>2, <3>1
  <2>7. CASE j = n
    <3>1. i = n
      BY <2>2, <2>5, <2>7
    <3>2. Cuts(l, p) /\ i + 1 = Len(l) /\ Between(Last(l), h[i], h[i + 1])
      BY <2>1, <2>2, <2>7, <3>1
    <3> QED BY <1>1, <1>2, <3>2, HeadMisses
  <2> QED BY <2>2, <2>5, <2>6, <2>7
<1> QED BY <1>3, <1>4, <1>5 DEF h

\* The head stays apart from what the line is apart from.
LEMMA HeadApart ==
  ASSUME NEW l \in Polylines, Simple(l), NEW p, Cuts(l, p), NEW m \in Polylines, Apart(l, m)
  PROVE  Apart(HeadTo(l, p), m)
<1> DEFINE h == HeadTo(l, p)
<1>1. PICK i \in Segments(l) : FirstOn(l, p, i) /\ HeadOf(l, p, i, h)
  BY HeadFacts
<1>2. p \in Plane /\ Between(p, l[i], l[i + 1])
  BY <1>1 DEF Cuts, FirstOn
<1>3. /\ \A q \in Plane : OnLine(q, h) => OnLine(q, l)
      /\ Ends(h) = {Head(l), p}
      /\ OnLine(Last(l), h) => Last(l) = Head(l)
  BY HeadOn
<1> HIDE DEF h
<1>4. ClearLines(h, m)
  <2> SUFFICES ASSUME NEW j \in Segments(h), NEW k \in Segments(m)
               PROVE  Clear(h[j], h[j + 1], m[k], m[k + 1])
    BY DEF ClearLines
  <2>1. j \in Segments(l)
    BY <1>1, <1>2, HeadSegments
  <2>2. Clear(l[j], l[j + 1], m[k], m[k + 1]) /\ m[k] \in Plane /\ m[k + 1] \in Plane
    BY <2>1, LineFacts DEF Apart, ClearLines
  <2> QED BY <1>1, <1>2, <2>2, HeadPart
<1>5. ASSUME NEW q \in Plane, OnLine(q, h), OnLine(q, m) PROVE q \in Ends(h) \cup Ends(m)
  <2>1. q \in Ends(l) \cup Ends(m)
    BY <1>3, <1>5 DEF Apart
  <2>2. q \in Ends(l) => q \in Ends(h)
    BY <1>3, <1>5 DEF Ends
  <2> QED BY <2>1, <2>2
<1>6. Apart(h, m)
  BY <1>4, <1>5 DEF Apart
<1> QED BY <1>6 DEF h

LEMMA ReversedCuts ==
  ASSUME NEW l \in Polylines, NEW p, Cuts(l, p)
  PROVE  Cuts(Reverse(l), p)
  BY Reversed, ReversedPoints DEF Cuts

\* The same of the tail, the head of the line walked back.
LEMMA TailSimple ==
  ASSUME NEW l \in Polylines, Simple(l), NEW p, Cuts(l, p)
  PROVE  TailFrom(l, p) \in Polylines /\ Simple(TailFrom(l, p))
<1>1. Reverse(l) \in Polylines /\ Simple(Reverse(l)) /\ Cuts(Reverse(l), p)
  BY Reversed, ReversedSimple, ReversedCuts
<1>2. HeadTo(Reverse(l), p) \in Polylines /\ Simple(HeadTo(Reverse(l), p))
  BY <1>1, HeadSimple
<1> QED BY <1>2, Reversed, ReversedSimple DEF TailFrom

LEMMA TailOn ==
  ASSUME NEW l \in Polylines, Simple(l), NEW p, Cuts(l, p)
  PROVE  /\ \A q \in Plane : OnLine(q, TailFrom(l, p)) => OnLine(q, l)
         /\ Head(TailFrom(l, p)) = p /\ Last(TailFrom(l, p)) = Last(l)
         /\ Ends(TailFrom(l, p)) = {p, Last(l)}
         /\ OnLine(Head(l), TailFrom(l, p)) => Head(l) = Last(l)
<1> DEFINE r == Reverse(l)
           h == HeadTo(r, p)
<1>1. /\ r \in Polylines /\ Simple(r) /\ Cuts(r, p) /\ Head(r) = Last(l) /\ Last(r) = Head(l)
      /\ \A q \in Plane : OnLine(q, r) <=> OnLine(q, l)
  BY Reversed, ReversedSimple, ReversedCuts, ReversedPoints
<1> HIDE DEF r
<1>2. /\ \A q \in Plane : OnLine(q, h) => OnLine(q, r)
      /\ Head(h) = Head(r) /\ Last(h) = p /\ Ends(h) = {Head(r), p}
      /\ OnLine(Last(r), h) => Last(r) = Head(r)
      /\ h \in Polylines
  BY <1>1, HeadOn, HeadSimple
<1> HIDE DEF h
<1>3. /\ Head(Reverse(h)) = Last(h) /\ Last(Reverse(h)) = Head(h) /\ Ends(Reverse(h)) = Ends(h)
      /\ \A q \in Plane : OnLine(q, Reverse(h)) <=> OnLine(q, h)
  BY <1>2, Reversed, ReversedPoints
<1>4. TailFrom(l, p) = Reverse(h)
  BY DEF TailFrom, h, r
<1>5. Head(l) \in Plane
  BY LineFacts
<1> QED BY <1>1, <1>2, <1>3, <1>4, <1>5

LEMMA TailApart ==
  ASSUME NEW l \in Polylines, Simple(l), NEW p, Cuts(l, p), NEW m \in Polylines, Apart(l, m)
  PROVE  Apart(TailFrom(l, p), m)
<1>1. Reverse(l) \in Polylines /\ Simple(Reverse(l)) /\ Cuts(Reverse(l), p) /\ Apart(Reverse(l), m)
  BY Reversed, ReversedSimple, ReversedCuts, ReversedApart
<1>2. HeadTo(Reverse(l), p) \in Polylines /\ Apart(HeadTo(Reverse(l), p), m)
  BY <1>1, HeadSimple, HeadApart
<1> QED BY <1>2, ReversedApart DEF TailFrom

\* t is l from p on segment i, the last that p is on.
TailOf(l, p, i, t) ==
  /\ i \in Segments(l) /\ Between(p, l[i], l[i + 1])
  /\ \A k \in Segments(t) : \E y \in Segments(l) :
       /\ i <= y
       /\ t[k + 1] = l[y + 1]
       /\ t[k] = IF y = i THEN p ELSE l[y]

\* The tail starts on the last segment that has the point.
LEMMA TailFacts ==
  ASSUME NEW l \in Polylines, NEW p, Cuts(l, p)
  PROVE  \E i \in Segments(l) : TailOf(l, p, i, TailFrom(l, p))
<1> DEFINE r == Reverse(l)
           h == HeadTo(r, p)
           n == Len(l)
<1>1. r \in Polylines /\ Cuts(r, p) /\ n \in Nat
  BY Reversed, ReversedCuts, LineFacts
<1>2. PICK j \in Segments(r) : FirstOn(r, p, j) /\ HeadOf(r, p, j, h)
  <2> HIDE DEF r
  <2> QED BY <1>1, HeadFacts
<1>0. p \in Plane /\ Segments(r) = Segments(l) /\ Len(r) = n
  BY Reversed DEF Cuts, Segments
<1> DEFINE i == n - j
<1>3. i \in Segments(l) /\ i \in Nat /\ r[j] = l[i + 1] /\ r[j + 1] = l[i] /\ j \in Nat
  BY <1>0, ReversedSegment, SegmentRange
<1>4. Between(p, l[i], l[i + 1])
  <2>1. Between(p, r[j], r[j + 1])
    BY <1>2 DEF FirstOn
  <2> QED BY <2>1, <1>0, <1>3, LineFacts, BetweenSwap
<1>5. ASSUME NEW k \in Segments(Reverse(h))
      PROVE  \E y \in Segments(l) : /\ i <= y
                                    /\ Reverse(h)[k + 1] = l[y + 1]
                                    /\ Reverse(h)[k] = IF y = i THEN p ELSE l[y]
  <2>1. h \in Polylines
    BY <1>2 DEF HeadOf
  <2> DEFINE x == Len(h) - k
             y == n - x
  <2>2. k \in Segments(h)
    BY <2>1, Reversed DEF Segments
  <2>3. x \in Segments(h) /\ Reverse(h)[k] = h[x + 1] /\ Reverse(h)[k + 1] = h[x]
    <3> HIDE DEF h
    <3> QED BY <2>1, <2>2, ReversedSegment
  <2> HIDE DEF x, h, r
  <2>4. /\ x \in Segments(r) /\ h[x] = r[x] /\ x \in Nat /\ x <= j
        /\ (x < j => h[x + 1] = r[x + 1]) /\ h[j + 1] = p
    BY <1>0, <1>1, <1>2, <2>3, HeadSegments
  <2>5. y \in Segments(l) /\ r[x] = l[y + 1] /\ r[x + 1] = l[y]
    BY <1>0, <2>4, ReversedSegment DEF r
  <2>6. i <= y /\ (y = i <=> x = j)
    BY <1>1, <1>3, <2>4
  <2>7. h[x + 1] = IF y = i THEN p ELSE l[y]
    BY <2>4, <2>5, <2>6, <1>3
  <2> QED BY <2>3, <2>4, <2>5, <2>6, <2>7
<1>6. TailFrom(l, p) = Reverse(h)
  BY DEF TailFrom
<1> HIDE DEF i, h, r
<1>7. TailOf(l, p, i, Reverse(h))
  BY <1>3, <1>4, <1>5 DEF TailOf
<1> QED BY <1>3, <1>6, <1>7

LEMMA TailPart ==
  ASSUME NEW l \in Polylines, NEW p \in Plane, NEW i, NEW t, TailOf(l, p, i, t),
         NEW k \in Segments(t), NEW y \in Segments(l), t[k + 1] = l[y + 1],
         t[k] = IF y = i THEN p ELSE l[y]
  PROVE  /\ \A q \in Plane : Between(q, t[k], t[k + 1]) => Between(q, l[y], l[y + 1])
         /\ \A c, d \in Plane : Clear(l[y], l[y + 1], c, d) => Clear(t[k], t[k + 1], c, d)
<1>1. l[y] \in Plane /\ l[y + 1] \in Plane
  BY LineFacts
<1>2. CASE y = i
  <2>1. Between(p, l[y], l[y + 1]) /\ t[k] = p
    BY <1>2 DEF TailOf
  <2>2. ASSUME NEW q \in Plane, Between(q, p, l[y + 1]) PROVE Between(q, l[y], l[y + 1])
    <3>1. Between(p, l[y + 1], l[y]) /\ Between(q, l[y + 1], p)
      BY <1>1, <2>1, <2>2, BetweenSwap
    <3>2. Between(q, l[y + 1], l[y])
      BY <1>1, <3>1, BetweenPart
    <3> QED BY <1>1, <3>2, BetweenSwap
  <2> QED BY <1>1, <2>1, <2>2, ClearPart
<1>3. CASE y # i
  BY <1>3
<1> QED BY <1>2, <1>3

\* The two parts of a line meet where it was cut.
LEMMA PartsApart ==
  ASSUME NEW l \in Polylines, Simple(l), NEW p, Cuts(l, p)
  PROVE  Apart(HeadTo(l, p), TailFrom(l, p))
<1> DEFINE h == HeadTo(l, p)
           t == TailFrom(l, p)
<1>1. PICK i \in Segments(l) : FirstOn(l, p, i) /\ HeadOf(l, p, i, h)
  BY HeadFacts
<1>2. PICK m \in Segments(l) : TailOf(l, p, m, t)
  BY TailFacts
<1>3. Ends(h) = {Head(l), p} /\ Ends(t) = {p, Last(l)} /\ h \in Polylines /\ t \in Polylines
  BY HeadOn, TailOn, HeadSimple, TailSimple
<1> HIDE DEF h, t
<1>4. /\ p \in Plane /\ Between(p, l[i], l[i + 1]) /\ Between(p, l[m], l[m + 1])
      /\ p # Head(l)
  BY <1>1, <1>2 DEF FirstOn, TailOf, Cuts, Ends
<1>5. i \in Nat /\ m \in Nat /\ i <= m
  <2>1. i \in Nat /\ m \in Nat
    BY SegmentRange
  <2>2. ~ (m < i)
    BY <1>1, <1>4 DEF FirstOn
  <2> QED BY <2>1, <2>2
<1>6. ASSUME NEW j \in Segments(h), NEW k \in Segments(t)
      PROVE  /\ Clear(h[j], h[j + 1], t[k], t[k + 1])
             /\ \A q \in Plane : Between(q, h[j], h[j + 1]) /\ Between(q, t[k], t[k + 1]) =>
                  q \in {Head(l), p}
  <2>1. PICK y \in Segments(l) : /\ m <= y /\ t[k + 1] = l[y + 1]
                                 /\ t[k] = IF y = m THEN p ELSE l[y]
    BY <1>2 DEF TailOf
  <2>2. j \in Segments(l) /\ j \in Nat /\ y \in Nat /\ j <= i /\ h[j] = l[j] /\ h[i + 1] = p
    BY <1>1, <1>4, <2>1, HeadSegments, SegmentRange
  <2>3. /\ l[j] \in Plane /\ l[j + 1] \in Plane /\ l[y] \in Plane /\ l[y + 1] \in Plane
        /\ h[j] \in Plane /\ h[j + 1] \in Plane /\ t[k] \in Plane /\ t[k + 1] \in Plane
    BY <1>3, <2>1, <2>2, LineFacts
  <2>4. CASE j = y
    <3>1. i = y /\ m = y
      BY <1>5, <2>1, <2>2, <2>4
    <3>2. h[j] = l[y] /\ h[j + 1] = p /\ t[k] = p /\ t[k + 1] = l[y + 1] /\ Between(p, l[y], l[y + 1])
      BY <1>4, <2>1, <2>2, <2>4, <3>1
    <3>3. Clear(l[y], p, p, l[y + 1])
      BY <1>4, <2>3, <3>2, ClearPieces
    <3>4. \A q \in Plane : Between(q, l[y], p) /\ Between(q, p, l[y + 1]) => q = p
      BY <1>4, <2>3, <3>2, BetweenParts
    <3> QED BY <3>2, <3>3, <3>4
  <2>5. CASE j < y
    <3>1. /\ Clear(l[j], l[j + 1], l[y], l[y + 1])
          /\ \A q \in Plane : Between(q, l[j], l[j + 1]) /\ Between(q, l[y], l[y + 1]) =>
               (y = j + 1 /\ q = l[y]) \/ q = Head(l)
      BY <2>2, <2>5 DEF Simple
    <3>2. Clear(h[j], h[j + 1], l[y], l[y + 1])
      BY <1>1, <1>4, <2>3, <3>1, HeadPart
    <3>3. Clear(l[y], l[y + 1], h[j], h[j + 1])
      BY <2>3, <3>2, ClearSwap
    <3>4. Clear(t[k], t[k + 1], h[j], h[j + 1])
      BY <1>2, <1>4, <2>1, <2>3, <3>3, TailPart
    <3>5. Clear(h[j], h[j + 1], t[k], t[k + 1])
      BY <2>3, <3>4, ClearSwap
    <3>6. ASSUME NEW q \in Plane, Between(q, h[j], h[j + 1]), Between(q, t[k], t[k + 1]), q # Head(l)
          PROVE  q = p
      <4>1. Between(q, l[j], l[j + 1])
        BY <1>1, <1>4, <3>6, HeadPart
      <4>2. Between(q, l[y], l[y + 1])
        BY <1>2, <1>4, <2>1, <3>6, TailPart
      <4>3. y = j + 1 /\ q = l[y]
        BY <3>1, <3>6, <4>1, <4>2
      <4>4. (i = j /\ m = y) \/ i # j \/ m # y
        OBVIOUS
      <4>5. i = j \/ m = y
        BY <1>5, <2>1, <2>2, <4>3
      <4>6. CASE i = j /\ m = y
        BY <1>4, <3>1, <4>3, <4>6
      <4>7. CASE i = j /\ m # y
        <5>1. i = j /\ m = j /\ h[j] = l[j] /\ h[j + 1] = p
          BY <1>5, <2>1, <2>2, <4>3, <4>7
        <5>2. Between(q, l[j], p) /\ Between(p, l[j], q)
          BY <1>4, <3>6, <4>3, <5>1
        <5>3. Between(q, p, q)
          BY <1>4, BetweenEnds
        <5> QED BY <1>4, <2>3, <5>2, <5>3, BetweenParts
      <4>8. CASE m = y /\ i # j
        <5>1. t[k] = p /\ t[k + 1] = l[y + 1]
          BY <2>1, <4>8
        <5>2. Between(q, l[y + 1], p) /\ Between(p, l[y + 1], q)
          BY <1>4, <2>3, <3>6, <4>3, <4>8, <5>1, BetweenSwap
        <5>3. Between(q, p, q)
          BY <1>4, BetweenEnds
        <5> QED BY <1>4, <2>3, <5>2, <5>3, BetweenParts
      <4> QED BY <4>5, <4>6, <4>7, <4>8
    <3> QED BY <3>5, <3>6
  <2> QED BY <1>5, <2>1, <2>2, <2>4, <2>5
<1>7. ClearLines(h, t)
  BY <1>6 DEF ClearLines
<1>8. \A q \in Plane : OnLine(q, h) /\ OnLine(q, t) => q \in Ends(h) \cup Ends(t)
  BY <1>3, <1>6 DEF OnLine
<1>9. Apart(h, t)
  BY <1>7, <1>8 DEF Apart
<1> QED BY <1>9 DEF h, t

-----------------------------------------------------------------------------
(* Where lines leave to *)

\* A line leaves its first point in some direction, and so does it walked back.
LEMMA DepartureWay ==
  ASSUME NEW l \in Polylines
  PROVE  /\ Departure(l) \in Ways
         /\ Departure(Reverse(l)) = Direction(Last(l), l[Len(l) - 1])
<1>1. l[1] \in Plane /\ l[2] \in Plane /\ l[1] # l[2]
  <2>1. 1 \in Segments(l) /\ 1 + 1 = 2
    BY LineFacts
  <2> QED BY <2>1, LineFacts
<1>2. 1 \in 1..Len(l) /\ 2 \in 1..Len(l) /\ (Len(l) - 1) + 1 = Len(l) /\ (Len(l) - 2) + 1 = Len(l) - 1
  BY LineFacts
<1>3. Reverse(l)[1] = l[Len(l)] /\ Reverse(l)[2] = l[Len(l) - 1]
  BY <1>2, Reversed
<1> QED BY <1>1, <1>3, DirectionWay, LineFacts DEF Departure

\* Lines that start at one point do not start in the same way.
LEMMA ApartDepart ==
  ASSUME NEW l \in Polylines, NEW m \in Polylines, Apart(l, m), Head(l) = Head(m)
  PROVE  ~ SameWay(Departure(l), Departure(m))
<1>1. 1 \in Segments(l) /\ 1 \in Segments(m) /\ Head(l) = l[1] /\ Head(m) = m[1]
  BY LineFacts
<1>2. Clear(l[1], l[2], m[1], m[2])
  <2>1. Clear(l[1], l[1 + 1], m[1], m[1 + 1])
    BY <1>1 DEF Apart, ClearLines
  <2> QED BY <2>1
<1>3. l[1] \in Plane /\ l[2] \in Plane /\ l[1] # l[2] /\ m[2] \in Plane /\ m[1] # m[2]
  <2>1. 1 + 1 = 2
    OBVIOUS
  <2> QED BY <1>1, <2>1, LineFacts
<1> QED BY <1>1, <1>2, <1>3, ClearWays DEF Departure

\* Nor do the two ends of a closed line.
LEMMA ClosedDepart ==
  ASSUME NEW l \in Polylines, Simple(l), Head(l) = Last(l)
  PROVE  ~ SameWay(Departure(l), Departure(Reverse(l)))
<1> DEFINE n == Len(l) - 1
<1>1. /\ 1 \in Segments(l) /\ n \in Segments(l) /\ n \in Nat /\ n >= 1 /\ n + 1 = Len(l)
      /\ Head(l) = l[1] /\ Last(l) = l[n + 1]
  <2>1. Len(l) \in Nat /\ Len(l) >= 2 /\ (Len(l) - 1) + 1 = Len(l)
    BY LineFacts
  <2> QED BY <2>1, LineFacts
<1>2. n # 1
  <2>1. l[1] # l[1 + 1]
    BY <1>1, LineFacts
  <2> QED BY <1>1, <2>1
<1>3. /\ l[1] \in Plane /\ l[2] \in Plane /\ l[1] # l[2]
      /\ l[n] \in Plane /\ l[n + 1] \in Plane /\ l[n] # l[n + 1]
  <2>1. 1 + 1 = 2
    OBVIOUS
  <2> QED BY <1>1, <2>1, LineFacts
<1>4. Departure(Reverse(l)) = Direction(l[1], l[n])
  BY <1>1, DepartureWay
<1> HIDE DEF n
<1>5. Clear(l[1], l[2], l[n], l[n + 1])
  <2>1. Clear(l[1], l[1 + 1], l[n], l[n + 1])
    BY <1>1, <1>2 DEF Simple
  <2> QED BY <2>1
<1>6. Clear(l[1], l[2], l[1], l[n])
  BY <1>1, <1>3, <1>5, ClearSwap
<1> QED BY <1>1, <1>3, <1>4, <1>6, ClearWays DEF Departure

LEMMA SameWaySelf ==
  ASSUME NEW u \in Ways
  PROVE  SameWay(u, u)
<1>1. u[1] \in Int /\ u[2] \in Int
  BY WayParts
<1>2. Det(u, u) = 0
  <2> DEFINE x == u[1]
             y == u[2]
  <2>1. x \in Int /\ y \in Int /\ Det(u, u) = x * y - y * x
    BY <1>1 DEF Det
  <2> HIDE DEF x, y
  <2> QED BY <2>1
<1> QED BY <1>2, ParallelWays DEF SameWay

\* The first part of a line leaves the way the line does.
LEMMA HeadDepart ==
  ASSUME NEW l \in Polylines, NEW p, Cuts(l, p)
  PROVE  SameWay(Departure(l), Departure(HeadTo(l, p)))
<1> DEFINE h == HeadTo(l, p)
<1>1. PICK i \in Segments(l) : FirstOn(l, p, i) /\ HeadOf(l, p, i, h) /\ p # l[i]
  BY HeadFacts
<1> HIDE DEF h
<1>2. p \in Plane /\ Between(p, l[i], l[i + 1]) /\ i \in Nat /\ i >= 1
  BY <1>1, SegmentRange DEF FirstOn, Cuts
<1>3. 1 \in Segments(h) /\ h[1] = l[1] /\ h[i + 1] = p /\ (1 < i => h[1 + 1] = l[1 + 1])
  <2>1. 1 \in Segments(h)
    BY <1>1, <1>2, HeadSegments
  <2> QED BY <1>1, <1>2, <2>1, HeadSegments
<1>4. CASE i = 1
  <2>1. Departure(h) = Direction(l[1], p) /\ Departure(l) = Direction(l[1], l[2])
    BY <1>3, <1>4 DEF Departure
  <2>2. l[1] \in Plane /\ l[2] \in Plane
    <3>1. i + 1 = 2
      BY <1>4
    <3> QED BY <1>4, <3>1, LineFacts
  <2>3. Between(p, l[1], l[2]) /\ p # l[1]
    BY <1>1, <1>2, <1>4
  <2> QED BY <1>2, <2>1, <2>2, <2>3, ShorterWay DEF h
<1>5. CASE i # 1
  <2>1. Departure(h) = Departure(l)
    BY <1>2, <1>3, <1>5 DEF Departure
  <2> QED BY <2>1, DepartureWay, SameWaySelf DEF h
<1> QED BY <1>4, <1>5

-----------------------------------------------------------------------------
(* Lines joined *)

LEMMA JoinedAt ==
  ASSUME NEW l \in Seq(Plane), NEW m \in Seq(Plane), Len(l) >= 2, Len(m) >= 2, Last(l) = m[1],
         Last(l) = l[Len(l)]
  PROVE  /\ Joined(l, m) \in Seq(Plane) /\ Len(Joined(l, m)) = Len(l) + Len(m) - 1
         /\ \A i \in 1..Len(l) : Joined(l, m)[i] = l[i]
         /\ \A i \in 1..Len(m) : Joined(l, m)[Len(l) - 1 + i] = m[i]
<1> DEFINE n == Len(l)
           k == Len(m)
           T == Tail(m)
           J == l \o T
<1>1. n \in Nat /\ k \in Nat /\ m # <<>> /\ n >= 2 /\ k >= 2
  BY LenProperties, EmptySeq
<1>2. T \in Seq(Plane) /\ Len(T) = k - 1 /\ \A i \in 1..Len(T) : T[i] = m[i + 1]
  BY <1>1, HeadTailProperties
<1> HIDE DEF T
<1>3. /\ J \in Seq(Plane) /\ Len(J) = n + (k - 1)
      /\ \A i \in 1..(n + (k - 1)) : J[i] = IF i <= n THEN l[i] ELSE T[i - n]
  <2>1. /\ J \in Seq(Plane) /\ Len(J) = n + Len(T)
        /\ \A i \in 1..(n + Len(T)) : J[i] = IF i <= n THEN l[i] ELSE T[i - n]
    <3>1. T \in Seq(Plane)
      BY <1>2
    <3> QED BY ONLY <3>1, l \in Seq(Plane), ConcatProperties, Zenon
  <2> QED BY <1>2, <2>1
<1> HIDE DEF J
<1>4. \A i \in 1..n : J[i] = l[i]
  <2> SUFFICES ASSUME NEW i \in 1..n PROVE J[i] = l[i]
    OBVIOUS
  <2>1. i \in 1..(n + (k - 1)) /\ i <= n
    BY <1>1
  <2> QED BY <1>3, <2>1
<1>5. \A i \in 1..k : J[n - 1 + i] = m[i]
  <2> SUFFICES ASSUME NEW i \in 1..k PROVE J[n - 1 + i] = m[i]
    OBVIOUS
  <2>1. CASE i = 1
    <3>1. n - 1 + i = n /\ n \in 1..n
      BY <1>1, <2>1
    <3> QED BY <1>4, <2>1, <3>1
  <2>2. CASE i # 1
    <3> DEFINE x == n - 1 + i
    <3>1. x \in 1..(n + (k - 1)) /\ ~ (x <= n) /\ x - n = i - 1 /\ i - 1 \in 1..(k - 1) /\ (i - 1) + 1 = i
      BY <1>1, <2>2
    <3> HIDE DEF x
    <3>2. J[x] = T[i - 1]
      BY <1>3, <3>1
    <3>3. T[i - 1] = m[i]
      BY <1>2, <3>1
    <3> QED BY <3>2, <3>3 DEF x
  <2> QED BY <2>1, <2>2
<1>6. n + (k - 1) = n + k - 1
  BY <1>1
<1> QED BY <1>3, <1>4, <1>5, <1>6 DEF J, T, Joined

LEMMA JoinedFacts ==
  ASSUME NEW l \in Polylines, NEW m \in Polylines, Last(l) = Head(m)
  PROVE  /\ Joined(l, m) \in Polylines
         /\ Len(Joined(l, m)) = Len(l) + Len(m) - 1
         /\ \A i \in 1..Len(l) : Joined(l, m)[i] = l[i]
         /\ \A i \in 1..Len(m) : Joined(l, m)[Len(l) - 1 + i] = m[i]
         /\ Head(Joined(l, m)) = Head(l) /\ Last(Joined(l, m)) = Last(m)
<1> DEFINE n == Len(l)
           k == Len(m)
           J == Joined(l, m)
           N == n + k - 1
<1>1. /\ n \in Nat /\ n >= 2 /\ k \in Nat /\ k >= 2
      /\ l[n] = m[1] /\ Head(l) = l[1] /\ Last(m) = m[k] /\ Last(l) = l[n]
  BY LineFacts
<1>2. l \in Seq(Plane) /\ m \in Seq(Plane)
  BY DEF Polylines
<1>3. J \in Seq(Plane) /\ Len(J) = N
  BY <1>1, <1>2, JoinedAt
<1>4. \A i \in 1..n : J[i] = l[i]
  BY <1>1, <1>2, JoinedAt
<1>5. \A i \in 1..k : J[n - 1 + i] = m[i]
  BY <1>1, <1>2, JoinedAt
<1> HIDE DEF J
<1>6. ASSUME NEW i \in 1..(N - 1) PROVE J[i] # J[i + 1]
  <2>1. CASE i < n
    <3>1. i \in Nat /\ 1 <= i /\ i <= n - 1 /\ i \in 1..n /\ i + 1 \in 1..n
      BY <1>1, <2>1
    <3>2. l[i] # l[i + 1]
      BY <3>1, SegmentRange, LineFacts
    <3> QED BY <1>4, <3>1, <3>2
  <2>2. CASE i >= n
    <3> DEFINE j == i - n + 1
    <3>1. /\ j \in Nat /\ 1 <= j /\ j <= k - 1 /\ j \in 1..k /\ j + 1 \in 1..k
          /\ i = n - 1 + j /\ i + 1 = n - 1 + (j + 1)
      BY <1>1, <2>2
    <3> HIDE DEF j
    <3>2. m[j] # m[j + 1]
      BY <3>1, SegmentRange, LineFacts
    <3> QED BY <1>5, <3>1, <3>2
  <2> QED BY <1>1, <2>1, <2>2
<1>7. N \in Nat /\ N >= 2 /\ 1 \in 1..n /\ k \in 1..k /\ N = n - 1 + k
  BY <1>1
<1> HIDE DEF N
<1>8. J \in [1..N -> Plane]
  BY <1>3, LenProperties
<1>9. J \in Polylines
  BY <1>6, <1>7, <1>8, LineMade
<1>10. Head(J) = J[1] /\ Last(J) = J[N]
  BY <1>3, <1>9, LineFacts
<1>11. J[1] = l[1] /\ J[N] = m[k]
  BY <1>4, <1>5, <1>7
<1> QED BY <1>1, <1>3, <1>4, <1>5, <1>9, <1>10, <1>11 DEF J, N

\* A segment of joined lines is one of the first or of the second.
LEMMA JoinedSegments ==
  ASSUME NEW l \in Polylines, NEW m \in Polylines, Last(l) = Head(m), NEW i \in Segments(Joined(l, m))
  PROVE  \/ /\ i \in Segments(l) /\ i < Len(l)
            /\ Joined(l, m)[i] = l[i] /\ Joined(l, m)[i + 1] = l[i + 1]
         \/ /\ i >= Len(l) /\ i - Len(l) + 1 \in Segments(m)
            /\ Joined(l, m)[i] = m[i - Len(l) + 1] /\ Joined(l, m)[i + 1] = m[i - Len(l) + 1 + 1]
<1> DEFINE n == Len(l)
           k == Len(m)
           J == Joined(l, m)
<1>1. n \in Nat /\ n >= 2 /\ k \in Nat /\ k >= 2
  BY LineFacts
<1>2. /\ J \in Polylines /\ Len(J) = n + k - 1
      /\ \A x \in 1..n : J[x] = l[x]
      /\ \A x \in 1..k : J[n - 1 + x] = m[x]
  BY JoinedFacts
<1> HIDE DEF J
<1>3. i \in Nat /\ 1 <= i /\ i <= n + k - 1 - 1
  BY <1>2, SegmentRange DEF J
<1>4. CASE i < n
  <2>1. i \in Nat /\ 1 <= i /\ i <= n - 1 /\ i \in 1..n /\ i + 1 \in 1..n
    BY <1>1, <1>3, <1>4
  <2>2. i \in Segments(l)
    BY <2>1, SegmentRange
  <2> QED BY <1>2, <1>4, <2>1, <2>2 DEF J
<1>5. CASE i >= n
  <2> DEFINE j == i - n + 1
  <2>1. /\ j \in Nat /\ 1 <= j /\ j <= k - 1 /\ j \in 1..k /\ j + 1 \in 1..k
        /\ i = n - 1 + j /\ i + 1 = n - 1 + (j + 1)
    BY <1>1, <1>3, <1>5
  <2> HIDE DEF j
  <2>2. j \in Segments(m)
    BY <2>1, SegmentRange
  <2>3. J[i] = m[j] /\ J[i + 1] = m[j + 1]
    BY <1>2, <2>1
  <2> QED BY <1>5, <2>2, <2>3 DEF j, J
<1> QED BY <1>1, <1>3, <1>4, <1>5

LEMMA JoinedOn ==
  ASSUME NEW l \in Polylines, NEW m \in Polylines, Last(l) = Head(m), NEW q \in Plane
  PROVE  OnLine(q, Joined(l, m)) => OnLine(q, l) \/ OnLine(q, m)
  BY JoinedSegments DEF OnLine

\* Joined lines stay apart from what does not touch the point they meet in.
LEMMA JoinedApart ==
  ASSUME NEW l \in Polylines, NEW m \in Polylines, Last(l) = Head(m), NEW x \in Polylines,
         Apart(l, x), Apart(m, x), ~ OnLine(Last(l), x)
  PROVE  Apart(Joined(l, m), x)
<1> DEFINE J == Joined(l, m)
<1>1. J \in Polylines /\ Head(J) = Head(l) /\ Last(J) = Last(m)
  BY JoinedFacts
<1>2. ClearLines(J, x)
  BY JoinedSegments DEF Apart, ClearLines
<1>3. ASSUME NEW q \in Plane, OnLine(q, J), OnLine(q, x) PROVE q \in Ends(J) \cup Ends(x)
  <2>1. q \in Ends(l) \cup Ends(x) \/ q \in Ends(m) \cup Ends(x)
    BY <1>3, JoinedOn DEF Apart
  <2>2. q # Last(l) /\ q # Head(m)
    BY <1>3
  <2> HIDE DEF J
  <2> QED BY <1>1, <2>1, <2>2 DEF Ends
<1> QED BY <1>2, <1>3 DEF Apart

\* An open simple line has its ends on its first and last segment only.
LEMMA EndOnSegment ==
  ASSUME NEW l \in Polylines, Simple(l), Head(l) # Last(l), NEW i \in Segments(l)
  PROVE  /\ Between(Head(l), l[i], l[i + 1]) => i = 1
         /\ Between(Last(l), l[i], l[i + 1]) => i = Len(l) - 1
<1> DEFINE n == Len(l) - 1
<1>1. /\ 1 \in Segments(l) /\ n \in Segments(l) /\ n \in Nat /\ n >= 1 /\ n + 1 = Len(l)
      /\ Head(l) = l[1] /\ Last(l) = l[n + 1]
  <2>1. Len(l) \in Nat /\ Len(l) >= 2 /\ (Len(l) - 1) + 1 = Len(l)
    BY LineFacts
  <2> QED BY <2>1, LineFacts
<1>2. /\ l[1] \in Plane /\ l[1 + 1] \in Plane /\ l[n] \in Plane /\ l[n + 1] \in Plane
      /\ l[n] # l[n + 1]
  BY <1>1, LineFacts
<1>3. Between(l[1], l[1], l[1 + 1]) /\ Between(l[n + 1], l[n], l[n + 1])
  BY <1>2, BetweenEnds
<1>4. i \in Nat /\ 1 <= i /\ i <= n
  BY SegmentRange
<1> HIDE DEF n
<1>5. ASSUME Between(Head(l), l[i], l[i + 1]) PROVE i = 1
  <2> SUFFICES ASSUME 1 < i PROVE FALSE
    BY <1>4
  <2>1. (i = 1 + 1 /\ l[1] = l[i]) \/ Head(l) = Last(l)
    BY <1>1, <1>2, <1>3, <1>5 DEF Simple
  <2>2. l[1] # l[1 + 1]
    BY <1>1, LineFacts
  <2> QED BY <2>1, <2>2
<1>6. ASSUME Between(Last(l), l[i], l[i + 1]) PROVE i = n
  <2> SUFFICES ASSUME i < n PROVE FALSE
    BY <1>1, <1>4
  <2>1. (n = i + 1 /\ l[n + 1] = l[n]) \/ Head(l) = Last(l)
    BY <1>1, <1>2, <1>3, <1>6 DEF Simple
  <2> QED BY <1>2, <2>1
<1> QED BY <1>5, <1>6 DEF n

\* Simple lines that meet in ends make a simple line.
LEMMA JoinedSimple ==
  ASSUME NEW l \in Polylines, NEW m \in Polylines, Last(l) = Head(m), Simple(l), Simple(m), Apart(l, m),
         Head(l) # Last(l), Head(m) # Last(m),
         OnLine(Head(l), m) => Head(l) \in Ends(m), OnLine(Last(m), l) => Last(m) \in Ends(l)
  PROVE  Simple(Joined(l, m))
<1> DEFINE J == Joined(l, m)
           n == Len(l)
<1>1. /\ J \in Polylines /\ Head(J) = Head(l) /\ Last(J) = Last(m)
      /\ Len(J) = n + Len(m) - 1 /\ J[n] = l[n]
      /\ n \in Nat /\ Len(m) \in Nat /\ n >= 2
  BY JoinedFacts, LineFacts
<1>2. /\ \A i \in Segments(J) : i \in Nat
      /\ \A i \in Segments(J) :
          \/ i \in Segments(l) /\ i < n /\ J[i] = l[i] /\ J[i + 1] = l[i + 1]
          \/ /\ i >= n /\ i - n + 1 \in Segments(m)
             /\ J[i] = m[i - n + 1] /\ J[i + 1] = m[i - n + 1 + 1]
  BY <1>1, JoinedSegments, SegmentRange
<1>3. /\ Head(l) = l[1] /\ Last(l) = l[n] /\ Head(m) = m[1] /\ Last(m) = m[Len(m)]
      /\ Head(l) \in Plane /\ Last(m) \in Plane
      /\ Ends(l) = {Head(l), Last(l)} /\ Ends(m) = {Head(m), Last(m)}
  BY LineFacts DEF Ends
<1> HIDE DEF J, n
<1> SUFFICES ASSUME NEW i \in Segments(J), NEW j \in Segments(J), i < j
             PROVE  /\ Clear(J[i], J[i + 1], J[j], J[j + 1])
                    /\ \A p \in Plane : Between(p, J[i], J[i + 1]) /\ Between(p, J[j], J[j + 1]) =>
                         \/ j = i + 1 /\ p = J[j]
                         \/ i = 1 /\ j = Len(J) - 1 /\ p = Head(J) /\ Head(J) = Last(J)
  BY DEF Simple, J
<1>4. i \in Nat /\ j \in Nat
  BY <1>2
<1>5. CASE j < n
  <2>1. /\ i \in Segments(l) /\ J[i] = l[i] /\ J[i + 1] = l[i + 1]
        /\ j \in Segments(l) /\ J[j] = l[j] /\ J[j + 1] = l[j + 1]
    BY <1>1, <1>2, <1>4, <1>5
  <2> QED BY <2>1 DEF Simple
<1>6. CASE i >= n
  <2> DEFINE x == i - n + 1
             y == j - n + 1
  <2>1. /\ x \in Segments(m) /\ J[i] = m[x] /\ J[i + 1] = m[x + 1]
        /\ y \in Segments(m) /\ J[j] = m[y] /\ J[j + 1] = m[y + 1]
    BY <1>1, <1>2, <1>4, <1>6
  <2>2. x < y /\ (y = x + 1 => j = i + 1)
    BY <1>1, <1>4
  <2> HIDE DEF x, y
  <2> QED BY <2>1, <2>2 DEF Simple
<1>7. CASE i < n /\ j >= n
  <2> DEFINE y == j - n + 1
  <2>1. /\ i \in Segments(l) /\ J[i] = l[i] /\ J[i + 1] = l[i + 1]
        /\ y \in Segments(m) /\ J[j] = m[y] /\ J[j + 1] = m[y + 1]
    BY <1>1, <1>2, <1>4, <1>7
  <2>2. (i = n - 1 /\ y = 1 => j = i + 1 /\ j = n) /\ (y = Len(m) - 1 => j = Len(J) - 1)
    BY <1>1, <1>4
  <2> HIDE DEF y
  <2>3. Clear(J[i], J[i + 1], J[j], J[j + 1])
    BY <2>1 DEF Apart, ClearLines
  <2>4. ASSUME NEW p \in Plane, Between(p, J[i], J[i + 1]), Between(p, J[j], J[j + 1])
        PROVE  \/ j = i + 1 /\ p = J[j]
               \/ i = 1 /\ j = Len(J) - 1 /\ p = Head(J) /\ Head(J) = Last(J)
    <3>1. OnLine(p, l) /\ OnLine(p, m)
      BY <2>1, <2>4 DEF OnLine
    <3>2. p \in Ends(l) \cup Ends(m)
      BY <3>1 DEF Apart
    <3>3. CASE p = Last(l)
      <4>1. i = n - 1 /\ y = 1
        BY <2>1, <2>4, <3>3, EndOnSegment DEF n
      <4> QED BY <1>1, <1>3, <2>2, <3>3, <4>1
    <3>4. CASE p # Last(l)
      <4>1. p = Head(l) /\ p = Last(m)
        BY <1>3, <3>1, <3>2, <3>4
      <4>2. i = 1 /\ y = Len(m) - 1
        BY <2>1, <2>4, <4>1, EndOnSegment
      <4> QED BY <1>1, <2>2, <4>1, <4>2
    <3> QED BY <3>3, <3>4
  <2> QED BY <2>3, <2>4
<1> QED BY <1>1, <1>4, <1>5, <1>6, <1>7

\* The ends of joined lines leave as before.
LEMMA JoinedDepart ==
  ASSUME NEW l \in Polylines, NEW m \in Polylines, Last(l) = Head(m)
  PROVE  /\ Departure(Joined(l, m)) = Departure(l)
         /\ Departure(Reverse(Joined(l, m))) = Departure(Reverse(m))
<1> DEFINE n == Len(l)
           k == Len(m)
           J == Joined(l, m)
<1>1. n \in Nat /\ n >= 2 /\ k \in Nat /\ k >= 2
  BY LineFacts
<1>2. /\ J \in Polylines /\ Len(J) = n + k - 1
      /\ \A x \in 1..n : J[x] = l[x]
      /\ \A x \in 1..k : J[n - 1 + x] = m[x]
      /\ Last(J) = Last(m)
  BY JoinedFacts
<1> HIDE DEF J
<1>3. J[1] = l[1] /\ J[2] = l[2]
  BY <1>1, <1>2
<1>4. J[Len(J) - 1] = m[k - 1]
  <2>1. k - 1 \in 1..k /\ Len(J) - 1 = n - 1 + (k - 1)
    BY <1>1, <1>2
  <2> QED BY <1>2, <2>1
<1>5. /\ Departure(Reverse(J)) = Direction(Last(J), J[Len(J) - 1])
      /\ Departure(Reverse(m)) = Direction(Last(m), m[k - 1])
  BY <1>2, DepartureWay
<1> QED BY <1>2, <1>3, <1>4, <1>5 DEF Departure, J

=============================================================================
