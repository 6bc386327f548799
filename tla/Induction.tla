----------------------------- MODULE Induction -----------------------------
(***************************************************************************)
(* Induction over the natural numbers, and functions defined by recursion  *)
(* on them, with sets and functions where NaturalsInduction has operators: *)
(* what is to hold of every number is the set of numbers it holds of.      *)
(***************************************************************************)
EXTENDS Integers, WellFoundedInduction, TLAPS

\* A set of natural numbers that is not empty has a least element.
LEMMA LeastNumber ==
    ASSUME NEW S \in SUBSET Nat, S # {}
    PROVE  \E n \in S : \A m \in S : n <= m
<1>1. \E n \in S : \A m \in S : ~ (<<m, n>> \in OpToRel(<, Nat))
  BY NatLessThanWellFounded, WFMin
<1>2. PICK n \in S : \A m \in S : ~ (<<m, n>> \in OpToRel(<, Nat))
  BY <1>1
<1>3. \A m \in S : ~ (m < n)
  BY <1>2 DEF OpToRel
<1> QED BY <1>3

LEMMA StrongInduction ==
    ASSUME NEW S, \A n \in Nat : (\A m \in 0 .. n - 1 : m \in S) => n \in S
    PROVE  \A n \in Nat : n \in S
<1> SUFFICES ASSUME Nat \ S # {} PROVE FALSE
  OBVIOUS
<1>1. PICK n \in Nat \ S : \A m \in Nat \ S : n <= m
  BY LeastNumber
<1>2. \A m \in 0 .. n - 1 : m \in S
  BY <1>1
<1> QED BY <1>1, <1>2

LEMMA NumberInduction ==
    ASSUME NEW S, 0 \in S, \A n \in Nat : n \in S => n + 1 \in S
    PROVE  \A n \in Nat : n \in S
<1> SUFFICES ASSUME NEW n \in Nat, \A m \in 0 .. n - 1 : m \in S PROVE n \in S
  BY StrongInduction
<1>1. CASE n = 0
  BY <1>1
<1>2. CASE n # 0
  <2>1. n - 1 \in Nat /\ n - 1 \in 0 .. n - 1 /\ (n - 1) + 1 = n
    BY <1>2
  <2>2. n - 1 \in S
    BY <2>1
  <2>3. (n - 1) + 1 \in S
    BY <2>1, <2>2
  <2> QED BY <2>1, <2>3
<1> QED BY <1>1, <1>2

-----------------------------------------------------------------------------
(***************************************************************************)
(* A first value a and a step G, which is told how far the recursion is.   *)
(***************************************************************************)
Follows(f, n, a, G) ==
    f = [i \in 0 .. n |-> IF i = 0 THEN a ELSE G[<<i, f[i - 1]>>]]

LEMMA FollowsAt ==
    ASSUME NEW f, NEW n \in Nat, NEW a, NEW G, Follows(f, n, a, G)
    PROVE  f[0] = a /\ \A i \in 1 .. n : f[i] = G[<<i, f[i - 1]>>]
BY DEF Follows

LEMMA FollowsUnique ==
    ASSUME NEW a, NEW G, NEW n \in Nat, NEW m \in Nat,
           NEW f, Follows(f, n, a, G), NEW g, Follows(g, m, a, G)
    PROVE  \A i \in Nat : i <= n /\ i <= m => f[i] = g[i]
<1> DEFINE S == {i \in Nat : i <= n /\ i <= m => f[i] = g[i]}
<1>1. 0 \in S
  BY FollowsAt
<1>2. ASSUME NEW i \in Nat, i \in S PROVE i + 1 \in S
  <2> SUFFICES ASSUME i + 1 <= n, i + 1 <= m PROVE f[i + 1] = g[i + 1]
    OBVIOUS
  <2>1. f[i] = g[i] /\ i + 1 \in 1 .. n /\ i + 1 \in 1 .. m /\ (i + 1) - 1 = i
    BY <1>2
  <2>2. f[i + 1] = G[<<i + 1, f[(i + 1) - 1]>>] /\ g[i + 1] = G[<<i + 1, g[(i + 1) - 1]>>]
    BY <2>1, FollowsAt
  <2> QED BY <2>1, <2>2
<1> HIDE DEF S
<1>3. \A i \in Nat : i \in S
  BY <1>1, <1>2, NumberInduction
<1> QED BY <1>3 DEF S

LEMMA FollowsExists ==
    ASSUME NEW T, NEW a \in T, NEW G \in [Nat \X T -> T]
    PROVE  \A n \in Nat : \E f \in [0 .. n -> T] : Follows(f, n, a, G)
<1> DEFINE S == {n \in Nat : \E f \in [0 .. n -> T] : Follows(f, n, a, G)}
<1>1. 0 \in S
  <2> DEFINE f == [i \in 0 .. 0 |-> a]
  <2>1. f \in [0 .. 0 -> T] /\ Follows(f, 0, a, G)
    BY DEF Follows
  <2> QED BY <2>1
<1>2. ASSUME NEW n \in Nat, n \in S PROVE n + 1 \in S
  <2>1. PICK f \in [0 .. n -> T] : Follows(f, n, a, G)
    BY <1>2
  <2> DEFINE g == [i \in 0 .. n + 1 |-> IF i <= n THEN f[i] ELSE G[<<n + 1, f[n]>>]]
  <2>2. f[n] \in T /\ <<n + 1, f[n]>> \in Nat \X T
    OBVIOUS
  <2>3. G[<<n + 1, f[n]>>] \in T
    BY <2>2
  <2>4. g \in [0 .. n + 1 -> T]
    BY <2>3
  <2>5. \A i \in 0 .. n + 1 : g[i] = IF i = 0 THEN a ELSE G[<<i, g[i - 1]>>]
    <3> SUFFICES ASSUME NEW i \in 0 .. n + 1
                 PROVE  g[i] = IF i = 0 THEN a ELSE G[<<i, g[i - 1]>>]
      OBVIOUS
    <3>1. f[0] = a /\ \A j \in 1 .. n : f[j] = G[<<j, f[j - 1]>>]
      BY <2>1, FollowsAt
    <3>2. CASE i = 0
      BY <3>1, <3>2
    <3>3. CASE i \in 1 .. n
      <4>1. g[i] = f[i] /\ g[i - 1] = f[i - 1] /\ i # 0
        BY <3>3
      <4> QED BY <4>1, <3>1, <3>3
    <3>4. CASE i = n + 1
      <4>1. g[i] = G[<<n + 1, f[n]>>] /\ g[i - 1] = f[n] /\ i # 0
        BY <3>4
      <4> QED BY <4>1, <3>4
    <3> QED BY <3>2, <3>3, <3>4
  <2>6. Follows(g, n + 1, a, G)
    <3> HIDE DEF g
    <3>1. DOMAIN g = 0 .. n + 1 /\ g = [i \in 0 .. n + 1 |-> g[i]]
      BY <2>4
    <3> QED BY <2>5, <3>1 DEF Follows
  <2> QED BY <2>4, <2>6
<1> HIDE DEF S
<1>3. \A n \in Nat : n \in S
  BY <1>1, <1>2, NumberInduction
<1> QED BY <1>3 DEF S

Recursive(f, T, a, G) ==
    /\ f \in [Nat -> T]
    /\ f[0] = a
    /\ \A n \in Nat : f[n + 1] = G[<<n + 1, f[n]>>]

\* So that a function defined by recursion on the natural numbers exists.
LEMMA RecursionExists ==
    ASSUME NEW T, NEW a \in T, NEW G \in [Nat \X T -> T]
    PROVE  \E f : Recursive(f, T, a, G)
<1> DEFINE part(n) == CHOOSE g : g \in [0 .. n -> T] /\ Follows(g, n, a, G)
           f == [n \in Nat |-> part(n)[n]]
<1>1. \A n \in Nat : part(n) \in [0 .. n -> T] /\ Follows(part(n), n, a, G)
  BY FollowsExists
<1>2. f \in [Nat -> T]
  BY <1>1
<1>3. f[0] = a
  <2>1. f[0] = part(0)[0] /\ Follows(part(0), 0, a, G)
    BY <1>1
  <2> HIDE DEF part
  <2> QED BY <2>1, FollowsAt
<1>4. ASSUME NEW n \in Nat PROVE f[n + 1] = G[<<n + 1, f[n]>>]
  <2> HIDE DEF part
  <2>1. /\ n + 1 \in Nat
        /\ Follows(part(n), n, a, G) /\ Follows(part(n + 1), n + 1, a, G)
        /\ f[n] = part(n)[n] /\ f[n + 1] = part(n + 1)[n + 1]
    BY <1>1
  <2> HIDE DEF f
  <2>2. part(n + 1)[n] = part(n)[n]
    BY <2>1, FollowsUnique
  <2>3. part(n + 1)[n + 1] = G[<<n + 1, part(n + 1)[(n + 1) - 1]>>]
    BY <2>1, FollowsAt
  <2> QED BY <2>1, <2>2, <2>3
<1> HIDE DEF f
<1> QED BY <1>2, <1>3, <1>4 DEF Recursive

=============================================================================
