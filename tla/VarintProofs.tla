---------------------------- MODULE VarintProofs ----------------------------
(***************************************************************************)
(* Numbers of variable length, for every number and wherever in a stream   *)
(* they stand: they are read as they were written, the reader goes on      *)
(* where they end, and one that is cut off is not taken for another.       *)
(***************************************************************************)
EXTENDS Varint, Induction, SequenceTheorems

\* What fits a word is not changed by one.
LEMMA NotWrapped == \A n \in Unsigned : n % Word = n
BY HalfAssumption DEF Word, Unsigned

\* But the first number that does not fit becomes zero.
LEMMA WordWraps == Word % Word = 0
BY HalfAssumption DEF Word

\* Zigzagged int64_t are uint64_t, which is what the encoder takes.
LEMMA ZigzagType == \A v \in Signed : Zigzag(v) \in Unsigned
BY HalfAssumption, SMT DEF Zigzag, Signed, Unsigned, Word

\* What the reader makes of a number that was written: the least int64_t is taken for 0,
\* since its zigzag is the largest uint64_t and one more than that is none.
Back(v) == IF v = - Half THEN 0 ELSE v

\* unzigzag64 gives back what zigzag64 was given, for every int64_t but the least.
THEOREM ZigzagInverse == \A v \in Signed : Unzigzag(Zigzag(v)) = Back(v)
<1>1. Half \in Nat /\ Half > 0
  BY HalfAssumption
<1>2. ASSUME NEW v \in Signed, v >= 0 PROVE Unzigzag(Zigzag(v)) = Back(v)
  BY <1>1, <1>2, SMT DEF Zigzag, Unzigzag, Back, Signed
<1>3. ASSUME NEW v \in Signed, v < 0, v # - Half PROVE Unzigzag(Zigzag(v)) = Back(v)
  <2>1. PICK n \in Unsigned : n = Zigzag(v) /\ n + 1 = - 2 * v /\ n % 2 # 0 /\ n + 1 \in Unsigned
    BY <1>1, <1>3, SMT DEF Zigzag, Signed, Unsigned, Word
  <2>2. (n + 1) % Word = n + 1
    BY <2>1, NotWrapped
  <2>3. Unzigzag(n) = - ((n + 1) \div 2)
    BY <2>1, <2>2 DEF Unzigzag
  <2>4. (n + 1) \div 2 = - v
    BY <2>1, SMT DEF Signed
  <2> QED BY <1>1, <1>3, <2>1, <2>3, <2>4 DEF Back, Signed
<1>4. ASSUME NEW v \in Signed, v = - Half PROVE Unzigzag(Zigzag(v)) = Back(v)
  <2>1. PICK n \in Unsigned : n = Zigzag(v) /\ n + 1 = Word /\ n % 2 # 0
    BY <1>1, <1>4, SMT DEF Zigzag, Signed, Unsigned, Word
  <2>2. (n + 1) % Word = 0
    BY <2>1, WordWraps
  <2>3. Unzigzag(n) = - (0 \div 2)
    BY <2>1, <2>2 DEF Unzigzag
  <2> QED BY <1>4, <2>1, <2>3 DEF Back
<1> QED BY <1>1, <1>2, <1>3, <1>4 DEF Signed

\* And no two numbers are written alike.
COROLLARY ZigzagInjective == \A v, w \in Int : Zigzag(v) = Zigzag(w) => v = w
BY SMT DEF Zigzag

-----------------------------------------------------------------------------
(***************************************************************************)
(* The bytes of a number.                                                  *)
(***************************************************************************)
\* Bytes that write a number: all but the last have the highest bit.
Bytes == 0 .. 2 * Base - 1

Shaped(e) ==
    /\ e \in Seq(Bytes) /\ Len(e) >= 1
    /\ \A i \in 1 .. Len(e) - 1 : e[i] >= Base
    /\ e[Len(e)] < Base

\* What the encoder does with a number, given what it does with the digits above.
Encoding(n, above) == IF n < Base THEN <<n>> ELSE <<Base + (n % Base)>> \o above

LEMMA Quotient ==
    ASSUME NEW n \in Nat, n >= Base
    PROVE  /\ n \div Base \in Nat /\ n \div Base < n
           /\ n % Base \in 0 .. Base - 1
           /\ n = Base * (n \div Base) + (n % Base)
<1>1. Base \in Nat /\ Base > 1
  BY BaseAssumption
<1>2. n \div Base \in Int /\ n % Base \in 0 .. Base - 1 /\ n = Base * (n \div Base) + (n % Base)
  BY <1>1
<1>3. PICK q \in Int, r \in 0 .. Base - 1 : q = n \div Base /\ r = n % Base /\ n = Base * q + r
  BY <1>2
<1>4. q >= 0
  <2>1. CASE q <= -1
    <3>1. Base * q <= Base * (-1)
      BY <1>1, <2>1
    <3> QED BY <1>1, <1>3, <3>1
  <2> QED BY <2>1, <1>3
<1>5. q < n
  <2>1. Base * q >= 2 * q
    BY <1>1, <1>4
  <2>2. CASE q = 0
    BY <1>1, <2>2
  <2>3. CASE q > 0
    BY <1>1, <1>3, <2>1, <2>3
  <2> QED BY <1>4, <2>2, <2>3, <1>3
<1> QED BY <1>2, <1>3, <1>4, <1>5

\* The recursion of the encoder ends, so that it is a function.
LEMMA EncodeUEquation ==
    \A n \in Nat : EncodeU[n] = Encoding(n, EncodeU[n \div Base])
<1> DEFINE T == [Nat -> Seq(Nat)]
           more == [x \in Nat \X T |->
                      [n \in Nat |-> Encoding(n, x[2][n \div Base])]]
           none == [n \in Nat |-> <<>>]
<1>1. none \in T
  OBVIOUS
<1>2. more \in [Nat \X T -> T]
  <2> SUFFICES ASSUME NEW k \in Nat, NEW h \in T, NEW n \in Nat
               PROVE  Encoding(n, h[n \div Base]) \in Seq(Nat)
    OBVIOUS
  <2>1. CASE n < Base
    BY <2>1 DEF Encoding
  <2>2. CASE ~ (n < Base)
    <3>1. n \div Base \in Nat /\ Base + (n % Base) \in Nat
      BY <2>2, Quotient, BaseAssumption
    <3>2. h[n \div Base] \in Seq(Nat) /\ <<Base + (n % Base)>> \in Seq(Nat)
      BY <3>1
    <3> QED BY <2>2, <3>2 DEF Encoding
  <2> QED BY <2>1, <2>2
<1> HIDE DEF T, more, none
<1>3. PICK f : Recursive(f, T, none, more)
  BY <1>1, <1>2, RecursionExists
<1> USE <1>3 DEF Recursive
<1>4. \A k, n \in Nat : f[k + 1][n] = Encoding(n, f[k][n \div Base])
  <2> SUFFICES ASSUME NEW k \in Nat, NEW n \in Nat
               PROVE  f[k + 1][n] = Encoding(n, f[k][n \div Base])
    OBVIOUS
  <2>1. f[k] \in T /\ k + 1 \in Nat /\ <<k + 1, f[k]>> \in Nat \X T
    OBVIOUS
  <2>2. f[k + 1] = [m \in Nat |-> Encoding(m, f[k][m \div Base])]
    BY <1>3, <2>1 DEF more
  <2> QED BY <2>2
<1> DEFINE S == {n \in Nat : \A k \in Nat : k > n => f[k][n] = f[n + 1][n]}
<1>5. \A n \in Nat : n \in S
  <2> SUFFICES ASSUME NEW n \in Nat, \A m \in 0 .. n - 1 : m \in S PROVE n \in S
    BY StrongInduction
  <2> SUFFICES ASSUME NEW k \in Nat, k > n PROVE f[k][n] = f[n + 1][n]
    OBVIOUS
  <2>0. k - 1 \in Nat /\ k = (k - 1) + 1
    OBVIOUS
  <2>1. f[k][n] = Encoding(n, f[k - 1][n \div Base])
    BY <1>4, <2>0
  <2>2. f[n + 1][n] = Encoding(n, f[n][n \div Base])
    BY <1>4
  <2>3. CASE n < Base
    BY <2>1, <2>2, <2>3 DEF Encoding
  <2>4. CASE ~ (n < Base)
    <3>1. n \div Base \in 0 .. n - 1
      BY <2>4, Quotient, BaseAssumption
    <3>2. PICK q \in 0 .. n - 1 : q = n \div Base
      BY <3>1
    <3>3. f[k - 1][q] = f[q + 1][q] /\ f[n][q] = f[q + 1][q]
      BY <3>2, <2>0
    <3> QED BY <2>1, <2>2, <3>2, <3>3
  <2> QED BY <2>3, <2>4
<1> DEFINE e == [n \in Nat |-> f[n + 1][n]]
<1>6. \A n \in Nat : e[n] = Encoding(n, e[n \div Base])
  <2> SUFFICES ASSUME NEW n \in Nat PROVE e[n] = Encoding(n, e[n \div Base])
    OBVIOUS
  <2>1. e[n] = Encoding(n, f[n][n \div Base])
    BY <1>4
  <2>2. CASE n < Base
    BY <2>1, <2>2 DEF Encoding
  <2>3. CASE ~ (n < Base)
    <3>1. PICK q \in 0 .. n - 1 : q = n \div Base
      BY <2>3, Quotient, BaseAssumption
    <3>2. f[n][q] = e[q]
      BY <1>5, <3>1
    <3> QED BY <2>1, <3>1, <3>2
  <2> QED BY <2>2, <2>3
<1>7. e = [n \in Nat |-> IF n < Base THEN <<n>>
                         ELSE <<Base + (n % Base)>> \o e[n \div Base]]
  <2> HIDE DEF e
  <2>1. e = [n \in Nat |-> e[n]]
    BY DEF e
  <2> QED BY <1>6, <2>1 DEF Encoding
<1> HIDE DEF e
<1>8. EncodeU = [n \in Nat |-> IF n < Base THEN <<n>>
                               ELSE <<Base + (n % Base)>> \o EncodeU[n \div Base]]
  BY <1>7 DEF EncodeU
<1> QED BY <1>8 DEF Encoding

LEMMA EncodeUShape == \A n \in Nat : Shaped(EncodeU[n])
<1> DEFINE S == {n \in Nat : Shaped(EncodeU[n])}
<1> SUFFICES ASSUME NEW n \in Nat, \A m \in 0 .. n - 1 : m \in S PROVE n \in S
  <2> HIDE DEF S
  <2>1. \A n \in Nat : n \in S
    BY StrongInduction
  <2> QED BY <2>1 DEF S
<1>1. EncodeU[n] = Encoding(n, EncodeU[n \div Base])
  BY EncodeUEquation
<1>2. Base \in Nat /\ Base > 1
  BY BaseAssumption
<1>3. CASE n < Base
  <2>1. EncodeU[n] = <<n>> /\ n \in Bytes
    BY <1>1, <1>2, <1>3 DEF Encoding, Bytes
  <2>2. PICK e : e = <<n>>
    OBVIOUS
  <2>3. e \in Seq(Bytes) /\ Len(e) = 1 /\ e[1] = n
    BY <2>1, <2>2
  <2>4. Shaped(e)
    BY <2>3, <1>3 DEF Shaped
  <2> QED BY <2>1, <2>2, <2>4
<1>4. CASE n >= Base
  <2>1. PICK q \in 0 .. n - 1 : q = n \div Base
    BY <1>2, <1>4, Quotient
  <2>2. PICK d \in Bytes : d = Base + (n % Base) /\ d >= Base
    <3>1. PICK r \in 0 .. Base - 1 : r = n % Base
      BY <1>2, <1>4, Quotient
    <3>2. Base + r \in Bytes /\ Base + r >= Base
      BY <1>2 DEF Bytes
    <3> QED BY <3>1, <3>2
  <2>3. EncodeU[n] = <<d>> \o EncodeU[q]
    BY <1>1, <1>2, <1>4, <2>1, <2>2 DEF Encoding
  <2>4. Shaped(EncodeU[q])
    BY <2>1
  <2>5. PICK above : above = EncodeU[q]
    OBVIOUS
  <2>6. above \in Seq(Bytes) /\ Len(above) \in Nat /\ Len(above) >= 1
    BY <2>4, <2>5 DEF Shaped
  <2>7. /\ <<d>> \o above \in Seq(Bytes) /\ Len(<<d>> \o above) = Len(above) + 1
        /\ \A i \in 1 .. Len(above) + 1 : (<<d>> \o above)[i] = IF i = 1 THEN d ELSE above[i - 1]
    BY <2>2, <2>6
  <2>8. Shaped(<<d>> \o above)
    <3>1. \A i \in 1 .. Len(above) - 1 : above[i] >= Base
      BY <2>4, <2>5 DEF Shaped
    <3>2. above[Len(above)] < Base
      BY <2>4, <2>5 DEF Shaped
    <3> QED BY <2>2, <2>6, <2>7, <3>1, <3>2 DEF Shaped
  <2> QED BY <2>3, <2>5, <2>8
<1> QED BY <1>2, <1>3, <1>4

-----------------------------------------------------------------------------
(***************************************************************************)
(* The number at a place.                                                  *)
(***************************************************************************)
LEMMA ByteValues ==
    ASSUME NEW bytes \in Seq(Bytes)
    PROVE  \A i \in DOMAIN bytes : bytes[i] \in Nat
<1>1. Bytes \subseteq Nat
  BY BaseAssumption DEF Bytes
<1>2. \A i \in DOMAIN bytes : bytes[i] \in Bytes
  OBVIOUS
<1> QED BY <1>1, <1>2

LEMMA CarriedEquation ==
    ASSUME NEW bytes \in Seq(Bytes), NEW e \in DOMAIN bytes, NEW m \in Nat, m < e
    PROVE  /\ Carried(bytes, e, m)[0] = bytes[e]
           /\ \A k \in 1 .. m :
                 Carried(bytes, e, m)[k] = (bytes[e - k] - Base) + Base * Carried(bytes, e, m)[k - 1]
<1> DEFINE step == [x \in Nat \X Int |->
                      IF x[1] \in 1 .. m THEN (bytes[e - x[1]] - Base) + Base * x[2] ELSE 0]
<1>1. bytes[e] \in Int /\ Base \in Int
  BY ByteValues, BaseAssumption
<1>2. step \in [Nat \X Int -> Int]
  <2>1. ASSUME NEW k \in 1 .. m, NEW x \in Int
        PROVE  (bytes[e - k] - Base) + Base * x \in Int
    <3>1. e - k \in DOMAIN bytes
      OBVIOUS
    <3>2. bytes[e - k] \in Int
      BY <3>1, ByteValues
    <3>3. Base * x \in Int
      BY <1>1
    <3> QED BY <1>1, <3>2, <3>3
  <2>2. \A y \in Nat \X Int : y[1] \in Nat /\ y[2] \in Int
    OBVIOUS
  <2>3. \A y \in Nat \X Int :
           (IF y[1] \in 1 .. m THEN (bytes[e - y[1]] - Base) + Base * y[2] ELSE 0) \in Int
    <3> SUFFICES ASSUME NEW y \in Nat \X Int
                 PROVE  (IF y[1] \in 1 .. m THEN (bytes[e - y[1]] - Base) + Base * y[2] ELSE 0) \in Int
      OBVIOUS
    <3>1. PICK k \in Nat, x \in Int : k = y[1] /\ x = y[2]
      BY <2>2
    <3>2. CASE k \in 1 .. m
      BY <3>1, <3>2, <2>1
    <3>3. CASE k \notin 1 .. m
      BY <3>1, <3>3
    <3> QED BY <3>2, <3>3
  <2> QED BY <2>3
<1> DEFINE a == bytes[e]
<1> HIDE DEF step, a
<1>3. PICK g : Recursive(g, Int, a, step)
  BY <1>1, <1>2, RecursionExists DEF a
<1>4. /\ g[0] = bytes[e]
      /\ \A k \in 1 .. m : g[k] = (bytes[e - k] - Base) + Base * g[k - 1]
  <2>1. ASSUME NEW k \in 1 .. m PROVE g[k] = (bytes[e - k] - Base) + Base * g[k - 1]
    <3>1. k - 1 \in Nat /\ (k - 1) + 1 = k /\ g[k - 1] \in Int
      BY <1>3 DEF Recursive
    <3>2. g[(k - 1) + 1] = step[<<(k - 1) + 1, g[k - 1]>>]
      BY <1>3, <3>1 DEF Recursive
    <3>3. g[k] = step[<<k, g[k - 1]>>] /\ <<k, g[k - 1]>> \in Nat \X Int
      BY <3>1, <3>2
    <3> QED BY <3>3 DEF step
  <2> QED BY <2>1, <1>3 DEF Recursive, a
<1> DEFINE f == [k \in 0 .. m |-> g[k]]
<1>5. f = [k \in 0 .. m |-> IF k = 0 THEN bytes[e] ELSE (bytes[e - k] - Base) + Base * f[k - 1]]
  <2>1. \A k \in 0 .. m :
           f[k] = IF k = 0 THEN bytes[e] ELSE (bytes[e - k] - Base) + Base * f[k - 1]
    BY <1>4
  <2>2. f = [k \in 0 .. m |-> f[k]]
    OBVIOUS
  <2> HIDE DEF f
  <2> QED BY <2>1, <2>2
<1> HIDE DEF f
<1>6. PICK c : c = Carried(bytes, e, m)
  OBVIOUS
<1>7. c = [k \in 0 .. m |-> IF k = 0 THEN bytes[e] ELSE (bytes[e - k] - Base) + Base * c[k - 1]]
  BY <1>5, <1>6 DEF Carried
<1>8. \A k \in 0 .. m :
         c[k] = IF k = 0 THEN bytes[e] ELSE (bytes[e - k] - Base) + Base * c[k - 1]
  BY <1>7, Zenon
<1>9. c[0] = bytes[e]
  BY <1>8
<1>10. ASSUME NEW k \in 1 .. m PROVE c[k] = (bytes[e - k] - Base) + Base * c[k - 1]
  <2>1. k \in 0 .. m /\ k # 0
    OBVIOUS
  <2> QED BY <1>8, <2>1, Zenon
<1> QED BY <1>6, <1>9, <1>10

\* How many bytes are asked for makes no difference to what they carry.
LEMMA CarriedAgrees ==
    ASSUME NEW bytes \in Seq(Bytes), NEW e \in DOMAIN bytes,
           NEW m \in Nat, m < e, NEW l \in 0 .. m
    PROVE  Carried(bytes, e, m)[l] = Carried(bytes, e, l)[l]
<1>1. PICK c, d : c = Carried(bytes, e, m) /\ d = Carried(bytes, e, l)
  OBVIOUS
<1>2. /\ c[0] = bytes[e] /\ \A k \in 1 .. m : c[k] = (bytes[e - k] - Base) + Base * c[k - 1]
      /\ d[0] = bytes[e] /\ \A k \in 1 .. l : d[k] = (bytes[e - k] - Base) + Base * d[k - 1]
  <2>1. l \in Nat /\ l < e
    OBVIOUS
  <2>2. /\ c[0] = bytes[e] /\ \A k \in 1 .. m : c[k] = (bytes[e - k] - Base) + Base * c[k - 1]
    BY <1>1, CarriedEquation
  <2>3. /\ d[0] = bytes[e] /\ \A k \in 1 .. l : d[k] = (bytes[e - k] - Base) + Base * d[k - 1]
    BY <1>1, <2>1, CarriedEquation
  <2> QED BY <2>2, <2>3
<1> DEFINE S == {k \in Nat : k <= l => c[k] = d[k]}
<1>3. 0 \in S
  BY <1>2
<1>4. ASSUME NEW k \in Nat, k \in S PROVE k + 1 \in S
  <2> SUFFICES ASSUME k + 1 <= l PROVE c[k + 1] = d[k + 1]
    OBVIOUS
  <2>1. k + 1 \in 1 .. m /\ k + 1 \in 1 .. l /\ (k + 1) - 1 = k /\ c[k] = d[k]
    BY <1>4
  <2>2. /\ c[k + 1] = (bytes[e - (k + 1)] - Base) + Base * c[(k + 1) - 1]
        /\ d[k + 1] = (bytes[e - (k + 1)] - Base) + Base * d[(k + 1) - 1]
    BY <1>2, <2>1
  <2> QED BY <2>1, <2>2
<1> HIDE DEF S
<1>5. l \in S
  BY <1>3, <1>4, NumberInduction
<1> QED BY <1>1, <1>5 DEF S

\* Where the number at p ends, for bytes that write one from p to e.
LEMMA EndIs ==
    ASSUME NEW bytes \in Seq(Bytes), NEW p \in Nat \ {0}, NEW e \in DOMAIN bytes, p <= e,
           \A i \in p .. e - 1 : bytes[i] >= Base, bytes[e] < Base
    PROVE  Ends(bytes, p) # {} /\ EndAt(bytes, p) = e
<1>1. Base \in Nat /\ \A i \in DOMAIN bytes : bytes[i] \in Nat
  BY BaseAssumption, ByteValues
<1>2. e \in Ends(bytes, p)
  BY DEF Ends
<1>3. \A i \in Ends(bytes, p) : e <= i
  BY <1>1 DEF Ends
<1>4. EndAt(bytes, p) \in Ends(bytes, p) /\ \A j \in Ends(bytes, p) : EndAt(bytes, p) <= j
  BY <1>2, <1>3 DEF EndAt
<1>5. \A i \in Ends(bytes, p) : i \in Int
  BY DEF Ends
<1> QED BY <1>2, <1>3, <1>4, <1>5

-----------------------------------------------------------------------------
(***************************************************************************)
(* There and back.                                                         *)
(***************************************************************************)
\* Number n stands in the bytes from p on.
StandsAt(bytes, p, n) ==
    /\ bytes \in Seq(Bytes) /\ p \in Nat \ {0}
    /\ p + Len(EncodeU[n]) - 1 <= Len(bytes)
    /\ \A i \in 1 .. Len(EncodeU[n]) : bytes[p + i - 1] = EncodeU[n][i]

LEMMA EndOfNumber ==
    ASSUME NEW n \in Nat, NEW bytes, NEW p, StandsAt(bytes, p, n)
    PROVE  /\ Ends(bytes, p) # {}
           /\ EndAt(bytes, p) = p + Len(EncodeU[n]) - 1
           /\ EndAt(bytes, p) \in DOMAIN bytes /\ EndAt(bytes, p) >= p
<1>1. PICK w : w = EncodeU[n]
  OBVIOUS
<1>2. /\ w \in Seq(Bytes) /\ Len(w) \in Nat /\ Len(w) >= 1
      /\ \A i \in 1 .. Len(w) - 1 : w[i] >= Base
      /\ w[Len(w)] < Base
  BY <1>1, EncodeUShape DEF Shaped
<1>3. /\ bytes \in Seq(Bytes) /\ p \in Nat \ {0} /\ p + Len(w) - 1 <= Len(bytes)
      /\ \A i \in 1 .. Len(w) : bytes[p + i - 1] = w[i]
  BY <1>1 DEF StandsAt
<1>4. PICK e \in Int : e = p + Len(w) - 1
  <2>1. p \in Int /\ Len(w) \in Int
    BY <1>2, <1>3
  <2>2. p + Len(w) - 1 \in Int
    BY <2>1
  <2> QED BY <2>2
<1>5. e \in DOMAIN bytes /\ p <= e
  BY <1>2, <1>3, <1>4
<1>6. bytes[e] < Base
  BY <1>2, <1>3, <1>4
<1>7. ASSUME NEW j \in p .. e - 1 PROVE bytes[j] >= Base
  <2>1. j - p + 1 \in 1 .. Len(w) - 1 /\ p + (j - p + 1) - 1 = j
    BY <1>2, <1>3, <1>4
  <2>2. bytes[p + (j - p + 1) - 1] = w[j - p + 1]
    BY <1>2, <1>3, <2>1
  <2> QED BY <1>2, <2>1, <2>2
<1>8. Ends(bytes, p) # {} /\ EndAt(bytes, p) = e
  BY <1>3, <1>5, <1>6, <1>7, EndIs
<1> QED BY <1>1, <1>4, <1>5, <1>8

\* The digits above the first stand after it.
LEMMA AboveStands ==
    ASSUME NEW n \in Nat, n >= Base, NEW bytes, NEW p, StandsAt(bytes, p, n)
    PROVE  /\ StandsAt(bytes, p + 1, n \div Base)
           /\ bytes[p] = Base + (n % Base)
           /\ EndAt(bytes, p + 1) = EndAt(bytes, p)
<1>1. PICK q \in Nat : q = n \div Base
  BY Quotient
<1>2. PICK d \in Nat : d = Base + (n % Base)
  BY Quotient, BaseAssumption
<1>3. EncodeU[n] = <<d>> \o EncodeU[q]
  <2>1. ~ (n < Base)
    BY BaseAssumption
  <2> QED BY <1>1, <1>2, <2>1, EncodeUEquation DEF Encoding
<1>4. PICK w, a : w = EncodeU[n] /\ a = EncodeU[q]
  OBVIOUS
<1>5. a \in Seq(Bytes) /\ Len(a) \in Nat /\ Len(a) >= 1
  BY <1>4, EncodeUShape DEF Shaped
<1>6. w = <<d>> \o a
  BY <1>3, <1>4
<1>7. Len(w) = Len(a) + 1 /\ \A i \in 1 .. Len(a) + 1 : w[i] = IF i = 1 THEN d ELSE a[i - 1]
  <2>1. a \in Seq(Bytes \cup {d}) /\ <<d>> \in Seq(Bytes \cup {d})
    BY <1>5
  <2>2. Len(<<d>>) = 1 /\ <<d>>[1] = d
    OBVIOUS
  <2> QED BY <1>5, <1>6, <2>1, <2>2, ConcatProperties
<1>8. /\ bytes \in Seq(Bytes) /\ p \in Nat \ {0} /\ p + Len(w) - 1 <= Len(bytes)
      /\ \A i \in 1 .. Len(w) : bytes[p + i - 1] = w[i]
  BY <1>4 DEF StandsAt
<1>9. bytes[p] = d
  <2>1. bytes[p + 1 - 1] = w[1] /\ p + 1 - 1 = p
    BY <1>5, <1>7, <1>8
  <2> QED BY <1>5, <1>7, <2>1
<1>10. \A i \in 1 .. Len(a) : bytes[(p + 1) + i - 1] = a[i]
  <2> SUFFICES ASSUME NEW i \in 1 .. Len(a) PROVE bytes[(p + 1) + i - 1] = a[i]
    OBVIOUS
  <2>1. i + 1 \in 1 .. Len(w) /\ (i + 1) # 1 /\ (i + 1) - 1 = i /\ p + (i + 1) - 1 = (p + 1) + i - 1
    BY <1>5, <1>7, <1>8
  <2>2. bytes[p + (i + 1) - 1] = w[i + 1] /\ w[i + 1] = a[(i + 1) - 1]
    BY <1>5, <1>7, <1>8, <2>1
  <2> QED BY <2>1, <2>2
<1>11. StandsAt(bytes, p + 1, q)
  <2>1. p + 1 \in Nat \ {0} /\ (p + 1) + Len(a) - 1 <= Len(bytes)
    BY <1>5, <1>7, <1>8
  <2> QED BY <1>4, <1>8, <1>10, <2>1 DEF StandsAt
<1>12. EndAt(bytes, p + 1) = (p + 1) + Len(a) - 1 /\ EndAt(bytes, p) = p + Len(w) - 1
  BY <1>4, <1>11, EndOfNumber
<1> QED BY <1>1, <1>2, <1>5, <1>7, <1>8, <1>9, <1>11, <1>12

LEMMA NumberStands ==
    \A n \in Nat : \A bytes, p : StandsAt(bytes, p, n) => NumberAt(bytes, p) = n
<1> DEFINE S == {n \in Nat : \A bytes, p : StandsAt(bytes, p, n) => NumberAt(bytes, p) = n}
<1> SUFFICES ASSUME NEW n \in Nat, \A m \in 0 .. n - 1 : m \in S PROVE n \in S
  <2> HIDE DEF S
  <2>1. \A n \in Nat : n \in S
    BY StrongInduction
  <2> QED BY <2>1 DEF S
<1> SUFFICES ASSUME NEW bytes, NEW p, StandsAt(bytes, p, n) PROVE NumberAt(bytes, p) = n
  OBVIOUS
<1>1. Base \in Nat /\ Base > 1
  BY BaseAssumption
<1>2. bytes \in Seq(Bytes) /\ p \in Nat \ {0}
  BY DEF StandsAt
<1>3. PICK e : e = EndAt(bytes, p) /\ e \in DOMAIN bytes /\ e >= p
  BY EndOfNumber
<1>4. e \in Nat
  BY <1>2, <1>3
<1>5. CASE n < Base
  <2>1. EncodeU[n] = <<n>>
    BY <1>5, EncodeUEquation DEF Encoding
  <2>2. Len(<<n>>) = 1 /\ <<n>>[1] = n
    OBVIOUS
  <2>3. e = p
    <3>1. EndAt(bytes, p) = p + Len(<<n>>) - 1
      BY <2>1, EndOfNumber
    <3> QED BY <1>2, <1>3, <2>2, <3>1
  <2>4. bytes[p + 1 - 1] = n /\ p + 1 - 1 = p
    BY <1>2, <2>1, <2>2 DEF StandsAt
  <2>5. e - p = 0 /\ 0 \in Nat /\ 0 < e
    BY <1>2, <2>3
  <2>6. Carried(bytes, e, 0)[0] = bytes[e]
    BY <1>2, <1>3, <2>5, CarriedEquation
  <2> QED BY <1>3, <2>3, <2>4, <2>5, <2>6 DEF NumberAt
<1>6. CASE n >= Base
  <2>1. PICK q \in 0 .. n - 1, r \in 0 .. Base - 1 :
           q = n \div Base /\ r = n % Base /\ n = Base * q + r
    <3>1. /\ n \div Base \in Nat /\ n \div Base < n /\ n % Base \in 0 .. Base - 1
          /\ n = Base * (n \div Base) + (n % Base)
      BY <1>6, Quotient
    <3>2. n \div Base \in 0 .. n - 1
      BY <3>1
    <3> QED BY <3>1, <3>2
  <2>2. StandsAt(bytes, p + 1, q) /\ bytes[p] = Base + r /\ EndAt(bytes, p + 1) = e
    BY <1>3, <1>6, <2>1, AboveStands
  <2>3. NumberAt(bytes, p + 1) = q
    BY <2>2
  <2>4. e >= p + 1
    BY <2>1, <2>2, EndOfNumber
  <2>5. PICK m \in Nat : m = e - p /\ m >= 1 /\ m < e /\ m - 1 = e - (p + 1) /\ e - m = p
    BY <1>2, <1>4, <2>4
  <2>6. Carried(bytes, e, m)[m] = (bytes[e - m] - Base) + Base * Carried(bytes, e, m)[m - 1]
    BY <1>2, <1>3, <2>5, CarriedEquation
  <2>7. Carried(bytes, e, m)[m - 1] = Carried(bytes, e, m - 1)[m - 1]
    BY <1>2, <1>3, <2>5, CarriedAgrees
  <2>8. Carried(bytes, e, m - 1)[m - 1] = q
    BY <2>2, <2>3, <2>5 DEF NumberAt
  <2>9. NumberAt(bytes, p) = (Base + r - Base) + Base * q
    <3>1. NumberAt(bytes, p) = Carried(bytes, e, m)[m]
      BY <1>3, <2>5 DEF NumberAt
    <3>2. bytes[e - m] = Base + r
      BY <2>2, <2>5
    <3>3. Carried(bytes, e, m)[m - 1] = q
      BY <2>7, <2>8
    <3>4. PICK x, y, z : /\ x = bytes[e - m] /\ y = Carried(bytes, e, m)[m - 1]
                         /\ z = Carried(bytes, e, m)[m]
      OBVIOUS
    <3>5. z = (x - Base) + Base * y /\ x = Base + r /\ y = q
      BY <2>6, <3>2, <3>3, <3>4, Zenon
    <3>6. x \in Int /\ y \in Int
      BY <1>1, <3>5
    <3>7. z = (Base + r - Base) + Base * q
      BY <1>1, <3>5, <3>6
    <3> QED BY <3>1, <3>4, <3>7, Zenon
  <2>10. Base * q \in Int
    BY <1>1
  <2> QED BY <1>1, <2>1, <2>9, <2>10
<1> QED BY <1>1, <1>5, <1>6

\* A number that was written with other bytes before and after it.
LEMMA WrittenStands ==
    ASSUME NEW n \in Nat, NEW before \in Seq(Bytes), NEW after \in Seq(Bytes)
    PROVE  StandsAt(before \o EncodeU[n] \o after, Len(before) + 1, n)
<1>1. PICK w : w = EncodeU[n]
  OBVIOUS
<1>2. w \in Seq(Bytes) /\ Len(w) \in Nat /\ Len(before) \in Nat /\ Len(after) \in Nat
  BY <1>1, EncodeUShape DEF Shaped
<1>3. PICK s : s = before \o w
  OBVIOUS
<1>4. /\ s \in Seq(Bytes) /\ Len(s) = Len(before) + Len(w)
      /\ \A i \in 1 .. Len(w) : s[Len(before) + i] = w[i]
  BY <1>2, <1>3
<1>5. PICK b : b = s \o after
  OBVIOUS
<1>6. /\ b \in Seq(Bytes) /\ Len(b) = Len(s) + Len(after)
      /\ \A i \in 1 .. Len(s) : b[i] = s[i]
  BY <1>4, <1>5, ConcatProperties
<1>7. ASSUME NEW i \in 1 .. Len(w) PROVE b[(Len(before) + 1) + i - 1] = w[i]
  <2>1. Len(before) + i \in 1 .. Len(s) /\ (Len(before) + 1) + i - 1 = Len(before) + i
    BY <1>2, <1>4
  <2> QED BY <1>4, <1>6, <2>1
<1>8. StandsAt(b, Len(before) + 1, n)
  <2>1. /\ Len(before) + 1 \in Nat \ {0}
        /\ (Len(before) + 1) + Len(w) - 1 <= Len(b)
    BY <1>2, <1>4, <1>6
  <2> QED BY <1>1, <1>6, <1>7, <2>1 DEF StandsAt
<1> QED BY <1>1, <1>3, <1>5, <1>8

\* varint_u64_decode and varint_size, at any place of a stream where a number was
\* written: the number, and the place after it.
THEOREM UnsignedReadBack ==
    ASSUME NEW n \in Unsigned, NEW before \in Seq(Bytes), NEW after \in Seq(Bytes)
    PROVE  DecodeU(before \o EncodeU[n] \o after, Len(before) + 1)
             = [ok |-> TRUE, value |-> n, next |-> Len(before) + Len(EncodeU[n]) + 1]
<1>0. n \in Nat
  BY DEF Unsigned
<1>1. PICK b : b = before \o EncodeU[n] \o after
  OBVIOUS
<1>2. StandsAt(b, Len(before) + 1, n)
  BY <1>0, <1>1, WrittenStands
<1>3. /\ Ends(b, Len(before) + 1) # {}
      /\ EndAt(b, Len(before) + 1) = (Len(before) + 1) + Len(EncodeU[n]) - 1
  BY <1>0, <1>2, EndOfNumber
<1>4. NumberAt(b, Len(before) + 1) % Word = n
  <2>1. NumberAt(b, Len(before) + 1) = n
    BY <1>0, <1>2, NumberStands
  <2> QED BY <2>1, NotWrapped
<1>5. Len(before) \in Nat /\ Len(EncodeU[n]) \in Nat
  BY <1>0, EncodeUShape DEF Shaped
<1>6. PastEnd(b, Len(before) + 1) = Len(before) + Len(EncodeU[n]) + 1
  <2>1. PastEnd(b, Len(before) + 1) = ((Len(before) + 1) + Len(EncodeU[n]) - 1) + 1
    BY <1>3, Zenon DEF PastEnd
  <2>2. PICK c \in Nat, d \in Nat : c = Len(before) /\ d = Len(EncodeU[n])
    BY <1>5
  <2>3. ((c + 1) + d - 1) + 1 = c + d + 1
    OBVIOUS
  <2> QED BY <2>1, <2>2, <2>3, Zenon
<1> QED BY <1>1, <1>3, <1>4, <1>6 DEF DecodeU

\* varint_s64_decode gives back every int64_t but the least that varint_s64_encode_buf
\* wrote, whatever is before and after it, and goes on behind it even then.
THEOREM ReadBack ==
    ASSUME NEW v \in Signed, NEW before \in Seq(Bytes), NEW after \in Seq(Bytes)
    PROVE  DecodeS(before \o EncodeS(v) \o after, Len(before) + 1)
             = [ok |-> TRUE, value |-> Back(v), next |-> Len(before) + Len(EncodeS(v)) + 1]
<1>1. PICK n \in Unsigned : n = Zigzag(v) /\ Unzigzag(n) = Back(v)
  BY ZigzagType, ZigzagInverse
<1>2. EncodeS(v) = EncodeU[n]
  BY <1>1 DEF EncodeS
<1>3. PICK r : r = DecodeU(before \o EncodeU[n] \o after, Len(before) + 1)
  OBVIOUS
<1>4. r = [ok |-> TRUE, value |-> n, next |-> Len(before) + Len(EncodeU[n]) + 1]
  BY <1>3, UnsignedReadBack
<1>5. DecodeS(before \o EncodeS(v) \o after, Len(before) + 1) = [r EXCEPT !.value = Unzigzag(@)]
  BY <1>2, <1>3 DEF DecodeS
<1> QED BY <1>1, <1>2, <1>4, <1>5

\* A stream that ends inside of a number has none there: the reader says so instead
\* of taking the digits it has for a smaller number.
THEOREM CutOffFails ==
    ASSUME NEW n \in Nat, NEW before \in Seq(Bytes), NEW k \in 0 .. Len(EncodeU[n]) - 1
    PROVE  ~ DecodeU(before \o SubSeq(EncodeU[n], 1, k), Len(before) + 1).ok
<1>1. PICK w : w = EncodeU[n]
  OBVIOUS
<1>2. /\ w \in Seq(Bytes) /\ Len(w) \in Nat /\ Len(before) \in Nat
      /\ \A i \in 1 .. Len(w) - 1 : w[i] >= Base
  BY <1>1, EncodeUShape DEF Shaped
<1>3. PICK part : part = SubSeq(w, 1, k)
  OBVIOUS
<1>4. k \in Nat /\ k <= Len(w) - 1
  BY <1>1, <1>2
<1>5. part \in Seq(Bytes) /\ Len(part) = k /\ \A i \in 1 .. k : part[i] = w[i]
  <2>1. \A i \in 1 .. k : w[i] \in Bytes
    BY <1>2, <1>4
  <2> QED BY <1>2, <1>3, <1>4, <2>1, SubSeqProperties
<1>6. PICK b : b = before \o part
  OBVIOUS
<1>7. /\ b \in Seq(Bytes) /\ Len(b) = Len(before) + k
      /\ \A i \in 1 .. k : b[Len(before) + i] = part[i]
  <2>1. b \in Seq(Bytes) /\ Len(b) = Len(before) + k
    BY <1>5, <1>6, ConcatProperties
  <2>2. ASSUME NEW i \in 1 .. k PROVE b[Len(before) + i] = part[i]
    BY <1>2, <1>4, <1>5, <1>6
  <2> QED BY <2>1, <2>2
<1>8. ASSUME NEW i \in Ends(b, Len(before) + 1) PROVE FALSE
  <2>1. i \in Len(before) + 1 .. Len(before) + k /\ b[i] < Base
    BY <1>7 DEF Ends
  <2>2. i - Len(before) \in 1 .. k /\ Len(before) + (i - Len(before)) = i
    BY <1>2, <1>4, <2>1
  <2>3. b[i] = w[i - Len(before)] /\ w[i - Len(before)] >= Base /\ b[i] \in Nat
    BY <1>2, <1>4, <1>5, <1>7, <2>1, <2>2, ByteValues
  <2> QED BY <2>1, <2>3, BaseAssumption
<1>9. DecodeU(b, Len(before) + 1).ok = FALSE
  BY <1>8 DEF DecodeU
<1> QED BY <1>1, <1>3, <1>6, <1>9

=============================================================================
