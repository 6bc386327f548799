------------------------------ MODULE WktProofs ------------------------------
(***************************************************************************)
(* The reader of well-known text, for every stream of tokens: no text the  *)
(* caller may hand over is left out, and no depth of nesting.              *)
(*                                                                         *)
(* Two invariants carry the results.  Inv says of each block who owns it:  *)
(* one open construct, the symbol just reduced or the finished geometry;   *)
(* so an error, which frees each owner's blocks, frees every block once.   *)
(* AllSound says that what is open, waits or is finished has even          *)
(* dimensions, and keeps the promises of the checks if all were asked for. *)
(* It needs two things the properties do not speak of: that a construct    *)
(* fits in the one around it, and that the parts of a compound curve are a *)
(* chain before the curve has its name.                                    *)
(*                                                                         *)
(* Both rest on what each function of the parser owes: Contract for the    *)
(* blocks, Made and Promised for the checks, Left and Assembled for the    *)
(* dimensions.                                                             *)
(***************************************************************************)
EXTENDS WktIn, Induction, FiniteSetTheorems, SequenceTheorems

-----------------------------------------------------------------------------
(* Paths and trees *)

Types == Keywords \cup {"array"}

BlockRecords ==
  [id : Nat, type : Types, z : BOOLEAN, m : BOOLEAN, pts : Seq(Seq(Int)), parts : Nat]

\* Paths are sequences of numbers of parts, and lead to parts there are.
Trees == UNION {[D -> BlockRecords] : D \in SUBSET Seq(Nat)}

\* A tree has a root, which counts the parts there are.
Tree(v) ==
  /\ DOMAIN v \subseteq Seq(Nat) /\ <<>> \in DOMAIN v
  /\ v \in [DOMAIN v -> BlockRecords]
  /\ \A p \in DOMAIN v : p # <<>> => p[1] \in 1 .. Root(v).parts
  /\ \A i \in 1 .. Root(v).parts : <<i>> \in DOMAIN v

\* A step before a path.
LEMMA StepFacts ==
  ASSUME NEW k \in Nat, NEW q \in Seq(Nat)
  PROVE  /\ <<k>> \o q \in Seq(Nat) /\ <<k>> \o q # <<>>
         /\ (<<k>> \o q)[1] = k /\ Tail(<<k>> \o q) = q
<1>1. <<k>> \in Seq(Nat) /\ Len(<<k>>) = 1 /\ <<k>>[1] = k
  OBVIOUS
<1> DEFINE s == <<k>>
<1>2. s \in Seq(Nat) /\ Len(s) = 1 /\ s[1] = k
  BY <1>1
<1> HIDE DEF s
<1>3. /\ s \o q \in Seq(Nat) /\ Len(s \o q) = 1 + Len(q) /\ Len(q) \in Nat
      /\ \A i \in 1 .. 1 + Len(q) : (s \o q)[i] = IF i <= 1 THEN s[i] ELSE q[i - 1]
  <2>1. /\ s \o q \in Seq(Nat) /\ Len(s \o q) = Len(s) + Len(q)
        /\ \A i \in 1 .. Len(s) + Len(q) : (s \o q)[i] = IF i <= Len(s) THEN s[i] ELSE q[i - Len(s)]
    BY <1>2, ConcatProperties
  <2>2. Len(q) \in Nat
    BY LenProperties
  <2> QED BY <1>2, <2>1, <2>2
<1>4. s \o q # <<>> /\ (s \o q)[1] = k
  BY <1>2, <1>3
<1>5. Tail(s \o q) \in Seq(Nat) /\ Len(Tail(s \o q)) = Len(q)
      /\ \A i \in 1 .. Len(q) : Tail(s \o q)[i] = (s \o q)[i + 1]
  BY <1>3, <1>4, HeadTailProperties
<1>6. Tail(s \o q) = q
  <2>1. \A i \in 1 .. Len(q) : Tail(s \o q)[i] = q[i]
    BY <1>3, <1>5
  <2> QED BY <2>1, <1>5, SeqEqual
<1> QED BY <1>3, <1>4, <1>6 DEF s

\* A longer path is its first step and the rest.
LEMMA FirstStep ==
  ASSUME NEW p \in Seq(Nat), p # <<>>
  PROVE  p[1] \in Nat /\ Tail(p) \in Seq(Nat) /\ p = <<p[1]>> \o Tail(p)
<1> DEFINE t == Tail(p)  r == <<p[1]>> \o t
<1>1. /\ t \in Seq(Nat) /\ Len(t) = Len(p) - 1 /\ Len(p) \in Nat /\ Len(p) > 0
      /\ \A i \in 1 .. Len(t) : t[i] = p[i + 1]
  BY HeadTailProperties, EmptySeq, LenProperties
<1>2. p[1] \in Nat
  BY <1>1, ElementOfSeq
<1>3. <<p[1]>> \in Seq(Nat) /\ Len(<<p[1]>>) = 1 /\ <<p[1]>>[1] = p[1]
  BY <1>2
<1> HIDE DEF t
<1>4. /\ r \in Seq(Nat) /\ Len(r) = 1 + Len(t)
      /\ \A i \in 1 .. 1 + Len(t) : r[i] = IF i <= 1 THEN <<p[1]>>[i] ELSE t[i - 1]
  BY <1>1, <1>3, ConcatProperties
<1> HIDE DEF r
<1>5. \A i \in 1 .. Len(p) : r[i] = p[i]
  BY <1>1, <1>3, <1>4
<1>6. r = p
  <2>1. Len(r) = Len(p)
    BY <1>1, <1>4
  <2>2. \A i \in 1 .. Len(r) : r[i] = p[i]
    BY <1>5, <2>1
  <2> QED BY <1>4, <2>1, <2>2, SeqEqual
<1> QED BY <1>1, <1>2, <1>6 DEF r, t

\* Where the blocks of a tree with one more part are.
LEMMA WithFacts ==
  ASSUME NEW v, NEW w, Tree(v), Tree(w)
  PROVE  LET u == With(v, w)
             k == Root(v).parts + 1
         IN  /\ Tree(u)
             /\ Root(u) = [Root(v) EXCEPT !.parts = k]
             /\ DOMAIN u = DOMAIN v \cup {<<k>> \o q : q \in DOMAIN w}
             /\ \A p \in DOMAIN v : p # <<>> => u[p] = v[p]
             /\ \A q \in DOMAIN w : u[<<k>> \o q] = w[q]
             /\ Blocks(u) = Blocks(v) \cup Blocks(w)
<1> DEFINE u == With(v, w)
           k == Root(v).parts + 1
           paths == {<<k>> \o q : q \in DOMAIN w}
<1>1. Root(v) \in BlockRecords /\ Root(w) \in BlockRecords
  BY DEF Tree, Root
<1>2. Root(v).parts \in Nat /\ k \in Nat /\ k = Root(v).parts + 1
  BY <1>1 DEF BlockRecords
<1> HIDE DEF k
<1>3. \A q \in DOMAIN w : /\ <<k>> \o q \in Seq(Nat) /\ <<k>> \o q # <<>>
                          /\ (<<k>> \o q)[1] = k /\ Tail(<<k>> \o q) = q
  BY <1>2, StepFacts DEF Tree
<1>4. \A p \in DOMAIN v : p \notin paths
  <2> SUFFICES ASSUME NEW p \in DOMAIN v, NEW q \in DOMAIN w, p = <<k>> \o q PROVE FALSE
    OBVIOUS
  <2>1. p # <<>> /\ p[1] = k
    BY <1>3
  <2>2. p[1] \in 1 .. Root(v).parts
    BY <2>1 DEF Tree
  <2> QED BY <1>2, <2>1, <2>2
<1>5. u = [p \in DOMAIN v \cup paths |->
             CASE p \in paths -> w[Tail(p)] [] p = <<>> -> [Root(v) EXCEPT !.parts = k] [] OTHER -> v[p]]
  BY DEF With, k
<1> HIDE DEF u, paths
<1>6. DOMAIN u = DOMAIN v \cup paths
  BY <1>5
<1>7. \A p \in DOMAIN v : p # <<>> => u[p] = v[p]
  BY <1>4, <1>5
<1>8. Root(u) = [Root(v) EXCEPT !.parts = k]
  BY <1>4, <1>5 DEF Root, Tree
<1>9. \A q \in DOMAIN w : u[<<k>> \o q] = w[q]
  <2> SUFFICES ASSUME NEW q \in DOMAIN w PROVE u[<<k>> \o q] = w[q]
    OBVIOUS
  <2>1. <<k>> \o q \in paths
    BY DEF paths
  <2> QED BY <1>3, <1>5, <2>1
<1>10. Root(u) \in BlockRecords /\ Root(u).id = Root(v).id /\ Root(u).parts = k
  BY <1>1, <1>2, <1>8 DEF BlockRecords
<1>11. \A p \in DOMAIN u : u[p] \in BlockRecords
  <2> SUFFICES ASSUME NEW p \in DOMAIN u PROVE u[p] \in BlockRecords
    OBVIOUS
  <2>1. CASE p \in paths
    <3>1. PICK q \in DOMAIN w : p = <<k>> \o q
      BY <2>1 DEF paths
    <3> QED BY <3>1, <1>9 DEF Tree
  <2>2. CASE p \in DOMAIN v /\ p # <<>>
    BY <2>2, <1>7 DEF Tree
  <2>3. CASE p = <<>>
    BY <2>3, <1>10 DEF Root
  <2> QED BY <1>6, <2>1, <2>2, <2>3
<1>12. u \in [DOMAIN u -> BlockRecords]
  <2>1. u = [p \in DOMAIN u |-> u[p]]
    BY <1>5, <1>6
  <2> QED BY <1>11, <2>1
<1>13. DOMAIN u \subseteq Seq(Nat) /\ <<>> \in DOMAIN u
  BY <1>3, <1>6 DEF Tree, paths
<1>14. \A p \in DOMAIN u : p # <<>> => p[1] \in 1 .. k
  <2> SUFFICES ASSUME NEW p \in DOMAIN u, p # <<>> PROVE p[1] \in 1 .. k
    OBVIOUS
  <2>1. CASE p \in DOMAIN v
    <3>1. p[1] \in 1 .. Root(v).parts
      BY <2>1 DEF Tree
    <3> QED BY <3>1, <1>2
  <2>2. CASE p \in paths
    <3>1. PICK q \in DOMAIN w : p = <<k>> \o q
      BY <2>2 DEF paths
    <3>2. p[1] = k
      BY <3>1, <1>3
    <3> QED BY <3>2, <1>2
  <2> QED BY <1>6, <2>1, <2>2
<1>15. \A i \in 1 .. k : <<i>> \in DOMAIN u
  <2> SUFFICES ASSUME NEW i \in 1 .. k PROVE <<i>> \in DOMAIN u
    OBVIOUS
  <2>1. CASE i # k
    <3>1. i \in 1 .. Root(v).parts
      BY <1>2, <2>1
    <3> QED BY <3>1, <1>6 DEF Tree
  <2>2. CASE i = k
    <3>1. <<>> \in DOMAIN w /\ <<k>> \in Seq(Nat)
      BY <1>2 DEF Tree
    <3>2. <<k>> \o <<>> = <<k>>
      BY <3>1, ConcatEmptySeq
    <3>3. <<k>> \in paths
      BY <3>1, <3>2 DEF paths
    <3> QED BY <2>2, <3>3, <1>6
  <2> QED BY <2>1, <2>2
<1>16. Tree(u)
  BY <1>10, <1>12, <1>13, <1>14, <1>15 DEF Tree
<1>17. Blocks(u) = Blocks(v) \cup Blocks(w)
  <2>1. ASSUME NEW p \in DOMAIN u PROVE u[p].id \in Blocks(v) \cup Blocks(w)
    <3>1. CASE p \in paths
      <4>1. PICK q \in DOMAIN w : p = <<k>> \o q
        BY <3>1 DEF paths
      <4> QED BY <4>1, <1>9 DEF Blocks
    <3>2. CASE p \in DOMAIN v /\ p # <<>>
      BY <3>2, <1>7 DEF Blocks
    <3>3. CASE p = <<>>
      BY <3>3, <1>10 DEF Root, Blocks, Tree
    <3> QED BY <1>6, <3>1, <3>2, <3>3
  <2>2. ASSUME NEW p \in DOMAIN v PROVE v[p].id \in Blocks(u)
    <3>1. CASE p # <<>>
      BY <3>1, <1>6, <1>7 DEF Blocks
    <3>2. CASE p = <<>>
      BY <3>2, <1>10, <1>13 DEF Root, Blocks
    <3> QED BY <3>1, <3>2
  <2>3. ASSUME NEW q \in DOMAIN w PROVE w[q].id \in Blocks(u)
    <3>1. <<k>> \o q \in DOMAIN u
      BY <1>6 DEF paths
    <3> QED BY <3>1, <1>9 DEF Blocks
  <2> QED BY <2>1, <2>2, <2>3 DEF Blocks
<1> QED BY <1>6, <1>7, <1>8, <1>9, <1>16, <1>17 DEF u, k, paths

\* A tree is no empty value, and its root is a block.
LEMMA TreeSet ==
  ASSUME NEW v, Tree(v)
  PROVE  v \in Trees /\ v # Nothing /\ Root(v) \in BlockRecords
<1>1. v \in Trees /\ Root(v) \in BlockRecords
  BY DEF Tree, Trees, Root
<1>2. DOMAIN Nothing = {} /\ <<>> \in DOMAIN v
  BY DEF Nothing, Tree
<1> QED BY <1>1, <1>2

\* Nothing owns no block.
LEMMA NothingBlocks == Blocks(Nothing) = {}
<1>1. DOMAIN Nothing = {}
  BY DEF Nothing
<1> QED BY <1>1 DEF Blocks

\* A block alone is a tree.
LEMMA LeafFacts ==
  ASSUME NEW block \in BlockRecords, block.parts = 0
  PROVE  Tree(Leaf(block)) /\ Root(Leaf(block)) = block /\ Blocks(Leaf(block)) = {block.id}
<1>1. DOMAIN Leaf(block) = {<<>>} /\ Leaf(block)[<<>>] = block
  BY DEF Leaf
<1>2. Leaf(block) = [p \in DOMAIN Leaf(block) |-> Leaf(block)[p]]
  BY DEF Leaf
<1>3. <<>> \in Seq(Nat)
  OBVIOUS
<1>4. Leaf(block) \in [DOMAIN Leaf(block) -> BlockRecords]
  BY <1>1, <1>2
<1> QED BY <1>1, <1>3, <1>4 DEF Tree, Root, Blocks

HasFlags(flags) == flags.z \in BOOLEAN /\ flags.m \in BOOLEAN

\* Naming the dimensions keeps the blocks and their places.
LEMMA SetDimsFacts ==
  ASSUME NEW v, NEW flags, Tree(v), HasFlags(flags)
  PROVE  /\ Tree(SetDims(v, flags)) /\ Blocks(SetDims(v, flags)) = Blocks(v)
         /\ DOMAIN SetDims(v, flags) = DOMAIN v
         /\ \A p \in DOMAIN v : SetDims(v, flags)[p] = Flagged(v[p], flags)
<1> DEFINE u == SetDims(v, flags)
<1>1. DOMAIN u = DOMAIN v /\ \A p \in DOMAIN v : u[p] = Flagged(v[p], flags)
  BY DEF SetDims
<1>2. \A p \in DOMAIN v : /\ u[p] \in BlockRecords
                          /\ u[p].id = v[p].id /\ u[p].parts = v[p].parts
  <2> SUFFICES ASSUME NEW p \in DOMAIN v
               PROVE  u[p] \in BlockRecords /\ u[p].id = v[p].id /\ u[p].parts = v[p].parts
    OBVIOUS
  <2>1. v[p] \in BlockRecords /\ u[p] = [v[p] EXCEPT !.z = flags.z, !.m = flags.m]
    BY <1>1 DEF Flagged, Tree
  <2>2. flags.z \in BOOLEAN /\ flags.m \in BOOLEAN
    BY DEF HasFlags
  <2> QED BY <2>1, <2>2 DEF BlockRecords
<1>3. u = [p \in DOMAIN u |-> u[p]]
  BY DEF SetDims
<1> HIDE DEF u
<1>4. u \in [DOMAIN u -> BlockRecords]
  BY <1>1, <1>2, <1>3
<1>5. Root(u).parts = Root(v).parts
  BY <1>2 DEF Root, Tree
<1>6. Tree(u)
  BY <1>1, <1>4, <1>5 DEF Tree
<1>7. Blocks(u) = Blocks(v)
  BY <1>1, <1>2 DEF Blocks
<1> QED BY <1>1, <1>6, <1>7 DEF u

\* Another root with the same number and the same parts keeps the rest.
LEMMA WithRootFacts ==
  ASSUME NEW v, NEW block \in BlockRecords, Tree(v),
         block.parts = Root(v).parts, block.id = Root(v).id
  PROVE  LET u == WithRoot(v, block)
         IN  /\ Tree(u) /\ Blocks(u) = Blocks(v) /\ DOMAIN u = DOMAIN v
             /\ Root(u) = block /\ \A p \in DOMAIN v : p # <<>> => u[p] = v[p]
<1> DEFINE u == WithRoot(v, block)
<1>1. DOMAIN u = DOMAIN v /\ Root(u) = block /\ \A p \in DOMAIN v : p # <<>> => u[p] = v[p]
  BY DEF WithRoot, Tree, Root
<1>2. u \in [DOMAIN u -> BlockRecords]
  BY DEF WithRoot, Tree
<1> HIDE DEF u
<1>3. Tree(u)
  BY <1>1, <1>2 DEF Tree
<1>4. \A p \in DOMAIN v : u[p].id = v[p].id
  BY <1>1 DEF Root
<1>5. Blocks(u) = Blocks(v)
  BY <1>1, <1>4 DEF Blocks
<1> QED BY <1>1, <1>3, <1>5 DEF u

\* The root is one of the blocks.
LEMMA RootId ==
  ASSUME NEW v, Tree(v)
  PROVE  Root(v).id \in Blocks(v) /\ Blocks(v) \subseteq Nat
BY DEF Tree, Root, Blocks, BlockRecords

-----------------------------------------------------------------------------
(* What the functions of the parser owe *)

\* A function that is given the blocks of C hands them all back in what it builds, with
\* those it made; or it has freed them all.
Contract(r, C) ==
  /\ r.new \in {{}, {heap.made + 1}, {heap.made + 1, heap.made + 2}}
  /\ IF r.error = "" THEN Tree(r.value) /\ r.freed = {} /\ Blocks(r.value) = C \cup r.new
     ELSE r.freed = C \cup r.new

\* What is between the brackets of a construct, if anything is.
Elements(acc) == acc = Nothing \/ Tree(acc)

\* No block is newer than the last one made.
Old(acc) == Blocks(acc) \subseteq 1 .. heap.made

\* What a fresh block is.
LEMMA BlockFacts ==
  ASSUME NEW id \in Nat, NEW type \in Types, NEW flags, HasFlags(flags), NEW pts \in Seq(Seq(Int))
  PROVE  LET b == Block(id, type, flags, pts)
         IN  /\ b \in BlockRecords /\ b.parts = 0 /\ b.id = id /\ b.type = type
             /\ b.z = flags.z /\ b.m = flags.m /\ b.pts = pts
BY DEF Block, BlockRecords, HasFlags

\* A geometry without parts is one block.
LEMMA BuiltFacts ==
  ASSUME NEW id \in Nat, NEW type \in Types, NEW flags, HasFlags(flags)
  PROVE  LET b == Built(id, type, flags)
         IN  /\ Tree(b) /\ Blocks(b) = {id} /\ Root(b) = Block(id, type, flags, <<>>)
             /\ Root(b).id = id /\ Root(b).parts = 0
<1>1. <<>> \in Seq(Seq(Int))
  OBVIOUS
<1> DEFINE b == Block(id, type, flags, <<>>)
<1>2. b \in BlockRecords /\ b.parts = 0 /\ b.id = id
  BY <1>1 DEF Block, BlockRecords, HasFlags
<1> HIDE DEF b
<1>3. Tree(Leaf(b)) /\ Root(Leaf(b)) = b /\ Blocks(Leaf(b)) = {id}
  BY <1>2, LeafFacts
<1> QED BY <1>2, <1>3 DEF Built, b

\* What is handed on with the new blocks is not lost.
LEMMA ReturnedContract ==
  ASSUME NEW v, Tree(v), NEW C, NEW new, Blocks(v) = C \cup new,
         new \in {{}, {heap.made + 1}, {heap.made + 1, heap.made + 2}}
  PROVE  Contract(Returned(v, new), C)
<1> DEFINE r == Returned(v, new)
<1>1. r.value = v /\ r.new = new /\ r.freed = {} /\ r.error = ""
  BY DEF Returned
<1> HIDE DEF r
<1>2. Contract(r, C)
  BY <1>1 DEF Contract
<1> QED BY <1>2 DEF r

\* What is freed with the new blocks is not lost.
LEMMA RefusedContract ==
  ASSUME NEW error, error # "", NEW C, NEW new,
         new \in {{}, {heap.made + 1}, {heap.made + 1, heap.made + 2}}
  PROVE  Contract(Refused(error, new, C \cup new), C)
<1> DEFINE r == Refused(error, new, C \cup new)
<1>1. r.new = new /\ r.freed = C \cup new /\ r.error = error
  BY DEF Refused
<1> HIDE DEF r
<1>2. Contract(r, C)
  BY <1>1 DEF Contract
<1> QED BY <1>2 DEF r

\* A tree with one more part has the blocks of both.
LEMMA WithTree ==
  ASSUME NEW v, NEW w, Tree(v), Tree(w)
  PROVE  Tree(With(v, w)) /\ Blocks(With(v, w)) = Blocks(v) \cup Blocks(w)
BY ONLY WithFacts, Tree(v), Tree(w)

\* An empty geometry takes nothing and makes one block.
LEMMA EmptyNewContract ==
  ASSUME heap.made \in Nat, NEW type \in Types, NEW flags, HasFlags(flags)
  PROVE  Contract(EmptyNew(type, flags), {})
<1>1. Fresh \in Nat /\ Fresh = heap.made + 1
  BY DEF Fresh
<1>2. Tree(Built(Fresh, type, flags)) /\ Blocks(Built(Fresh, type, flags)) = {Fresh}
  BY <1>1, BuiltFacts
<1> QED BY <1>1, <1>2, ReturnedContract DEF EmptyNew

\* The root says which dimensions there are.
LEMMA TreeFlags ==
  ASSUME NEW v, Tree(v)
  PROVE  HasFlags(Root(v))
BY DEF Tree, Root, HasFlags, BlockRecords

\* Letters change no block's owner.
LEMMA HarmonizedFacts ==
  ASSUME NEW v, Tree(v), NEW flags, HasFlags(flags)
  PROVE  Tree(Harmonized(v, flags)) /\ Blocks(Harmonized(v, flags)) = Blocks(v)
         /\ Root(Harmonized(v, flags)).parts = Root(v).parts
<1>1. CASE NDims(flags) > 2
  <2>1. Harmonized(v, flags) = SetDims(v, flags)
    BY <1>1 DEF Harmonized
  <2>2. SetDims(v, flags)[<<>>] = Flagged(v[<<>>], flags) /\ v[<<>>] \in BlockRecords
    BY SetDimsFacts DEF Tree
  <2>3. Root(SetDims(v, flags)).parts = Root(v).parts
    BY <2>2 DEF Flagged, Root, BlockRecords
  <2> QED BY <2>1, <2>3, SetDimsFacts
<1>2. CASE ~ (NDims(flags) > 2)
  BY <1>2 DEF Harmonized
<1> QED BY <1>1, <1>2

\* The constructors around one array: the array is in the geometry, or freed.
LEMMA AroundArrayContract ==
  ASSUME heap.made \in Nat, NEW type \in Types, NEW flags, HasFlags(flags), NEW faults,
         NEW array, Elements(array), Old(array)
  PROVE  Contract(AroundArray(type, array, flags, faults), Blocks(array))
<1> DEFINE r == AroundArray(type, array, flags, faults)
           whole == Harmonized(array, flags)
<1>1. CASE array = Nothing
  <2>1. r = EmptyNew(type, flags)
    BY <1>1 DEF AroundArray
  <2>2. Blocks(array) = {}
    BY <1>1, NothingBlocks
  <2> QED BY <2>1, <2>2, EmptyNewContract
<1>2. CASE array # Nothing
  <2>1. Tree(array)
    BY <1>2 DEF Elements
  <2>2. Root(array).id \in 1 .. heap.made
    BY <2>1, RootId DEF Old
  <2>3. After(array) = heap.made + 1
    BY <2>2 DEF After, Fresh
  <2>4. Tree(whole) /\ Blocks(whole) = Blocks(array) /\ HasFlags(Root(whole))
    BY <2>1, HarmonizedFacts, TreeFlags
  <2> DEFINE b == Built(After(array), type, Root(whole))
  <2>5. Tree(b) /\ Blocks(b) = {heap.made + 1}
    BY <2>3, <2>4, BuiltFacts
  <2> HIDE DEF b, whole
  <2>6. Tree(With(b, whole)) /\ Blocks(With(b, whole)) = Blocks(array) \cup {heap.made + 1}
    BY <2>4, <2>5, WithTree
  <2> DEFINE fault == IF Mismatch(array, flags) THEN "MIXDIMS" ELSE FirstFault(faults)
  <2>7. CASE fault # ""
    <3>1. r = Refused(fault, {}, Blocks(array))
      BY <1>2, <2>7 DEF AroundArray, whole
    <3>2. Contract(Refused(fault, {}, Blocks(array) \cup {}), Blocks(array))
      BY <2>7, RefusedContract
    <3>3. Blocks(array) \cup {} = Blocks(array)
      OBVIOUS
    <3> QED BY <3>1, <3>2, <3>3
  <2>8. CASE ~ (fault # "")
    <3>1. r = Returned(With(b, whole), {heap.made + 1})
      BY <1>2, <2>8, <2>3 DEF AroundArray, b, whole
    <3> QED BY <3>1, <2>6, ReturnedContract
  <2> QED BY <2>7, <2>8
<1> QED BY <1>1, <1>2

\* wkt_parser_ptarray_new
LEMMA PtarrayNewContract ==
  ASSUME heap.made \in Nat, NEW c, HasFlags(c), c.point \in Seq(Int)
  PROVE  Contract(PtarrayNew(c), {})
<1>1. Fresh \in Nat /\ Fresh = heap.made + 1
  BY DEF Fresh
<1> DEFINE pts == <<c.point>>
           b == Block(Fresh, "array", c, pts)
<1>2. pts \in Seq(Seq(Int))
  OBVIOUS
<1> HIDE DEF pts
<1>3. b \in BlockRecords /\ b.parts = 0 /\ b.id = Fresh
  BY <1>1, <1>2 DEF Block, BlockRecords, HasFlags, Types
<1> HIDE DEF b
<1>4. Tree(Leaf(b)) /\ Blocks(Leaf(b)) = {} \cup {Fresh}
  BY <1>3, LeafFacts
<1>5. Contract(Returned(Leaf(b), {Fresh}), {})
  BY <1>1, <1>4, ReturnedContract
<1> QED BY <1>5 DEF PtarrayNew, b, pts

\* wkt_parser_ptarray_add_coord
LEMMA PtarrayAddCoordContract ==
  ASSUME NEW array, Tree(array), NEW c, c.point \in Seq(Int)
  PROVE  Contract(PtarrayAddCoord(array, c), Blocks(array))
<1> DEFINE pts == Append(Root(array).pts, c.point)
           b == [Root(array) EXCEPT !.pts = Append(@, c.point)]
<1>1. Root(array) \in BlockRecords
  BY TreeSet
<1>2. pts \in Seq(Seq(Int))
  BY <1>1 DEF BlockRecords
<1>3. b = [Root(array) EXCEPT !.pts = pts]
  OBVIOUS
<1> HIDE DEF b, pts
<1>4. b \in BlockRecords /\ b.parts = Root(array).parts /\ b.id = Root(array).id
  BY <1>1, <1>2, <1>3 DEF BlockRecords
<1>5. Tree(WithRoot(array, b)) /\ Blocks(WithRoot(array, b)) = Blocks(array) \cup {}
  BY <1>4, WithRootFacts
<1>6. Contract(Returned(WithRoot(array, b), {}), Blocks(array))
  BY <1>5, ReturnedContract
<1>7. Contract(Refused("MIXDIMS", {}, Blocks(array) \cup {}), Blocks(array))
  BY RefusedContract
<1>8. Blocks(array) \cup {} = Blocks(array)
  OBVIOUS
<1> QED BY <1>6, <1>7, <1>8 DEF PtarrayAddCoord, b

\* A ring and its polygon are one geometry after it, or both freed.
LEMMA RingAddedContract ==
  ASSUME NEW poly, NEW ring, Tree(poly), Tree(ring), NEW fault
  PROVE  Contract(RingAdded(poly, ring, fault), Blocks(poly) \cup Blocks(ring))
<1> DEFINE C == Blocks(poly) \cup Blocks(ring)
<1>1. Tree(With(poly, ring)) /\ Blocks(With(poly, ring)) = C \cup {}
  BY WithTree
<1>2. Blocks(ring) \cup Blocks(poly) = C \cup {}
  OBVIOUS
<1> HIDE DEF C
<1>3. Contract(Returned(With(poly, ring), {}), C)
  BY <1>1, ReturnedContract
<1>4. fault # "" => Contract(Refused(fault, {}, C \cup {}), C)
  BY RefusedContract
<1> QED BY <1>2, <1>3, <1>4 DEF RingAdded, C

\* The new blocks of a result can be named again.
LEMMA NewReturned ==
  ASSUME NEW w, NEW new, NEW other
  PROVE  [Returned(w, other) EXCEPT !.new = new] = Returned(w, new)
<1> DEFINE e == ""
<1> HIDE DEF e
<1>1. [[value |-> w, new |-> other, freed |-> {}, error |-> e] EXCEPT !.new = new]
        = [value |-> w, new |-> new, freed |-> {}, error |-> e]
  OBVIOUS
<1> QED BY <1>1 DEF Returned, e

\* The same for an error.
LEMMA NewRefused ==
  ASSUME NEW error, NEW freed, NEW new, NEW other
  PROVE  [Refused(error, other, freed) EXCEPT !.new = new] = Refused(error, new, freed)
BY DEF Refused

\* wkt_parser_polygon_new and wkt_parser_curvepolygon_new
LEMMA FirstRingContract ==
  ASSUME heap.made \in Nat, NEW ring, Tree(ring), NEW type \in Types, NEW fault
  PROVE  Contract([RingAdded(Built(Fresh, type, Root(ring)), ring, fault) EXCEPT !.new = {Fresh}],
                  Blocks(ring))
<1> DEFINE C == Blocks(ring)
           poly == Built(Fresh, type, Root(ring))
           r == [RingAdded(poly, ring, fault) EXCEPT !.new = {Fresh}]
<1>1. Fresh \in Nat /\ Fresh = heap.made + 1
  BY DEF Fresh
<1>2. Tree(poly) /\ Blocks(poly) = {Fresh}
  BY <1>1, TreeFlags, BuiltFacts
<1> HIDE DEF poly
<1>3. Tree(With(poly, ring)) /\ Blocks(With(poly, ring)) = C \cup {Fresh}
  BY <1>2, WithTree
<1>4. CASE fault # ""
  <2>1. RingAdded(poly, ring, fault) = Refused(fault, {}, Blocks(ring) \cup Blocks(poly))
    BY <1>4 DEF RingAdded
  <2>2. r = Refused(fault, {Fresh}, C \cup {Fresh})
    BY <2>1, <1>2 DEF Refused
  <2> HIDE DEF r, C
  <2>3. Contract(r, C)
    BY <2>2, <1>1, <1>4, RefusedContract
  <2> QED BY <2>3 DEF r, C, poly
<1>5. CASE ~ (fault # "")
  <2>1. RingAdded(poly, ring, fault) = Returned(With(poly, ring), {})
    BY <1>5 DEF RingAdded
  <2> DEFINE w == With(poly, ring)
  <2>2. r = Returned(w, {Fresh})
    <3>1. [Returned(w, {}) EXCEPT !.new = {Fresh}] = Returned(w, {Fresh})
      BY NewReturned
    <3> QED BY <2>1, <3>1
  <2> HIDE DEF r, C
  <2>3. Contract(r, C)
    BY <2>2, <1>1, <1>3, ReturnedContract
  <2> QED BY <2>3 DEF r, C, poly
<1> QED BY <1>4, <1>5

\* wkt_parser_polygon_finalize
LEMMA PolygonFinalizeContract ==
  ASSUME heap.made \in Nat, NEW type \in Types, NEW poly, Elements(poly), NEW flags, HasFlags(flags)
  PROVE  Contract(PolygonFinalize(type, poly, flags), Blocks(poly))
<1> DEFINE C == Blocks(poly)
<1>1. CASE poly = Nothing
  <2>1. C = {}
    BY <1>1, NothingBlocks
  <2> QED BY <1>1, <2>1, EmptyNewContract DEF PolygonFinalize
<1>2. CASE poly # Nothing
  <2>1. Tree(poly)
    BY <1>2 DEF Elements
  <2>2. Tree(Harmonized(poly, flags)) /\ Blocks(Harmonized(poly, flags)) = C \cup {}
    BY <2>1, HarmonizedFacts
  <2>3. Contract(Returned(Harmonized(poly, flags), {}), C)
    BY <2>2, ReturnedContract
  <2>4. Contract(Refused("MIXDIMS", {}, C \cup {}), C)
    BY RefusedContract
  <2>5. C \cup {} = C
    OBVIOUS
  <2> QED BY <1>2, <2>3, <2>4, <2>5 DEF PolygonFinalize
<1> QED BY <1>1, <1>2

\* wkt_parser_collection_new
LEMMA CollectionNewContract ==
  ASSUME heap.made \in Nat, NEW g, Tree(g)
  PROVE  Contract(CollectionNew(g), Blocks(g))
<1> DEFINE b == Built(Fresh, "GEOMETRYCOLLECTION", Root(g))
<1>1. Fresh \in Nat /\ Fresh = heap.made + 1 /\ "GEOMETRYCOLLECTION" \in Types
  BY DEF Fresh, Types, Keywords
<1>2. Tree(b) /\ Blocks(b) = {Fresh}
  BY <1>1, TreeFlags, BuiltFacts
<1> HIDE DEF b
<1>3. Tree(With(b, g)) /\ Blocks(With(b, g)) = Blocks(g) \cup {Fresh}
  BY <1>2, WithTree
<1>4. Contract(Returned(With(b, g), {Fresh}), Blocks(g))
  BY <1>1, <1>3, ReturnedContract
<1> QED BY <1>4 DEF CollectionNew, b

\* wkt_parser_collection_add_geom
LEMMA CollectionAddContract ==
  ASSUME NEW col, NEW g, Tree(col), Tree(g)
  PROVE  Contract(CollectionAddGeom(col, g), Blocks(col) \cup Blocks(g))
<1> DEFINE C == Blocks(col) \cup Blocks(g)
<1>1. Tree(With(col, g)) /\ Blocks(With(col, g)) = C \cup {}
  BY WithTree
<1> HIDE DEF C
<1>2. Contract(Returned(With(col, g), {}), C)
  BY <1>1, ReturnedContract
<1> QED BY <1>2 DEF CollectionAddGeom, C

\* wkt_parser_compound_new
LEMMA CompoundNewContract ==
  ASSUME heap.made \in Nat, NEW g, Tree(g)
  PROVE  Contract(CompoundNew(g), Blocks(g))
<1>1. Contract(Refused("INCONTINUOUS", {}, Blocks(g) \cup {}), Blocks(g))
  BY RefusedContract
<1>2. Blocks(g) \cup {} = Blocks(g)
  OBVIOUS
<1> QED BY <1>1, <1>2, CollectionNewContract DEF CompoundNew

\* wkt_parser_compound_add_geom
LEMMA CompoundAddContract ==
  ASSUME NEW col, NEW g, Tree(col), Tree(g)
  PROVE  Contract(CompoundAddGeom(col, g), Blocks(col) \cup Blocks(g))
<1> DEFINE C == Blocks(col) \cup Blocks(g)
<1>1. C \cup {} = C
  OBVIOUS
<1>2. CompoundFault(col, g) # "" => Contract(Refused(CompoundFault(col, g), {}, C \cup {}), C)
  BY RefusedContract
<1> QED BY <1>1, <1>2, CollectionAddContract DEF CompoundAddGeom

\* wkt_parser_collection_finalize
LEMMA CollectionFinalizeContract ==
  ASSUME heap.made \in Nat, NEW type \in Types, NEW col, Elements(col), NEW flags, HasFlags(flags)
  PROVE  Contract(CollectionFinalize(type, col, flags), Blocks(col))
<1> DEFINE C == Blocks(col)
           whole == Harmonized(col, flags)
           b == [Root(whole) EXCEPT !.type = type]
<1>1. CASE col = Nothing
  <2>1. C = {}
    BY <1>1, NothingBlocks
  <2> QED BY <1>1, <2>1, EmptyNewContract DEF CollectionFinalize
<1>2. CASE col # Nothing
  <2>1. Tree(col)
    BY <1>2 DEF Elements
  <2>2. Tree(whole) /\ Blocks(whole) = C
    BY <2>1, HarmonizedFacts
  <2> HIDE DEF whole, C
  <2>3. Root(whole) \in BlockRecords
    BY <2>2, TreeSet
  <2>4. b \in BlockRecords /\ b.parts = Root(whole).parts /\ b.id = Root(whole).id
    BY <2>3 DEF BlockRecords
  <2> HIDE DEF b
  <2>5. Tree(WithRoot(whole, b)) /\ Blocks(WithRoot(whole, b)) = C \cup {}
    BY <2>2, <2>4, WithRootFacts
  <2>6. Contract(Returned(WithRoot(whole, b), {}), C)
    BY <2>5, ReturnedContract
  <2>7. Contract(Refused("MIXDIMS", {}, C \cup {}), C)
    BY RefusedContract
  <2>8. C \cup {} = C
    OBVIOUS
  <2>9. \/ CollectionFinalize(type, col, flags) = Refused("MIXDIMS", {}, C)
        \/ CollectionFinalize(type, col, flags) = Returned(WithRoot(whole, b), {})
    BY <1>2 DEF CollectionFinalize, C, whole, b
  <2>10. Contract(CollectionFinalize(type, col, flags), C)
    BY <2>6, <2>7, <2>8, <2>9
  <2> QED BY <2>10 DEF C
<1> QED BY <1>1, <1>2

-----------------------------------------------------------------------------
(* The constructs *)

\* Constructs with a name, and those that a bracket begins.
Constructs ==
  Keywords \cup {"polygon_untagged", "patch", "ring", "linestring_untagged", "triangle_untagged",
                 "point_untagged"}

\* The constructs a name can stand for, those without one, and those with coordinates.
LEMMA GrammarFacts ==
  /\ DOMAIN Grammar = Constructs
  /\ \A c \in Constructs :
       /\ Grammar[c].names \subseteq Keywords
       /\ Grammar[c].bare \in Constructs \cup {"none"}
       /\ Grammar[c].bare \notin Keywords
<1>1. DOMAIN Grammar = Constructs
  BY DEF Grammar, Constructs, Keywords
<1> DEFINE Rules == {GeometryList, SurfaceList, TriangleList, PolygonList, PatchList, RingList,
                     CurveringList, CompoundList, CurveList, LinestringList, PointList, Ptarray}
<1>2. \A c \in Constructs : Grammar[c] \in Rules
  BY DEF Grammar, Constructs, Keywords
<1>3. \A rule \in Rules : /\ rule.names \subseteq Keywords
                          /\ rule.bare \in Constructs \cup {"none"}
                          /\ rule.bare \notin Keywords
  BY DEF Rule, GeometryList, SurfaceList, TriangleList, PolygonList, PatchList, RingList,
         CurveringList, CompoundList, CurveList, LinestringList, PointList, Ptarray,
         Constructs, Keywords
<1> QED BY <1>1, <1>2, <1>3

\* What closes a construct hands on all of its elements.
LEMMA ReductionContract ==
  ASSUME heap.made \in Nat, NEW construct \in Constructs, NEW acc, Elements(acc), Old(acc),
         construct = "ring" => acc # Nothing, NEW flags, HasFlags(flags)
  PROVE  Contract(Reduction(construct, acc, flags), Blocks(acc))
<1> DEFINE r == Reduction(construct, acc, flags)
<1>1. \A name \in {"POINT", "LINESTRING", "CIRCULARSTRING", "TRIANGLE", "POLYGON", "CURVEPOLYGON"} :
        name \in Types
  BY DEF Types, Keywords
<1>2. CASE construct \in {"POINT", "point_untagged"}
  BY <1>2, <1>1, AroundArrayContract DEF Reduction, PointNew
<1>3. CASE construct \in {"LINESTRING", "linestring_untagged"}
  BY <1>3, <1>1, AroundArrayContract DEF Reduction, LinestringNew
<1>4. CASE construct = "CIRCULARSTRING"
  BY <1>4, <1>1, AroundArrayContract DEF Reduction, CircularstringNew
<1>5. CASE construct \in {"TRIANGLE", "triangle_untagged"}
  BY <1>5, <1>1, AroundArrayContract DEF Reduction, TriangleNew
<1>6. Tree(acc) => Contract(Returned(acc, {}), Blocks(acc))
  <2>1. Blocks(acc) = Blocks(acc) \cup {}
    OBVIOUS
  <2> QED BY <2>1, ReturnedContract
<1>7. CASE construct = "ring"
  BY <1>6, <1>7 DEF Reduction, Elements
<1>8. CASE construct \in {"polygon_untagged", "patch"}
  <2>1. r = IF acc = Nothing THEN EmptyNew("POLYGON", flags) ELSE Returned(acc, {})
    BY <1>8 DEF Reduction
  <2>2. acc = Nothing => Blocks(acc) = {}
    BY NothingBlocks
  <2>3. Contract(EmptyNew("POLYGON", flags), {})
    BY <1>1, EmptyNewContract
  <2> HIDE DEF r
  <2>4. Contract(r, Blocks(acc))
    BY <1>6, <2>1, <2>2, <2>3 DEF Elements
  <2> QED BY <2>4 DEF r
<1>9. CASE construct \in {"POLYGON", "CURVEPOLYGON"}
  BY <1>1, <1>9, PolygonFinalizeContract DEF Reduction
<1>10. CASE construct \notin {"POINT", "point_untagged", "LINESTRING", "linestring_untagged",
                              "CIRCULARSTRING", "TRIANGLE", "triangle_untagged", "ring",
                              "polygon_untagged", "patch", "POLYGON", "CURVEPOLYGON"}
  <2>1. construct \in Types
    BY <1>10 DEF Constructs, Types
  <2> QED BY <2>1, <1>10, CollectionFinalizeContract DEF Reduction
<1> QED BY <1>2, <1>3, <1>4, <1>5, <1>7, <1>8, <1>9, <1>10

\* What adds an element hands on the elements so far and the new one.
LEMMA AdditionContract ==
  ASSUME heap.made \in Nat, NEW construct \in Constructs, NEW acc, Elements(acc), NEW v, Tree(v),
         construct \in Single => acc = Nothing
  PROVE  Contract(Addition(construct, acc, v), Blocks(acc) \cup Blocks(v))
<1> DEFINE C == Blocks(acc) \cup Blocks(v)
<1>1. /\ "POLYGON" \in Types /\ "CURVEPOLYGON" \in Types
  BY DEF Types, Keywords
<1>2. CASE acc = Nothing
  <2> DEFINE r == FirstElement(construct, v)
  <2>1. C = Blocks(v) /\ Blocks(v) = Blocks(v) \cup {}
    BY <1>2, NothingBlocks
  <2>2. Contract(PolygonNew(v, Dimcheck(construct)), Blocks(v))
    BY <1>1, FirstRingContract DEF PolygonNew, PolygonAddRing
  <2>3. Contract(CurvepolygonNew(v), Blocks(v))
    BY <1>1, FirstRingContract DEF CurvepolygonNew, CurvepolygonAddRing
  <2>4. Contract(Returned(v, {}), Blocks(v))
    BY <2>1, ReturnedContract
  <2>5. Contract(r, Blocks(v))
    BY <2>2, <2>3, <2>4, CompoundNewContract, CollectionNewContract DEF FirstElement
  <2>6. Addition(construct, acc, v) = r
    BY <1>2 DEF Addition
  <2> QED BY <2>1, <2>5, <2>6
<1>3. CASE acc # Nothing
  <2>1. Tree(acc) /\ construct \notin Single
    BY <1>3 DEF Elements
  <2>2. Contract(PolygonAddRing(acc, v, Dimcheck(construct)), C)
    BY <2>1, RingAddedContract DEF PolygonAddRing
  <2>3. Contract(CurvepolygonAddRing(acc, v), C)
    BY <2>1, RingAddedContract DEF CurvepolygonAddRing
  <2>4. Contract(CompoundAddGeom(acc, v), C) /\ Contract(CollectionAddGeom(acc, v), C)
    BY <2>1, CompoundAddContract, CollectionAddContract
  <2> HIDE DEF C
  <2>5. Contract(Addition(construct, acc, v), C)
    BY <1>3, <2>2, <2>3, <2>4 DEF Addition
  <2> QED BY <2>5 DEF C
<1> QED BY <1>2, <1>3

-----------------------------------------------------------------------------
(* The symbols on the stack, and who owns which blocks *)

States == {"named", "letters", "element", "after"}

Items == [construct : Constructs, state : States, dim : Nat, acc : Trees \cup {Nothing}]

\* Before the bracket there are no elements, behind an element there is one, and a construct
\* for a single element never asks for a second.
ItemOK(item) ==
  /\ Elements(item.acc)
  /\ item.state \in {"named", "letters"} => item.construct \in Keywords /\ item.acc = Nothing
  /\ item.state = "after" => item.acc # Nothing
  /\ item.state = "element" /\ item.construct \in Single => item.acc = Nothing

\* The blocks of the open constructs.
Owned(symbols) == UNION {Blocks(symbols[i].acc) : i \in DOMAIN symbols}

\* Every construct but the innermost waits for an element, and no two own the same block.
Stacked(symbols) ==
  /\ symbols \in Seq(Items)
  /\ \A i \in DOMAIN symbols : ItemOK(symbols[i])
  /\ \A i \in 1 .. Len(symbols) - 1 : symbols[i].state = "element"
  /\ \A i, j \in DOMAIN symbols : i # j => Blocks(symbols[i].acc) \cap Blocks(symbols[j].acc) = {}

\* Nothing is open.
LEMMA EmptyStacked == Stacked(<<>>) /\ Owned(<<>>) = {}
<1>1. <<>> \in Seq(Items) /\ DOMAIN <<>> = {} /\ Len(<<>>) = 0
  OBVIOUS
<1> QED BY <1>1 DEF Stacked, Owned

\* The numbers of blocks.
LEMMA ElementsBlocks ==
  ASSUME NEW acc, Elements(acc)
  PROVE  Blocks(acc) \subseteq Nat
BY RootId, NothingBlocks DEF Elements

\* One more construct is open.
LEMMA AppendStacked ==
  ASSUME NEW st, Stacked(st), NEW item \in Items, ItemOK(item),
         st # <<>> => st[Len(st)].state = "element",
         Owned(st) \cap Blocks(item.acc) = {}
  PROVE  LET s == Append(st, item)
         IN  /\ Stacked(s) /\ Owned(s) = Owned(st) \cup Blocks(item.acc)
             /\ s # <<>> /\ s[Len(s)] = item
<1> DEFINE s == Append(st, item)
<1>1. st \in Seq(Items)
  BY DEF Stacked
<1>2. /\ s \in Seq(Items) /\ Len(s) = Len(st) + 1 /\ Len(st) \in Nat
      /\ \A i \in 1 .. Len(st) : s[i] = st[i]
      /\ s[Len(st) + 1] = item
  BY <1>1, AppendProperties, LenProperties
<1>3. DOMAIN st = 1 .. Len(st) /\ DOMAIN s = 1 .. Len(st) + 1
  BY <1>1, <1>2, LenProperties
<1> HIDE DEF s
<1>4. \A i \in DOMAIN s : ItemOK(s[i])
  <2>1. \A i \in DOMAIN st : ItemOK(st[i])
    BY DEF Stacked
  <2>2. \A i \in 1 .. Len(st) + 1 : i \in 1 .. Len(st) \/ i = Len(st) + 1
    BY <1>2
  <2> QED BY <1>2, <1>3, <2>1, <2>2
<1>5. \A i \in 1 .. Len(s) - 1 : s[i].state = "element"
  <2> SUFFICES ASSUME NEW i \in 1 .. Len(s) - 1 PROVE s[i].state = "element"
    OBVIOUS
  <2>1. i \in 1 .. Len(st) /\ s[i] = st[i]
    BY <1>2
  <2>2. CASE i \in 1 .. Len(st) - 1
    BY <2>1, <2>2 DEF Stacked
  <2>3. CASE i = Len(st)
    <3>1. st # <<>>
      BY <1>1, <2>1, EmptySeq, LenProperties
    <3> QED BY <3>1, <2>1, <2>3
  <2> QED BY <1>2, <2>1, <2>2, <2>3
<1>6. \A i \in DOMAIN st : Blocks(st[i].acc) \subseteq Owned(st)
  BY DEF Owned
<1>7. ASSUME NEW i \in DOMAIN s, NEW j \in DOMAIN s, i # j
      PROVE  Blocks(s[i].acc) \cap Blocks(s[j].acc) = {}
  <2>1. CASE i \in 1 .. Len(st) /\ j \in 1 .. Len(st)
    <3>1. s[i] = st[i] /\ s[j] = st[j] /\ i \in DOMAIN st /\ j \in DOMAIN st
      BY <2>1, <1>2, <1>3
    <3> QED BY <3>1, <1>7 DEF Stacked
  <2>2. CASE i \in 1 .. Len(st) /\ j = Len(st) + 1
    <3>1. s[i] = st[i] /\ s[j] = item /\ i \in DOMAIN st
      BY <2>2, <1>2, <1>3
    <3> QED BY <3>1, <1>6
  <2>3. CASE i = Len(st) + 1 /\ j \in 1 .. Len(st)
    <3>1. s[i] = item /\ s[j] = st[j] /\ j \in DOMAIN st
      BY <2>3, <1>2, <1>3
    <3> QED BY <3>1, <1>6
  <2>4. /\ i \in 1 .. Len(st) \/ i = Len(st) + 1
        /\ j \in 1 .. Len(st) \/ j = Len(st) + 1
    BY <1>2, <1>3
  <2> QED BY <1>7, <2>1, <2>2, <2>3, <2>4
<1>8. Owned(s) = Owned(st) \cup Blocks(item.acc)
  <2>1. ASSUME NEW i \in DOMAIN s PROVE Blocks(s[i].acc) \subseteq Owned(st) \cup Blocks(item.acc)
    <3>1. CASE i \in DOMAIN st
      BY <3>1, <1>2, <1>3, <1>6
    <3>2. CASE i = Len(st) + 1
      BY <3>2, <1>2
    <3>3. i \in DOMAIN st \/ i = Len(st) + 1
      BY <1>2, <1>3
    <3> QED BY <3>1, <3>2, <3>3
  <2>2. ASSUME NEW i \in DOMAIN st PROVE Blocks(st[i].acc) \subseteq Owned(s)
    <3>1. i \in DOMAIN s /\ s[i] = st[i]
      BY <1>2, <1>3
    <3> QED BY <3>1 DEF Owned
  <2>3. Blocks(item.acc) \subseteq Owned(s)
    <3>1. Len(st) + 1 \in DOMAIN s /\ s[Len(st) + 1] = item
      BY <1>2, <1>3
    <3> QED BY <3>1 DEF Owned
  <2>4. Owned(s) \subseteq Owned(st) \cup Blocks(item.acc)
    BY <2>1 DEF Owned
  <2>5. Owned(st) \subseteq Owned(s)
    BY <2>2 DEF Owned
  <2> QED BY <2>3, <2>4, <2>5
<1>9. s # <<>> /\ s[Len(s)] = item
  BY <1>2, EmptySeq
<1>10. Stacked(s)
  BY <1>2, <1>4, <1>5, <1>7 DEF Stacked
<1> QED BY <1>8, <1>9, <1>10 DEF s

\* The innermost construct and those around it.
LEMMA FrontStacked ==
  ASSUME NEW st, Stacked(st), st # <<>>
  PROVE  LET s == Front(st)
             top == st[Len(st)]
         IN  /\ Stacked(s) /\ top \in Items /\ ItemOK(top)
             /\ Owned(st) = Owned(s) \cup Blocks(top.acc)
             /\ Owned(s) \cap Blocks(top.acc) = {}
             /\ s # <<>> => s[Len(s)].state = "element"
<1> DEFINE s == Front(st)
           top == st[Len(st)]
<1>1. st \in Seq(Items) /\ Len(st) \in Nat /\ Len(st) # 0 /\ DOMAIN st = 1 .. Len(st)
  BY EmptySeq, LenProperties DEF Stacked
<1>2. /\ s = [i \in 1 .. Len(st) - 1 |-> st[i]]
      /\ \A i \in 1 .. Len(st) - 1 : st[i] \in Items
  <2>1. \A i \in 1 .. Len(st) : st[i] \in Items
    BY <1>1, ElementOfSeq
  <2>2. s = SubSeq(st, 1, Len(st) - 1)
    BY DEF Front
  <2>3. SubSeq(st, 1, Len(st) - 1) = [i \in 1 .. Len(st) - 1 |-> st[i]]
    <3>1. Len(st) - 1 \in Nat
      BY <1>1
    <3> QED BY <1>1, <3>1
  <2> QED BY <2>1, <2>2, <2>3, <1>1
<1>3. Len(st) - 1 \in Nat
  BY <1>1
<1>4. s \in Seq(Items) /\ Len(s) = Len(st) - 1 /\ DOMAIN s = 1 .. Len(st) - 1
  BY <1>2, <1>3, IsASeq
<1>5. \A i \in 1 .. Len(st) - 1 : s[i] = st[i] /\ i \in DOMAIN st
  BY <1>1, <1>2
<1> HIDE DEF s
<1>6. Stacked(s)
  <2>1. \A i \in DOMAIN s : ItemOK(s[i])
    BY <1>4, <1>5 DEF Stacked
  <2>2. \A i \in 1 .. Len(s) - 1 : s[i].state = "element"
    <3>1. \A i \in 1 .. Len(s) - 1 : i \in 1 .. Len(st) - 1
      BY <1>1, <1>4
    <3> QED BY <3>1, <1>5 DEF Stacked
  <2>3. \A i, j \in DOMAIN s : i # j => Blocks(s[i].acc) \cap Blocks(s[j].acc) = {}
    <3> SUFFICES ASSUME NEW i \in DOMAIN s, NEW j \in DOMAIN s, i # j
                 PROVE  Blocks(s[i].acc) \cap Blocks(s[j].acc) = {}
      OBVIOUS
    <3>1. s[i] = st[i] /\ s[j] = st[j] /\ i \in DOMAIN st /\ j \in DOMAIN st
      BY <1>4, <1>5
    <3> QED BY <3>1 DEF Stacked
  <2> QED BY <1>4, <2>1, <2>2, <2>3 DEF Stacked
<1>7. Len(st) \in DOMAIN st
  BY <1>1
<1>8. top \in Items /\ ItemOK(top)
  BY <1>1, <1>7, ElementOfSeq DEF Stacked
<1>9. \A i \in DOMAIN s : Blocks(s[i].acc) \cap Blocks(top.acc) = {}
  <2> SUFFICES ASSUME NEW i \in DOMAIN s PROVE Blocks(s[i].acc) \cap Blocks(top.acc) = {}
    OBVIOUS
  <2>1. s[i] = st[i] /\ i \in DOMAIN st /\ i # Len(st)
    BY <1>1, <1>4, <1>5
  <2> QED BY <2>1, <1>7 DEF Stacked
<1>10. Owned(s) \cap Blocks(top.acc) = {}
  BY <1>9 DEF Owned
<1>11. Owned(st) = Owned(s) \cup Blocks(top.acc)
  <2>1. ASSUME NEW i \in DOMAIN st PROVE Blocks(st[i].acc) \subseteq Owned(s) \cup Blocks(top.acc)
    <3>1. CASE i = Len(st)
      BY <3>1
    <3>2. CASE i # Len(st)
      <4>1. i \in DOMAIN s /\ s[i] = st[i]
        BY <3>2, <1>1, <1>4, <1>5
      <4> QED BY <4>1 DEF Owned
    <3> QED BY <3>1, <3>2
  <2>2. ASSUME NEW i \in DOMAIN s PROVE Blocks(s[i].acc) \subseteq Owned(st)
    <3>1. i \in DOMAIN st /\ s[i] = st[i]
      BY <1>4, <1>5
    <3> QED BY <3>1 DEF Owned
  <2>3. Blocks(top.acc) \subseteq Owned(st)
    BY <1>7 DEF Owned
  <2>4. Owned(st) \subseteq Owned(s) \cup Blocks(top.acc)
    BY <2>1 DEF Owned
  <2>5. Owned(s) \subseteq Owned(st)
    BY <2>2 DEF Owned
  <2> QED BY <2>3, <2>4, <2>5
<1>12. s # <<>> => s[Len(s)].state = "element"
  <2> SUFFICES ASSUME s # <<>> PROVE s[Len(s)].state = "element"
    OBVIOUS
  <2>1. Len(s) # 0
    BY <1>4, EmptySeq
  <2>2. Len(s) \in 1 .. Len(st) - 1
    BY <1>1, <1>4, <2>1
  <2> QED BY <2>2, <1>5 DEF Stacked
<1> QED BY <1>6, <1>8, <1>10, <1>11, <1>12 DEF s

-----------------------------------------------------------------------------
(* The heap *)

HeapType == heap \in [live : SUBSET Nat, made : Nat, twice : BOOLEAN]

\* New blocks, and none freed.
LEMMA FreedNothing ==
  ASSUME HeapType, ~ heap.twice, NEW new, Freed(new, <<{}>>)
  PROVE  heap' = [live |-> heap.live \cup new, made |-> heap.made + Cardinality(new), twice |-> FALSE]
<1> DEFINE owners == <<{}>>
<1>1. DOMAIN owners = {1} /\ owners[1] = {}
  OBVIOUS
<1> HIDE DEF owners
<1>2. UNION ToSet(owners) = {}
  BY <1>1 DEF ToSet
<1>3. ~ \E i, j \in DOMAIN owners : i # j /\ owners[i] \cap owners[j] # {}
  BY <1>1
<1>4. Freed(new, owners)
  BY DEF owners
<1> DEFINE twice == \/ heap.twice
                    \/ ~ (UNION ToSet(owners) \subseteq heap.live \cup new)
                    \/ \E i, j \in DOMAIN owners : i # j /\ owners[i] \cap owners[j] # {}
<1>5. twice = FALSE
  BY <1>2, <1>3
<1>6. heap' = [live |-> (heap.live \cup new) \ UNION ToSet(owners),
               made |-> heap.made + Cardinality(new), twice |-> twice]
  BY <1>4 DEF Freed
<1> HIDE DEF twice
<1>7. (heap.live \cup new) \ UNION ToSet(owners) = heap.live \cup new
  BY <1>2
<1> QED BY <1>5, <1>6, <1>7

\* Every live block is freed, by one owner each: none is left, none freed twice.
LEMMA FreedAll ==
  ASSUME HeapType, ~ heap.twice, NEW new, NEW symbols, Stacked(symbols),
         NEW freed \in SUBSET Nat, NEW whole \in SUBSET Nat,
         freed \cup whole \cup Owned(symbols) = heap.live \cup new,
         freed \cap whole = {}, freed \cap Owned(symbols) = {}, whole \cap Owned(symbols) = {},
         Freed(new, <<freed, whole>> \o [i \in DOMAIN symbols |-> Blocks(symbols[i].acc)])
  PROVE  heap' = [live |-> {}, made |-> heap.made + Cardinality(new), twice |-> FALSE]
<1> DEFINE accs == [i \in DOMAIN symbols |-> Blocks(symbols[i].acc)]
           two == <<freed, whole>>
           owners == two \o accs
           n == Len(symbols)
<1>1. symbols \in Seq(Items) /\ n \in Nat /\ DOMAIN symbols = 1 .. n
  BY LenProperties DEF Stacked
<1>2. \A i \in 1 .. n : Blocks(symbols[i].acc) \in SUBSET Nat
  BY <1>1, ElementsBlocks DEF Stacked, ItemOK
<1>3. accs \in Seq(SUBSET Nat) /\ Len(accs) = n
  <2>1. accs = [i \in 1 .. n |-> Blocks(symbols[i].acc)]
    BY <1>1
  <2> HIDE DEF n
  <2> QED BY <1>1, <1>2, <2>1, IsASeq
<1>4. \A i \in 1 .. n : accs[i] = Blocks(symbols[i].acc)
  BY <1>1
<1>5. two \in Seq(SUBSET Nat) /\ Len(two) = 2 /\ two[1] = freed /\ two[2] = whole
  OBVIOUS
<1> HIDE DEF accs, two
<1>6. /\ owners \in Seq(SUBSET Nat) /\ Len(owners) = 2 + n
      /\ \A i \in 1 .. 2 + n : owners[i] = IF i <= 2 THEN two[i] ELSE accs[i - 2]
  <2>1. /\ owners \in Seq(SUBSET Nat) /\ Len(owners) = Len(two) + Len(accs)
        /\ \A i \in 1 .. Len(two) + Len(accs) :
             owners[i] = IF i <= Len(two) THEN two[i] ELSE accs[i - Len(two)]
    <3>1. two \in Seq(SUBSET Nat) /\ accs \in Seq(SUBSET Nat)
      BY <1>3, <1>5
    <3> QED BY ONLY <3>1, ConcatProperties
  <2> HIDE DEF owners
  <2> QED BY <2>1, <1>3, <1>5
<1>7. DOMAIN owners = 1 .. 2 + n
  BY <1>6, LenProperties
<1>8. owners[1] = freed /\ owners[2] = whole /\ \A i \in 1 .. n : owners[i + 2] = accs[i]
  <2>1. 1 \in 1 .. 2 + n /\ 2 \in 1 .. 2 + n
    BY <1>1
  <2>2. \A i \in 1 .. n : i + 2 \in 1 .. 2 + n /\ ~ (i + 2 <= 2) /\ (i + 2) - 2 = i
    BY <1>1
  <2> QED BY <1>5, <1>6, <2>1, <2>2
<1>9. Freed(new, owners)
  BY DEF owners, two, accs
<1> HIDE DEF owners
<1>10. \A i \in DOMAIN owners : i = 1 \/ i = 2 \/ (i - 2 \in 1 .. n /\ owners[i] = Blocks(symbols[i - 2].acc))
  <2> SUFFICES ASSUME NEW i \in 1 .. 2 + n, i # 1, i # 2
               PROVE  i - 2 \in 1 .. n /\ owners[i] = Blocks(symbols[i - 2].acc)
    BY <1>7
  <2>1. i - 2 \in 1 .. n /\ (i - 2) + 2 = i
    BY <1>1
  <2>2. owners[(i - 2) + 2] = accs[i - 2]
    BY <2>1, <1>8
  <2> QED BY <2>1, <2>2, <1>4
<1>11. UNION ToSet(owners) = freed \cup whole \cup Owned(symbols)
  <2>1. UNION ToSet(owners) = UNION {owners[i] : i \in DOMAIN owners}
    BY DEF ToSet
  <2>2. ASSUME NEW i \in DOMAIN owners PROVE owners[i] \subseteq freed \cup whole \cup Owned(symbols)
    <3>1. CASE i - 2 \in 1 .. n /\ owners[i] = Blocks(symbols[i - 2].acc)
      BY <3>1, <1>1 DEF Owned
    <3> QED BY <3>1, <1>8, <1>10
  <2>3. freed \subseteq UNION ToSet(owners) /\ whole \subseteq UNION ToSet(owners)
    <3>1. 1 \in DOMAIN owners /\ 2 \in DOMAIN owners
      BY <1>1, <1>7
    <3> QED BY <2>1, <3>1, <1>8
  <2>4. ASSUME NEW i \in DOMAIN symbols PROVE Blocks(symbols[i].acc) \subseteq UNION ToSet(owners)
    <3>1. i + 2 \in DOMAIN owners /\ owners[i + 2] = Blocks(symbols[i].acc)
      <4>1. i \in 1 .. n /\ i + 2 \in 1 .. 2 + n
        BY <1>1
      <4> QED BY <4>1, <1>4, <1>7, <1>8
    <3> QED BY <2>1, <3>1
  <2>5. Owned(symbols) \subseteq UNION ToSet(owners)
    BY <2>4 DEF Owned
  <2>6. UNION ToSet(owners) \subseteq freed \cup whole \cup Owned(symbols)
    BY <2>1, <2>2
  <2> QED BY <2>3, <2>5, <2>6
<1>12. \A i \in 1 .. n : Blocks(symbols[i].acc) \subseteq Owned(symbols)
  BY <1>1 DEF Owned
<1>13. ASSUME NEW i \in DOMAIN owners, NEW j \in DOMAIN owners, i # j
       PROVE  owners[i] \cap owners[j] = {}
  <2> DEFINE far(k) == k - 2 \in 1 .. n /\ owners[k] = Blocks(symbols[k - 2].acc)
  <2>1. far(i) => owners[i] \subseteq Owned(symbols)
    BY <1>12
  <2>2. far(j) => owners[j] \subseteq Owned(symbols)
    BY <1>12
  <2>3. far(i) /\ far(j) => owners[i] \cap owners[j] = {}
    <3> SUFFICES ASSUME far(i), far(j) PROVE owners[i] \cap owners[j] = {}
      OBVIOUS
    <3>1. i - 2 # j - 2 /\ i - 2 \in DOMAIN symbols /\ j - 2 \in DOMAIN symbols
      BY <1>1, <1>7, <1>13
    <3> QED BY <3>1 DEF Stacked
  <2>4. (i = 1 \/ i = 2 \/ far(i)) /\ (j = 1 \/ j = 2 \/ far(j))
    BY <1>10
  <2> HIDE DEF far
  <2>5. CASE far(i) /\ far(j)
    BY <2>3, <2>5
  <2>6. CASE (i = 1 \/ i = 2) /\ far(j)
    BY <2>2, <2>6, <1>8
  <2>7. CASE far(i) /\ (j = 1 \/ j = 2)
    BY <2>1, <2>7, <1>8
  <2>8. CASE (i = 1 \/ i = 2) /\ (j = 1 \/ j = 2)
    <3>1. owners[1] \cap owners[2] = {} /\ owners[2] \cap owners[1] = {}
      BY <1>8
    <3>2. (i = 1 /\ j = 2) \/ (i = 2 /\ j = 1)
      BY <2>8, <1>13
    <3> QED BY <3>1, <3>2
  <2> QED BY <2>4, <2>5, <2>6, <2>7, <2>8
<1> DEFINE all == UNION ToSet(owners)
           clash == \E i, j \in DOMAIN owners : i # j /\ owners[i] \cap owners[j] # {}
           twice == heap.twice \/ ~ (all \subseteq heap.live \cup new) \/ clash
<1>14. heap' = [live |-> (heap.live \cup new) \ all,
                made |-> heap.made + Cardinality(new), twice |-> twice]
  BY <1>9 DEF Freed
<1>15. all = heap.live \cup new
  BY <1>11
<1>16. ~ clash
  BY <1>13
<1> HIDE DEF all, clash
<1>17. twice = FALSE
  BY <1>15, <1>16
<1>18. (heap.live \cup new) \ all = {}
  BY <1>15
<1> HIDE DEF twice
<1> QED BY <1>14, <1>17, <1>18

\* Blocks that are made are newer than all before.
LEMMA NewBlocks ==
  ASSUME NEW made \in Nat, NEW new, new \in {{}, {made + 1}, {made + 1, made + 2}}
  PROVE  /\ Cardinality(new) \in Nat
         /\ new \subseteq made + 1 .. made + Cardinality(new)
         /\ new \subseteq Nat
<1>1. CASE new = {}
  <2>1. Cardinality(new) = 0
    BY <1>1, FS_EmptySet
  <2> QED BY <1>1, <2>1
<1>2. CASE new = {made + 1}
  <2>1. Cardinality(new) = 1
    BY <1>2, FS_Singleton
  <2> QED BY <1>2, <2>1
<1>3. CASE new = {made + 1, made + 2}
  <2>1. IsFiniteSet({made + 1}) /\ Cardinality({made + 1}) = 1
    BY FS_Singleton
  <2>2. made + 2 \notin {made + 1} /\ new = {made + 1} \cup {made + 2}
    BY <1>3
  <2>3. Cardinality(new) = 2
    <3>1. Cardinality({made + 1} \cup {made + 2}) = Cardinality({made + 1}) + 1
      BY <2>1, <2>2, FS_AddElement
    <3> QED BY <2>1, <2>2, <3>1
  <2> QED BY <1>3, <2>3
<1> QED BY <1>1, <1>2, <1>3

-----------------------------------------------------------------------------
(***************************************************************************)
(* The invariant: the live blocks are those of the open constructs, of the *)
(* symbol just reduced and of the finished geometry, each owned once.      *)
(***************************************************************************)

Tokens == [t : STRING, v : Int]

\* The types of the variables.
TypeOK ==
  /\ text \in Seq(Tokens) /\ at \in Nat
  /\ Elements(value) /\ Elements(result.geom)
  /\ result = [geom |-> result.geom, error |-> result.error]
  /\ phase \in {"idle", "parsing", "returned"}
  /\ HeapType

\* An element is added where one is waited for, and a geometry is finished when nothing is open.
Nested ==
  /\ value # Nothing /\ stack # <<>> => Top.state = "element"
  /\ result.geom # Nothing \/ phase # "parsing" => stack = <<>> /\ value = Nothing
  /\ phase = "idle" => result.geom = Nothing

\* Every live block has one owner.
OwnedOnce ==
  /\ ~ heap.twice
  /\ heap.live \subseteq 1 .. heap.made
  /\ heap.live = Owned(stack) \cup Blocks(value) \cup Blocks(result.geom)
  /\ Owned(stack) \cap Blocks(value) = {}

\* The inductive invariant for the blocks.
Inv == TypeOK /\ Stacked(stack) /\ Nested /\ OwnedOnce

\* What the invariant says of the heap.
LEMMA InvHeap ==
  ASSUME Inv
  PROVE  /\ HeapType /\ ~ heap.twice /\ heap.made \in Nat /\ heap.live \subseteq 1 .. heap.made
         /\ heap.live \subseteq Nat /\ Blocks(result.geom) \subseteq Nat
<1>1. heap \in [live : SUBSET Nat, made : Nat, twice : BOOLEAN]
  BY DEF Inv, TypeOK, HeapType
<1>2. heap.made \in Nat /\ heap.live \subseteq Nat
  BY <1>1
<1> QED BY <1>2, ElementsBlocks DEF Inv, TypeOK, OwnedOnce

\* What is left after an error: nothing.
LEMMA GivenUp ==
  ASSUME Inv, NEW r, NEW error, NEW symbols, Stacked(symbols), GiveUp(error, r, symbols), at' \in Nat,
         r.freed \subseteq Nat, Cardinality(r.new) \in Nat,
         r.freed \cup Blocks(result.geom) \cup Owned(symbols) = heap.live \cup r.new,
         r.freed \cap Blocks(result.geom) = {}, r.freed \cap Owned(symbols) = {},
         Blocks(result.geom) \cap Owned(symbols) = {}
  PROVE  Inv'
<1>1. heap' = [live |-> {}, made |-> heap.made + Cardinality(r.new), twice |-> FALSE]
  <2>1. Freed(r.new, <<r.freed, Blocks(result.geom)>> \o [i \in DOMAIN symbols |-> Blocks(symbols[i].acc)])
    BY DEF GiveUp
  <2>2. Blocks(result.geom) \in SUBSET Nat /\ r.freed \in SUBSET Nat /\ HeapType /\ ~ heap.twice
    BY InvHeap
  <2> QED BY <2>1, <2>2, FreedAll
<1>2. /\ result' = [geom |-> Nothing, error |-> error] /\ text' = text
      /\ stack' = <<>> /\ value' = Nothing /\ phase' = "returned"
  BY DEF GiveUp
<1>3. result'.geom = Nothing /\ result'.error = error
  BY <1>2
<1>4. TypeOK'
  <2>1. HeapType'
    <3>1. heap.made + Cardinality(r.new) \in Nat
      BY InvHeap
    <3> QED BY <1>1, <3>1 DEF HeapType
  <2> QED BY <1>2, <1>3, <2>1 DEF TypeOK, Elements, Inv
<1>5. Stacked(stack') /\ Owned(stack') = {} /\ Blocks(value') = {} /\ Blocks(result'.geom) = {}
  BY <1>2, <1>3, EmptyStacked, NothingBlocks
<1>6. OwnedOnce'
  BY <1>1, <1>5 DEF OwnedOnce
<1>7. Nested'
  BY <1>2 DEF Nested
<1> QED BY <1>4, <1>5, <1>6, <1>7 DEF Inv

\* What the parser does with what a function returns when it goes on.
Kept(r) == r.error = "" /\ Freed(r.new, <<r.freed>>) /\ UNCHANGED <<source, text, result, srid, phase>>

\* An error of a function that frees what it was given leaves nothing.
LEMMA GivenUpContract ==
  ASSUME Inv, phase = "parsing", result.geom = Nothing, NEW r, NEW C, Contract(r, C), r.error # "",
         NEW symbols, Stacked(symbols), at' \in Nat,
         heap.live = C \cup Owned(symbols), C \cap Owned(symbols) = {}, GiveUp(r.error, r, symbols)
  PROVE  Inv'
<1>1. r.freed = C \cup r.new /\ r.new \in {{}, {heap.made + 1}, {heap.made + 1, heap.made + 2}}
  BY DEF Contract
<1>2. heap.made \in Nat /\ heap.live \subseteq 1 .. heap.made /\ C \subseteq Nat
  BY InvHeap
<1>3. Cardinality(r.new) \in Nat /\ r.new \cap heap.live = {} /\ r.new \subseteq Nat
  <2>1. /\ Cardinality(r.new) \in Nat /\ r.new \subseteq Nat
        /\ r.new \subseteq heap.made + 1 .. heap.made + Cardinality(r.new)
    BY <1>1, <1>2, NewBlocks
  <2>2. \A b \in heap.live : b \notin r.new
    BY ONLY <2>1, <1>2
  <2> QED BY <2>1, <2>2
<1>4. Blocks(result.geom) = {}
  BY NothingBlocks
<1>5. r.freed \subseteq Nat
  BY <1>1, <1>2, <1>3
<1>6. r.freed \cup Blocks(result.geom) \cup Owned(symbols) = heap.live \cup r.new
  BY <1>1, <1>4
<1>7. r.freed \cap Owned(symbols) = {}
  BY <1>1, <1>3
<1> QED BY <1>3, <1>4, <1>5, <1>6, <1>7, GivenUp

\* What a function returned is live.
LEMMA KeptHeap ==
  ASSUME Inv, NEW r, NEW C, Contract(r, C), Kept(r), C \subseteq heap.live
  PROVE  /\ heap'.live = heap.live \cup r.new /\ ~ heap'.twice /\ HeapType'
         /\ heap'.live \subseteq 1 .. heap'.made
         /\ Tree(r.value) /\ Blocks(r.value) = C \cup r.new /\ r.new \cap heap.live = {}
<1>1. /\ r.error = "" /\ r.freed = {} /\ Tree(r.value) /\ Blocks(r.value) = C \cup r.new
      /\ r.new \in {{}, {heap.made + 1}, {heap.made + 1, heap.made + 2}}
  BY DEF Kept, Contract
<1>2. /\ heap.made \in Nat /\ heap.live \subseteq 1 .. heap.made /\ HeapType
      /\ ~ heap.twice /\ heap.live \subseteq Nat
  BY InvHeap
<1>3. heap' = [live |-> heap.live \cup r.new, made |-> heap.made + Cardinality(r.new), twice |-> FALSE]
  <2>1. Freed(r.new, <<{}>>)
    BY <1>1 DEF Kept
  <2> QED BY <1>2, <2>1, FreedNothing
<1>4. /\ Cardinality(r.new) \in Nat /\ r.new \subseteq Nat
      /\ r.new \subseteq heap.made + 1 .. heap.made + Cardinality(r.new)
  BY <1>1, <1>2, NewBlocks
<1>5. /\ heap'.live = heap.live \cup r.new /\ heap'.twice = FALSE
      /\ heap'.made = heap.made + Cardinality(r.new)
  BY <1>3
<1>6. HeapType'
  <2>1. heap.made + Cardinality(r.new) \in Nat /\ heap.live \cup r.new \in SUBSET Nat
    BY <1>2, <1>4
  <2> QED BY <1>3, <2>1 DEF HeapType
<1>7. heap'.live \subseteq 1 .. heap'.made /\ r.new \cap heap.live = {}
  BY <1>2, <1>4, <1>5
<1> QED BY <1>1, <1>5, <1>6, <1>7

\* What a function returned waits to be added.
LEMMA KeptAsValue ==
  ASSUME Inv, phase = "parsing", result.geom = Nothing, NEW r, NEW C, Contract(r, C),
         NEW symbols, Stacked(symbols), symbols # <<>> => symbols[Len(symbols)].state = "element",
         heap.live = C \cup Owned(symbols), C \cap Owned(symbols) = {}, at' \in Nat,
         Kept(r), value' = r.value, stack' = symbols
  PROVE  Inv'
<1>1. C \subseteq heap.live
  OBVIOUS
<1>2. /\ heap'.live = heap.live \cup r.new /\ ~ heap'.twice /\ HeapType'
      /\ heap'.live \subseteq 1 .. heap'.made
      /\ Tree(r.value) /\ Blocks(r.value) = C \cup r.new /\ r.new \cap heap.live = {}
  BY <1>1, KeptHeap
<1>3. result' = result /\ phase' = "parsing" /\ text' = text
  BY DEF Kept
<1>4. TypeOK'
  BY <1>2, <1>3 DEF TypeOK, Inv, Elements
<1>5. Nested'
  BY <1>2, <1>3 DEF Nested, Top
<1>6. Blocks(result'.geom) = {}
  BY <1>3, NothingBlocks
<1>7. OwnedOnce'
  BY <1>2, <1>6 DEF OwnedOnce
<1> QED BY <1>4, <1>5, <1>7 DEF Inv

\* What a function returned are the elements of the innermost construct.
LEMMA KeptAsElements ==
  ASSUME Inv, phase = "parsing", result.geom = Nothing, stack # <<>>, NEW r, NEW C, Contract(r, C),
         heap.live = C \cup Owned(Below), C \cap Owned(Below) = {}, at' \in Nat,
         Kept(r), value' = Nothing, stack' = Append(Below, [Top EXCEPT !.acc = r.value, !.state = "after"])
  PROVE  Inv'
<1> DEFINE item == [Top EXCEPT !.acc = r.value, !.state = "after"]
<1>1. C \subseteq heap.live
  OBVIOUS
<1>2. /\ heap'.live = heap.live \cup r.new /\ ~ heap'.twice /\ HeapType'
      /\ heap'.live \subseteq 1 .. heap'.made
      /\ Tree(r.value) /\ Blocks(r.value) = C \cup r.new /\ r.new \cap heap.live = {}
  BY <1>1, KeptHeap
<1>3. result' = result /\ phase' = "parsing" /\ text' = text
  BY DEF Kept
<1>4. /\ Stacked(Below) /\ Top \in Items
      /\ Below # <<>> => Below[Len(Below)].state = "element"
  <2>1. Stacked(stack)
    BY DEF Inv
  <2> QED BY <2>1, FrontStacked DEF Below, Top
<1>5. item \in Items /\ item.acc = r.value /\ item.state = "after"
  <2>1. r.value \in Trees
    BY <1>2, TreeSet
  <2> QED BY <1>4, <2>1 DEF Items, States
<1>6. ItemOK(item)
  <2>1. r.value # Nothing
    BY <1>2, TreeSet
  <2> HIDE DEF item
  <2> QED BY <1>2, <1>5, <2>1 DEF ItemOK, Elements
<1> HIDE DEF item
<1>7. Stacked(stack') /\ Owned(stack') = Owned(Below) \cup Blocks(r.value)
  <2>1. stack' = Append(Below, item)
    BY DEF item
  <2>2. Owned(Below) \cap Blocks(item.acc) = {}
    BY <1>2, <1>5
  <2> QED BY <1>4, <1>5, <1>6, <2>1, <2>2, AppendStacked
<1>8. TypeOK'
  BY <1>2, <1>3 DEF TypeOK, Inv, Elements
<1>9. Nested'
  BY <1>3 DEF Nested
<1>10. Blocks(result'.geom) = {} /\ Blocks(value') = {}
  BY <1>3, NothingBlocks
<1>11. OwnedOnce'
  BY <1>2, <1>7, <1>10 DEF OwnedOnce
<1> QED BY <1>7, <1>8, <1>9, <1>11 DEF Inv

-----------------------------------------------------------------------------
(* What the parser sees *)

\* Where the parser may be when it goes on with a token.
LEMMA ExpectedFacts ==
  ASSUME Inv, NEW t \in Expected, value = Nothing
  PROVE  /\ t \in Keywords => /\ result.geom = Nothing
                              /\ stack # <<>> => Top.state = "element" /\ t \in Grammar[Top.construct].names
         /\ t = "DIMENSIONALITY" => result.geom = Nothing /\ stack # <<>> /\ Top.state = "named"
         /\ t \in {"(", "EMPTY"} =>
              /\ result.geom = Nothing /\ stack # <<>>
              /\ Top.state \in {"named", "letters", "element"}
              /\ Top.state = "element" => Grammar[Top.construct].bare # "none"
              /\ Top.state = "element" /\ t = "EMPTY" => Grammar[Top.construct].bare \notin NeverEmpty
         /\ t = "DOUBLE" => /\ result.geom = Nothing /\ stack # <<>> /\ Top.state = "element"
                            /\ Grammar[Top.construct].coordinates
         /\ t = "," => /\ result.geom = Nothing /\ stack # <<>>
                       /\ Top.state = "after" /\ Top.construct \notin Single
         /\ t = ")" => result.geom = Nothing /\ stack # <<>> /\ Top.state = "after"
         /\ t = "SRID" => result.geom = Nothing /\ stack = <<>>
         /\ t = "$end" => result.geom # Nothing
<1>1. CASE result.geom # Nothing
  <2>1. t = "$end"
    BY <1>1 DEF Expected
  <2> QED BY <1>1, <2>1 DEF Keywords
<1>2. CASE result.geom = Nothing /\ stack = <<>>
  <2>1. t \in Keywords \/ t = "SRID"
    BY <1>2 DEF Expected
  <2> QED BY <1>2, <2>1 DEF Keywords
<1>3. CASE result.geom = Nothing /\ stack # <<>>
  <2> DEFINE rule == Grammar[Top.construct]
  <2>1. Top \in Items
    BY <1>3, FrontStacked DEF Inv, Top
  <2>2. /\ Top.state \in States /\ Top.construct \in Constructs
        /\ rule.names \subseteq Keywords
    BY <2>1, GrammarFacts DEF Items
  <2>3. CASE Top.state = "named"
    <3>1. t \in {"DIMENSIONALITY", "EMPTY", "("}
      BY <1>3, <2>3 DEF Expected
    <3> QED BY <1>3, <2>3, <3>1 DEF Keywords
  <2>4. CASE Top.state = "letters"
    <3>1. t \in {"EMPTY", "("}
      BY <1>3, <2>4 DEF Expected
    <3> QED BY <1>3, <2>4, <3>1 DEF Keywords
  <2>5. CASE Top.state = "after"
    <3>1. t = ")" \/ (t = "," /\ Top.construct \notin Single)
      BY <1>3, <2>5 DEF Expected
    <3> QED BY <1>3, <2>5, <3>1 DEF Keywords
  <2>6. CASE Top.state = "element"
    <3> HIDE DEF rule
    <3>1. \/ t \in rule.names
          \/ t = "DOUBLE" /\ rule.coordinates
          \/ t = "(" /\ rule.bare # "none"
          \/ t = "EMPTY" /\ rule.bare \notin NeverEmpty
      BY <1>3, <2>6 DEF Expected, rule
    <3>2. CASE t \in rule.names
      <4>1. t \in Keywords
        BY <2>2, <3>2
      <4> QED BY <1>3, <2>6, <3>2, <4>1 DEF Keywords, rule
    <3>3. CASE t \notin rule.names
      BY <1>3, <2>6, <3>1, <3>3 DEF Keywords, NeverEmpty, rule
    <3> QED BY <3>2, <3>3
  <2> QED BY <2>2, <2>3, <2>4, <2>5, <2>6 DEF States
<1> QED BY <1>1, <1>2, <1>3

\* The lookahead fits.
LEMMA SeesFacts ==
  ASSUME Inv, NEW tokens, Sees(tokens)
  PROVE  phase = "parsing" /\ value = Nothing /\ Token.t \in Expected /\ Token.t \in tokens
BY DEF Sees, Parsing

\* The open constructs, with nothing waiting and nothing finished.
LEMMA OpenConstructs ==
  ASSUME Inv, value = Nothing, result.geom = Nothing
  PROVE  /\ Stacked(stack) /\ heap.live = Owned(stack)
         /\ stack # <<>> =>
              /\ Stacked(Below) /\ Top \in Items /\ ItemOK(Top)
              /\ heap.live = Blocks(Top.acc) \cup Owned(Below)
              /\ Blocks(Top.acc) \cap Owned(Below) = {}
              /\ Below # <<>> => Below[Len(Below)].state = "element"
              /\ Old(Top.acc) /\ Elements(Top.acc)
<1>1. Stacked(stack) /\ heap.live = Owned(stack) /\ heap.live \subseteq 1 .. heap.made
  BY NothingBlocks DEF Inv, OwnedOnce
<1> SUFFICES ASSUME stack # <<>>
             PROVE  /\ Stacked(Below) /\ Top \in Items /\ ItemOK(Top)
                    /\ heap.live = Blocks(Top.acc) \cup Owned(Below)
                    /\ Blocks(Top.acc) \cap Owned(Below) = {}
                    /\ Below # <<>> => Below[Len(Below)].state = "element"
                    /\ Old(Top.acc) /\ Elements(Top.acc)
  BY <1>1
<1>2. /\ Stacked(Below) /\ Top \in Items /\ ItemOK(Top)
      /\ Owned(stack) = Owned(Below) \cup Blocks(Top.acc)
      /\ Owned(Below) \cap Blocks(Top.acc) = {}
      /\ Below # <<>> => Below[Len(Below)].state = "element"
  BY <1>1, FrontStacked DEF Below, Top
<1> QED BY <1>1, <1>2 DEF Old, ItemOK

\* The numbers that follow.
LEMMA NumbersFacts ==
  /\ Numbers \in 0 .. 4
  /\ \A k \in 0 .. Numbers - 1 : at + k \in DOMAIN text /\ text[at + k].t = "DOUBLE"
<1> DEFINE at4 == {n \in 0..4 : \A k \in 0 .. n - 1 : at + k \in DOMAIN text /\ text[at + k].t = "DOUBLE"}
<1>1. 0 \in at4
  OBVIOUS
<1>2. \A n \in at4 : n \in 0 .. 4
  OBVIOUS
<1>3. Numbers = Max(at4)
  BY DEF Numbers
<1>4. \A n \in at4 : \A k \in 0 .. n - 1 : at + k \in DOMAIN text /\ text[at + k].t = "DOUBLE"
  OBVIOUS
<1> HIDE DEF at4
<1>5. \E x \in at4 : \A y \in at4 : x >= y
  <2>1. CASE 4 \in at4
    BY <2>1, <1>2
  <2>2. CASE 4 \notin at4 /\ 3 \in at4
    BY <2>2, <1>2
  <2>3. CASE 4 \notin at4 /\ 3 \notin at4 /\ 2 \in at4
    BY <2>3, <1>2
  <2>4. CASE 4 \notin at4 /\ 3 \notin at4 /\ 2 \notin at4 /\ 1 \in at4
    BY <2>4, <1>2
  <2>5. CASE 4 \notin at4 /\ 3 \notin at4 /\ 2 \notin at4 /\ 1 \notin at4
    BY <2>5, <1>1, <1>2
  <2> QED BY <2>1, <2>2, <2>3, <2>4, <2>5
<1>6. Max(at4) \in at4
  BY <1>5 DEF Max
<1> QED BY <1>2, <1>3, <1>4, <1>6

\* A coordinate has the point it was read with.
LEMMA CoordinateFacts ==
  ASSUME NEW ordinates \in Seq(Int)
  PROVE  HasFlags(Coordinate(ordinates)) /\ Coordinate(ordinates).point = ordinates
<1>1. (Len(ordinates) > 2) \in BOOLEAN /\ (Len(ordinates) > 3) \in BOOLEAN
  OBVIOUS
<1> QED BY <1>1 DEF Coordinate, HasFlags

\* The numbers that follow are integers.
LEMMA OrdinatesFacts ==
  ASSUME Inv
  PROVE  [k \in 1 .. Numbers |-> text[at + k - 1].v] \in Seq(Int)
<1>1. text \in Seq(Tokens) /\ at \in Nat
  BY DEF Inv, TypeOK
<1>2. Numbers \in Nat
  BY NumbersFacts
<1>3. \A k \in 1 .. Numbers : text[at + k - 1].v \in Int
  <2> SUFFICES ASSUME NEW k \in 1 .. Numbers PROVE text[at + k - 1].v \in Int
    OBVIOUS
  <2>1. k - 1 \in 0 .. Numbers - 1 /\ at + (k - 1) = at + k - 1
    BY <1>1, <1>2
  <2>2. at + k - 1 \in DOMAIN text
    BY <2>1, NumbersFacts
  <2>3. text[at + k - 1] \in Tokens
    BY <1>1, <2>2, ElementOfSeq, LenProperties
  <2> QED BY <2>3 DEF Tokens
<1> QED BY <1>2, <1>3, IsASeq

\* Letters, or none, say which dimensions there are.
LEMMA DimensionalityFacts ==
  ASSUME NEW place
  PROVE  HasFlags(Dimensionality(place)) /\ HasFlags(FlatFlags)
BY DEF Dimensionality, FlatFlags, HasFlags

\* The point of a multipoint's coordinate.
LEMMA CoordinatePointContract ==
  ASSUME heap.made \in Nat, NEW c, HasFlags(c), c.point \in Seq(Int)
  PROVE  Contract(Then(PtarrayNew(c), LAMBDA array : PointNew(array, FlatFlags)), {})
<1> DEFINE first == PtarrayNew(c)
           array == first.value
           second == PointNew(array, FlatFlags)
           r == Then(first, LAMBDA a : PointNew(a, FlatFlags))
<1>1. Contract(first, {}) /\ first.new = {Fresh} /\ first.error = "" /\ Fresh = heap.made + 1
  BY PtarrayNewContract DEF PtarrayNew, Returned, Fresh
<1>2. Tree(array) /\ Blocks(array) = {heap.made + 1}
  BY <1>1 DEF Contract
<1>3. r = [second EXCEPT !.new = @ \cup {heap.made + 1}]
  BY <1>1 DEF Then
<1> HIDE DEF first
<1>4. Root(array).id = heap.made + 1
  BY <1>2, RootId
<1>5. After(array) = heap.made + 2
  BY <1>4 DEF After, Fresh
<1> HIDE DEF array
<1> DEFINE faults == <<<<Len(Root(array).pts) # 1, "LESSPOINTS">>>>
           whole == Harmonized(array, FlatFlags)
           b == Built(After(array), "POINT", Root(whole))
           fault == IF Mismatch(array, FlatFlags) THEN "MIXDIMS" ELSE FirstFault(faults)
<1>6. Tree(whole) /\ Blocks(whole) = {heap.made + 1} /\ HasFlags(Root(whole))
  BY <1>2, HarmonizedFacts, TreeFlags, DimensionalityFacts
<1>7. Tree(b) /\ Blocks(b) = {heap.made + 2}
  <2>1. "POINT" \in Types /\ heap.made + 2 \in Nat
    BY DEF Types, Keywords
  <2> QED BY <1>5, <1>6, <2>1, BuiltFacts
<1>8. second = IF fault # "" THEN Refused(fault, {}, {heap.made + 1})
               ELSE Returned(With(b, whole), {heap.made + 2})
  <2>1. array # Nothing
    BY <1>2, TreeSet
  <2> HIDE DEF second
  <2>2. second = AroundArray("POINT", array, FlatFlags, faults)
    BY DEF second, PointNew
  <2> QED BY <1>2, <1>5, <2>1, <2>2 DEF AroundArray, fault, whole, b
<1> HIDE DEF second, b, whole, fault
<1>9. CASE fault # ""
  <2> DEFINE new == {heap.made + 1}
  <2> HIDE DEF r
  <2>3. second = Refused(fault, {}, new) /\ second.new = {}
    BY <1>8, <1>9 DEF Refused
  <2>4. {} \cup new = new
    OBVIOUS
  <2> HIDE DEF new
  <2>5. r = [Refused(fault, {}, new) EXCEPT !.new = {} \cup new]
    BY <1>3, <2>3 DEF new
  <2>1. r = Refused(fault, {heap.made + 1}, {} \cup {heap.made + 1})
    BY <2>4, <2>5, NewRefused DEF new
  <2>2. Contract(r, {})
    BY <1>9, <2>1, RefusedContract
  <2> QED BY <2>2 DEF r, first
<1>10. CASE ~ (fault # "")
  <2> DEFINE u == With(b, whole)
             new == {heap.made + 2} \cup {heap.made + 1}
  <2>1. second = Returned(u, {heap.made + 2}) /\ second.new = {heap.made + 2}
    BY <1>8, <1>10 DEF Returned
  <2>2. Tree(u) /\ Blocks(u) = {} \cup new
    BY <1>6, <1>7, WithTree
  <2>3. new \in {{}, {heap.made + 1}, {heap.made + 1, heap.made + 2}}
    OBVIOUS
  <2> HIDE DEF u, r
  <2>4. r = [Returned(u, {heap.made + 2}) EXCEPT !.new = new]
    BY <1>3, <2>1
  <2> HIDE DEF new
  <2>5. r = Returned(u, new)
    BY <2>4, NewReturned
  <2>6. Contract(r, {})
    BY <2>2, <2>3, <2>5, ReturnedContract
  <2> QED BY <2>6 DEF r, first
<1> QED BY <1>9, <1>10

-----------------------------------------------------------------------------
(* The steps of the parser *)

\* The stack changes without touching an element.
LEMMA Shifted ==
  ASSUME Inv, value = Nothing, result.geom = Nothing, phase = "parsing", NEW n \in Nat, NEW top,
         Shift(n, top), Stacked(top), Owned(top) = Owned(stack)
  PROVE  Inv'
<1>1. /\ at' = at + n /\ stack' = top
      /\ text' = text /\ value' = value /\ result' = result /\ phase' = phase /\ heap' = heap
  BY DEF Shift
<1>2. TypeOK'
  BY <1>1 DEF Inv, TypeOK, HeapType, Elements
<1>3. Nested'
  BY <1>1 DEF Nested
<1>4. OwnedOnce'
  BY <1>1 DEF Inv, OwnedOnce
<1> QED BY <1>1, <1>2, <1>3, <1>4 DEF Inv

\* The innermost construct changes but for its elements.
LEMMA TopChanged ==
  ASSUME Inv, value = Nothing, result.geom = Nothing, stack # <<>>,
         NEW item \in Items, ItemOK(item), item.acc = Top.acc
  PROVE  Stacked(Append(Below, item)) /\ Owned(Append(Below, item)) = Owned(stack)
<1>1. /\ heap.live = Owned(stack) /\ Stacked(Below)
      /\ heap.live = Blocks(Top.acc) \cup Owned(Below)
      /\ Blocks(Top.acc) \cap Owned(Below) = {}
      /\ Below # <<>> => Below[Len(Below)].state = "element"
  BY OpenConstructs
<1>2. Owned(Below) \cap Blocks(item.acc) = {}
  BY <1>1
<1>3. /\ Stacked(Append(Below, item))
      /\ Owned(Append(Below, item)) = Owned(Below) \cup Blocks(item.acc)
  BY <1>1, <1>2, AppendStacked
<1> QED BY <1>1, <1>3

\* A construct begins.
LEMMA NewOnTop ==
  ASSUME Inv, value = Nothing, result.geom = Nothing, stack # <<>> => Top.state = "element",
         NEW construct \in Constructs, NEW state \in {"named", "element"},
         state = "named" => construct \in Keywords
  PROVE  /\ Stacked(Append(stack, Opened(construct, state)))
         /\ Owned(Append(stack, Opened(construct, state))) = Owned(stack)
<1> DEFINE item == Opened(construct, state)
<1>1. item \in Items /\ item.acc = Nothing /\ item.construct = construct /\ item.state = state
  BY DEF Opened, Items, States
<1> HIDE DEF item
<1>2. ItemOK(item)
  BY <1>1 DEF ItemOK, Elements
<1>3. Blocks(item.acc) = {}
  BY <1>1, NothingBlocks
<1>4. Stacked(stack)
  BY DEF Inv
<1>5. /\ Stacked(Append(stack, item))
      /\ Owned(Append(stack, item)) = Owned(stack) \cup Blocks(item.acc)
  <2>1. stack # <<>> => stack[Len(stack)].state = "element"
    BY DEF Top
  <2> QED BY <1>1, <1>2, <1>3, <1>4, <2>1, AppendStacked
<1> QED BY <1>3, <1>5 DEF item

\* A name begins a construct.
LEMMA NameInv ==
  ASSUME Inv, Name PROVE Inv'
<1>1. /\ phase = "parsing" /\ value = Nothing /\ Token.t \in Expected /\ Token.t \in Keywords
      /\ Shift(1, Append(stack, Opened(Token.t, "named")))
  BY SeesFacts DEF Name
<1>2. result.geom = Nothing /\ (stack # <<>> => Top.state = "element")
  BY <1>1, ExpectedFacts
<1>3. Token.t \in Constructs
  BY <1>1 DEF Constructs
<1>4. /\ Stacked(Append(stack, Opened(Token.t, "named")))
      /\ Owned(Append(stack, Opened(Token.t, "named"))) = Owned(stack)
  BY <1>1, <1>2, <1>3, NewOnTop
<1> QED BY <1>1, <1>2, <1>4, Shifted

\* A bracket begins a construct without a name.
LEMMA OpenBareInv ==
  ASSUME Inv, OpenBare PROVE Inv'
<1> DEFINE bare == Grammar[Top.construct].bare
<1>1. /\ phase = "parsing" /\ value = Nothing /\ Token.t \in Expected /\ Token.t = "("
      /\ Top.state = "element" /\ Shift(1, Append(stack, Opened(bare, "element")))
  BY SeesFacts DEF OpenBare
<1>2. result.geom = Nothing /\ stack # <<>> /\ bare # "none"
  BY <1>1, ExpectedFacts
<1>3. Top.construct \in Constructs
  BY <1>1, <1>2, OpenConstructs DEF Items
<1>4. bare \in Constructs
  BY <1>2, <1>3, GrammarFacts
<1> HIDE DEF bare
<1>5. /\ Stacked(Append(stack, Opened(bare, "element")))
      /\ Owned(Append(stack, Opened(bare, "element"))) = Owned(stack)
  BY <1>1, <1>2, <1>4, NewOnTop
<1> QED BY <1>1, <1>2, <1>5, Shifted

\* The letters of the dimensions.
LEMMA NameDimensionsInv ==
  ASSUME Inv, NameDimensions PROVE Inv'
<1> DEFINE item == [Top EXCEPT !.dim = at, !.state = "letters"]
<1>1. /\ phase = "parsing" /\ value = Nothing /\ Token.t \in Expected /\ Token.t = "DIMENSIONALITY"
      /\ Shift(1, Append(Below, item))
  BY SeesFacts DEF NameDimensions
<1>2. result.geom = Nothing /\ stack # <<>> /\ Top.state = "named"
  BY <1>1, ExpectedFacts
<1>3. Top \in Items /\ ItemOK(Top) /\ at \in Nat
  BY <1>1, <1>2, OpenConstructs DEF Inv, TypeOK
<1>4. /\ item \in Items /\ item.acc = Top.acc /\ item.state = "letters"
      /\ item.construct = Top.construct
  BY <1>3 DEF Items, States
<1> HIDE DEF item
<1>5. ItemOK(item)
  BY <1>2, <1>3, <1>4 DEF ItemOK
<1>6. Stacked(Append(Below, item)) /\ Owned(Append(Below, item)) = Owned(stack)
  BY <1>1, <1>2, <1>4, <1>5, TopChanged
<1> QED BY <1>1, <1>2, <1>6, Shifted

\* A bracket or a comma: an element is waited for.
LEMMA WaitsForElement ==
  ASSUME Inv, phase = "parsing", value = Nothing, result.geom = Nothing, stack # <<>>,
         Top.construct \in Single => Top.acc = Nothing,
         Shift(1, Append(Below, [Top EXCEPT !.state = "element"]))
  PROVE  Inv'
<1> DEFINE item == [Top EXCEPT !.state = "element"]
<1>1. Top \in Items /\ ItemOK(Top)
  BY OpenConstructs
<1>2. /\ item \in Items /\ item.acc = Top.acc /\ item.state = "element"
      /\ item.construct = Top.construct
  BY <1>1 DEF Items, States
<1>3. Shift(1, Append(Below, item))
  OBVIOUS
<1> HIDE DEF item
<1>4. ItemOK(item)
  BY <1>1, <1>2 DEF ItemOK
<1>5. Stacked(Append(Below, item)) /\ Owned(Append(Below, item)) = Owned(stack)
  BY <1>2, <1>4, TopChanged
<1> QED BY <1>3, <1>5, Shifted

\* A bracket after a name.
LEMMA OpenInv ==
  ASSUME Inv, Open PROVE Inv'
<1>1. /\ phase = "parsing" /\ value = Nothing /\ Token.t \in Expected /\ Token.t = "("
      /\ Top.state # "element" /\ Shift(1, Append(Below, [Top EXCEPT !.state = "element"]))
  BY SeesFacts DEF Open
<1>2. result.geom = Nothing /\ stack # <<>> /\ Top.state \in {"named", "letters", "element"}
  BY <1>1, ExpectedFacts
<1>3. Top.acc = Nothing
  BY <1>1, <1>2, OpenConstructs DEF ItemOK
<1> QED BY <1>1, <1>2, <1>3, WaitsForElement

\* A comma.
LEMMA NextElementInv ==
  ASSUME Inv, NextElement PROVE Inv'
<1>1. /\ phase = "parsing" /\ value = Nothing /\ Token.t \in Expected /\ Token.t = ","
      /\ Shift(1, Append(Below, [Top EXCEPT !.state = "element"]))
  <2>1. Sees({","}) /\ Shift(1, Append(Below, [Top EXCEPT !.state = "element"]))
    BY DEF NextElement
  <2>2. Token.t \in {","}
    BY <2>1, SeesFacts
  <2> QED BY <2>1, <2>2, SeesFacts
<1>2. result.geom = Nothing /\ stack # <<>> /\ Top.construct \notin Single
  BY <1>1, ExpectedFacts
<1> QED BY <1>1, <1>2, WaitsForElement

\* A construct becomes a geometry.
LEMMA ClosedInv ==
  ASSUME Inv, phase = "parsing", value = Nothing, result.geom = Nothing, stack # <<>>,
         Top.construct = "ring" => Top.acc # Nothing, at' \in Nat,
         Reduce(Reduction(Top.construct, Top.acc, Dimensionality(Top.dim)), Below,
                LAMBDA v : value' = v /\ stack' = Below)
  PROVE  Inv'
<1> DEFINE r == Reduction(Top.construct, Top.acc, Dimensionality(Top.dim))
<1>1. /\ Stacked(Below) /\ Top \in Items /\ ItemOK(Top)
      /\ heap.live = Blocks(Top.acc) \cup Owned(Below)
      /\ Blocks(Top.acc) \cap Owned(Below) = {}
      /\ Below # <<>> => Below[Len(Below)].state = "element"
      /\ Old(Top.acc) /\ Elements(Top.acc)
  BY OpenConstructs
<1>2. heap.made \in Nat /\ Top.construct \in Constructs
  BY <1>1, InvHeap DEF Items
<1>3. Contract(r, Blocks(Top.acc))
  BY <1>1, <1>2, DimensionalityFacts, ReductionContract
<1>4. IF r.error # "" THEN GiveUp(r.error, r, Below)
      ELSE /\ Freed(r.new, <<r.freed>>)
           /\ value' = r.value /\ stack' = Below
           /\ UNCHANGED <<source, text, result, srid, phase>>
  BY DEF Reduce
<1> HIDE DEF r
<1>5. CASE r.error # ""
  BY <1>1, <1>3, <1>4, <1>5, GivenUpContract
<1>6. CASE r.error = ""
  <2>1. Kept(r)
    BY <1>4, <1>6 DEF Kept
  <2> QED BY <1>1, <1>3, <1>4, <1>6, <2>1, KeptAsValue
<1> QED BY <1>5, <1>6

\* The closing bracket.
LEMMA CloseInv ==
  ASSUME Inv, Close PROVE Inv'
<1>1. /\ phase = "parsing" /\ value = Nothing /\ Token.t \in Expected /\ Token.t = ")" /\ at' = at + 1
      /\ Reduce(Reduction(Top.construct, Top.acc, Dimensionality(Top.dim)), Below,
                LAMBDA v : value' = v /\ stack' = Below)
  BY SeesFacts DEF Close
<1>2. result.geom = Nothing /\ stack # <<>> /\ Top.state = "after"
  BY <1>1, ExpectedFacts
<1>3. Top.acc # Nothing
  BY <1>1, <1>2, OpenConstructs DEF ItemOK
<1>4. at' \in Nat
  BY <1>1 DEF Inv, TypeOK
<1> QED BY <1>1, <1>2, <1>3, <1>4, ClosedInv

\* EMPTY after a name.
LEMMA EmptyInv ==
  ASSUME Inv, Empty PROVE Inv'
<1>1. /\ phase = "parsing" /\ value = Nothing /\ Token.t \in Expected /\ Token.t = "EMPTY" /\ at' = at + 1
      /\ Top.state # "element"
      /\ Reduce(Reduction(Top.construct, Nothing, Dimensionality(Top.dim)), Below,
                LAMBDA v : value' = v /\ stack' = Below)
  BY SeesFacts DEF Empty
<1>2. result.geom = Nothing /\ stack # <<>> /\ Top.state \in {"named", "letters", "element"}
  BY <1>1, ExpectedFacts
<1>3. Top.acc = Nothing /\ Top.construct # "ring"
  <2>1. Top.acc = Nothing /\ Top.construct \in Keywords
    BY <1>1, <1>2, OpenConstructs DEF ItemOK
  <2> QED BY <2>1 DEF Keywords
<1>4. at' \in Nat
  BY <1>1 DEF Inv, TypeOK
<1>5. Reduce(Reduction(Top.construct, Top.acc, Dimensionality(Top.dim)), Below,
             LAMBDA v : value' = v /\ stack' = Below)
  BY <1>1, <1>3
<1> QED BY <1>1, <1>2, <1>3, <1>4, <1>5, ClosedInv

\* A value stands where an element is waited for, and takes nothing from the stack.
LEMMA ValueInv ==
  ASSUME Inv, phase = "parsing", value = Nothing, result.geom = Nothing, stack # <<>>,
         Top.state = "element", at' \in Nat, NEW r, Contract(r, {}),
         IF r.error # "" THEN GiveUp(r.error, r, stack)
         ELSE /\ Freed(r.new, <<r.freed>>)
              /\ value' = r.value /\ stack' = stack
              /\ UNCHANGED <<source, text, result, srid, phase>>
  PROVE  Inv'
<1> DEFINE C == {}
<1>1. Stacked(stack) /\ heap.live = C \cup Owned(stack) /\ C \cap Owned(stack) = {} /\ Contract(r, C)
  BY OpenConstructs
<1> HIDE DEF C
<1>2. stack # <<>> => stack[Len(stack)].state = "element"
  BY DEF Top
<1>3. CASE r.error # ""
  BY <1>1, <1>3, GivenUpContract
<1>4. CASE r.error = ""
  <2>1. Kept(r)
    BY <1>4 DEF Kept
  <2> QED BY <1>1, <1>2, <1>4, <2>1, KeptAsValue
<1> QED BY <1>3, <1>4

\* EMPTY for an element.
LEMMA EmptyBareInv ==
  ASSUME Inv, EmptyBare PROVE Inv'
<1> DEFINE bare == Grammar[Top.construct].bare
           r == Reduction(bare, Nothing, FlatFlags)
<1>1. /\ phase = "parsing" /\ value = Nothing /\ Token.t \in Expected /\ Token.t = "EMPTY"
      /\ at' = at + 1 /\ Top.state = "element"
      /\ Reduce(r, stack, LAMBDA v : value' = v /\ UNCHANGED stack)
  BY SeesFacts DEF EmptyBare
<1>2. result.geom = Nothing /\ stack # <<>> /\ bare # "none" /\ bare \notin NeverEmpty
  BY <1>1, ExpectedFacts
<1>3. Top.construct \in Constructs
  BY <1>1, <1>2, OpenConstructs DEF Items
<1>4. bare \in Constructs /\ bare # "ring"
  BY <1>2, <1>3, GrammarFacts DEF NeverEmpty
<1> HIDE DEF bare
<1>5. Blocks(Nothing) = {} /\ Elements(Nothing) /\ Old(Nothing)
  BY NothingBlocks DEF Elements, Old
<1>6. Contract(r, {})
  <2>1. heap.made \in Nat
    BY InvHeap
  <2> QED BY <1>4, <1>5, <2>1, DimensionalityFacts, ReductionContract
<1>7. IF r.error # "" THEN GiveUp(r.error, r, stack)
      ELSE /\ Freed(r.new, <<r.freed>>)
           /\ value' = r.value /\ stack' = stack
           /\ UNCHANGED <<source, text, result, srid, phase>>
  BY <1>1 DEF Reduce
<1>8. at' \in Nat
  BY <1>1 DEF Inv, TypeOK
<1> HIDE DEF r
<1> QED BY <1>1, <1>2, <1>6, <1>7, <1>8, ValueInv

\* The elements so far are replaced by what a function makes of them.
LEMMA ElementsInv ==
  ASSUME Inv, phase = "parsing", result.geom = Nothing, stack # <<>>, at' \in Nat,
         NEW r, NEW C, Contract(r, C),
         heap.live = C \cup Owned(Below), C \cap Owned(Below) = {}, Stacked(Below),
         IF r.error # "" THEN GiveUp(r.error, r, Below)
         ELSE /\ Freed(r.new, <<r.freed>>)
              /\ stack' = Append(Below, [Top EXCEPT !.acc = r.value, !.state = "after"])
              /\ value' = Nothing
              /\ UNCHANGED <<source, text, result, srid, phase>>
  PROVE  Inv'
<1>1. CASE r.error # ""
  BY <1>1, GivenUpContract
<1>2. CASE r.error = ""
  <2>1. Kept(r)
    BY <1>2 DEF Kept
  <2> QED BY <1>2, <2>1, KeptAsElements
<1> QED BY <1>1, <1>2

\* A coordinate.
LEMMA ReadCoordinateInv ==
  ASSUME Inv, ReadCoordinate PROVE Inv'
<1> DEFINE ordinates == [k \in 1 .. Numbers |-> text[at + k - 1].v]
           c == Coordinate(ordinates)
           grown == IF Top.acc = Nothing THEN PtarrayNew(c) ELSE PtarrayAddCoord(Top.acc, c)
           point == Then(PtarrayNew(c), LAMBDA array : PointNew(array, FlatFlags))
<1>1. /\ phase = "parsing" /\ value = Nothing /\ Token.t \in Expected /\ Token.t = "DOUBLE"
      /\ at' = at + Numbers
  BY SeesFacts DEF ReadCoordinate
<1>2. result.geom = Nothing /\ stack # <<>> /\ Top.state = "element"
  BY <1>1, ExpectedFacts
<1>3. ordinates \in Seq(Int)
  BY OrdinatesFacts
<1>4. HasFlags(c) /\ c.point \in Seq(Int)
  <2> HIDE DEF ordinates
  <2> QED BY <1>3, CoordinateFacts
<1>5. at' \in Nat /\ heap.made \in Nat
  BY <1>1, NumbersFacts, InvHeap DEF Inv, TypeOK
<1>6. \/ Top.construct = "MULTIPOINT" /\ Reduce(point, stack, LAMBDA v : value' = v /\ UNCHANGED stack)
      \/ Reduce(grown, Below, LAMBDA v : /\ stack' = Append(Below, [Top EXCEPT !.acc = v, !.state = "after"])
                                         /\ UNCHANGED value)
  BY DEF ReadCoordinate
<1> HIDE DEF c
<1>7. CASE Reduce(point, stack, LAMBDA v : value' = v /\ UNCHANGED stack)
  <2>1. Contract(point, {})
    BY <1>4, <1>5, CoordinatePointContract
  <2>2. IF point.error # "" THEN GiveUp(point.error, point, stack)
        ELSE /\ Freed(point.new, <<point.freed>>)
             /\ value' = point.value /\ stack' = stack
             /\ UNCHANGED <<source, text, result, srid, phase>>
    BY <1>7 DEF Reduce
  <2> HIDE DEF point
  <2> QED BY <1>1, <1>2, <1>5, <2>1, <2>2, ValueInv
<1>8. CASE Reduce(grown, Below, LAMBDA v : /\ stack' = Append(Below, [Top EXCEPT !.acc = v, !.state = "after"])
                                           /\ UNCHANGED value)
  <2>1. /\ Stacked(Below) /\ Elements(Top.acc)
        /\ heap.live = Blocks(Top.acc) \cup Owned(Below)
        /\ Blocks(Top.acc) \cap Owned(Below) = {}
    BY <1>1, <1>2, OpenConstructs
  <2>2. Contract(grown, Blocks(Top.acc))
    <3>1. Top.acc # Nothing => Contract(PtarrayAddCoord(Top.acc, c), Blocks(Top.acc))
      BY <1>4, <2>1, PtarrayAddCoordContract DEF Elements
    <3>2. Top.acc = Nothing => Contract(PtarrayNew(c), Blocks(Top.acc))
      BY <1>4, <1>5, PtarrayNewContract, NothingBlocks
    <3> QED BY <3>1, <3>2
  <2>3. IF grown.error # "" THEN GiveUp(grown.error, grown, Below)
        ELSE /\ Freed(grown.new, <<grown.freed>>)
             /\ stack' = Append(Below, [Top EXCEPT !.acc = grown.value, !.state = "after"])
             /\ value' = Nothing
             /\ UNCHANGED <<source, text, result, srid, phase>>
    BY <1>1, <1>8 DEF Reduce
  <2> HIDE DEF grown
  <2> QED BY <1>1, <1>2, <1>5, <2>1, <2>2, <2>3, ElementsInv
<1> QED BY <1>6, <1>7, <1>8

\* An element is added.
LEMMA AddInv ==
  ASSUME Inv, Add PROVE Inv'
<1> DEFINE r == Addition(Top.construct, Top.acc, value)
           C == Blocks(Top.acc) \cup Blocks(value)
<1>1. phase = "parsing" /\ value # Nothing /\ stack # <<>> /\ at' = at
  BY DEF Add
<1>2. result.geom = Nothing /\ Top.state = "element"
  BY <1>1 DEF Inv, Nested
<1>3. /\ Stacked(Below) /\ Top \in Items /\ ItemOK(Top)
      /\ Owned(stack) = Owned(Below) \cup Blocks(Top.acc)
      /\ Owned(Below) \cap Blocks(Top.acc) = {}
  BY <1>1, FrontStacked DEF Inv, Below, Top
<1>4. heap.live = C \cup Owned(Below) /\ C \cap Owned(Below) = {}
  <2>1. /\ heap.live = Owned(stack) \cup Blocks(value) \cup {}
        /\ Owned(stack) \cap Blocks(value) = {}
    BY <1>2, NothingBlocks DEF Inv, OwnedOnce
  <2> QED BY <1>3, <2>1
<1>5. /\ Tree(value) /\ Elements(Top.acc) /\ heap.made \in Nat /\ Top.construct \in Constructs
      /\ Top.construct \in Single => Top.acc = Nothing
      /\ at' \in Nat
  BY <1>1, <1>2, <1>3, InvHeap DEF Inv, TypeOK, Elements, ItemOK, Items
<1>6. Contract(r, C)
  BY <1>5, AdditionContract
<1>7. IF r.error # "" THEN GiveUp(r.error, r, Below)
      ELSE /\ Freed(r.new, <<r.freed>>)
           /\ stack' = Append(Below, [Top EXCEPT !.acc = r.value, !.state = "after"])
           /\ value' = Nothing
           /\ UNCHANGED <<source, text, result, srid, phase>>
  BY DEF Add, Reduce
<1> HIDE DEF r, C
<1> QED BY <1>1, <1>2, <1>3, <1>4, <1>5, <1>6, <1>7, ElementsInv

\* The parser sees what it does not expect.
LEMMA SyntaxErrorInv ==
  ASSUME Inv, SyntaxError PROVE Inv'
<1> DEFINE r == Returned(Nothing, {})
           error == IF result.error = "" THEN "OTHER" ELSE result.error
<1>1. phase = "parsing" /\ value = Nothing /\ at' = at /\ GiveUp(error, r, stack)
  BY DEF SyntaxError, Parsing
<1>2. r.freed = {} /\ r.new = {} /\ Cardinality(r.new) = 0
  BY FS_EmptySet DEF Returned
<1>3. /\ Stacked(stack) /\ heap.live = Owned(stack) \cup Blocks(result.geom)
      /\ Owned(stack) \cap Blocks(result.geom) = {} /\ at' \in Nat
  <2>1. Stacked(stack) /\ heap.live = Owned(stack) \cup Blocks(result.geom) /\ at' \in Nat
    BY <1>1, NothingBlocks DEF Inv, OwnedOnce, TypeOK
  <2>2. result.geom = Nothing \/ stack = <<>>
    BY DEF Inv, Nested
  <2> QED BY <2>1, <2>2, NothingBlocks, EmptyStacked
<1> HIDE DEF r, error
<1> QED BY <1>1, <1>2, <1>3, GivenUp

\* The geometry is complete.
LEMMA GeometryNewInv ==
  ASSUME Inv, GeometryNew PROVE Inv'
<1>1. /\ phase = "parsing" /\ value # Nothing /\ stack = <<>>
      /\ result' = [result EXCEPT !.geom = value] /\ value' = Nothing
      /\ text' = text /\ at' = at /\ stack' = stack /\ phase' = phase /\ heap' = heap
  BY DEF GeometryNew
<1>2. result = [geom |-> result.geom, error |-> result.error] /\ result.geom = Nothing
  BY <1>1 DEF Inv, TypeOK, Nested
<1>3. result' = [geom |-> value, error |-> result.error]
  BY <1>1, <1>2
<1>4. result'.geom = value /\ result'.error = result.error
  BY <1>3
<1>5. TypeOK'
  BY <1>1, <1>3, <1>4 DEF Inv, TypeOK, HeapType, Elements
<1>6. Nested'
  BY <1>1, <1>2 DEF Inv, Nested
<1>7. Blocks(value') = {} /\ Blocks(result.geom) = {} /\ Owned(stack') = {}
  BY <1>1, <1>2, NothingBlocks, EmptyStacked
<1>8. OwnedOnce'
  BY <1>1, <1>4, <1>7 DEF Inv, OwnedOnce
<1> QED BY <1>1, <1>5, <1>6, <1>8 DEF Inv

\* The steps that touch no construct.
LEMMA OtherStepsInv ==
  ASSUME Inv, ReadSrid \/ Accept \/ Return \/ (\E s \in Sources : ParseWkt(s)) \/ UNCHANGED vars
  PROVE  Inv'
<1>1. CASE ReadSrid
  <2>1. /\ at' = at + 2 /\ text' = text /\ stack' = stack /\ value' = value
        /\ result' = result /\ phase' = phase /\ heap' = heap
    BY <1>1 DEF ReadSrid
  <2>2. TypeOK'
    BY <2>1 DEF Inv, TypeOK, HeapType, Elements
  <2>3. Nested' /\ OwnedOnce' /\ Stacked(stack')
    BY <2>1 DEF Inv, Nested, OwnedOnce, Top
  <2> QED BY <2>2, <2>3 DEF Inv
<1>2. CASE Accept
  <2>1. /\ phase' = "returned" /\ at' = at /\ text' = text /\ stack' = stack /\ value' = value
        /\ result' = result /\ heap' = heap
    BY <1>2 DEF Accept
  <2>2. result.geom # Nothing
    <3>1. Sees({"$end"})
      BY <1>2 DEF Accept
    <3>2. value = Nothing /\ Token.t \in Expected /\ Token.t = "$end"
      BY <3>1, SeesFacts
    <3> QED BY <3>2, ExpectedFacts
  <2>3. TypeOK'
    BY <2>1 DEF Inv, TypeOK, HeapType, Elements
  <2>4. Nested' /\ OwnedOnce' /\ Stacked(stack')
    BY <2>1, <2>2 DEF Inv, Nested, OwnedOnce
  <2> QED BY <2>3, <2>4 DEF Inv
<1>3. CASE Return
  <2>1. /\ phase = "returned" /\ phase' = "idle" /\ text' = <<>> /\ at' = 1
        /\ heap' = [live |-> {}, made |-> 0, twice |-> FALSE]
        /\ result' = [result EXCEPT !.geom = Nothing] /\ stack' = stack /\ value' = value
    BY <1>3 DEF Return
  <2>2. stack = <<>> /\ value = Nothing
    BY <2>1 DEF Inv, Nested
  <2>3. result' = [geom |-> Nothing, error |-> result.error]
    BY <2>1 DEF Inv, TypeOK
  <2>4. result'.geom = Nothing /\ result'.error = result.error
    BY <2>3
  <2>5. TypeOK'
    <3>1. text' \in Seq(Tokens) /\ HeapType'
      BY <2>1 DEF HeapType
    <3> QED BY <2>1, <2>2, <2>3, <2>4, <3>1 DEF TypeOK, Elements
  <2>6. Stacked(stack') /\ Owned(stack') = {} /\ Blocks(value') = {} /\ Blocks(result'.geom) = {}
    BY <2>1, <2>2, <2>4, EmptyStacked, NothingBlocks
  <2>7. Nested' /\ OwnedOnce'
    BY <2>1, <2>2, <2>4, <2>6 DEF Nested, OwnedOnce
  <2> QED BY <2>5, <2>6, <2>7 DEF Inv
<1>4. CASE \E s \in Sources : ParseWkt(s)
  <2>1. PICK s \in Sources : ParseWkt(s)
    BY <1>4
  <2>2. /\ phase' = "parsing" /\ text' = s.text /\ at' = 1 /\ stack' = <<>> /\ value' = Nothing
        /\ result' = [geom |-> Nothing, error |-> ""]
        /\ heap' = [live |-> {}, made |-> 0, twice |-> FALSE]
    BY <2>1 DEF ParseWkt
  <2>3. s.text \in Seq(Tokens)
    BY SourcesAssumption DEF Tokens
  <2>4. result'.geom = Nothing /\ result'.error = ""
    BY <2>2
  <2>5. TypeOK'
    BY <2>2, <2>3, <2>4 DEF TypeOK, HeapType, Elements
  <2>6. Stacked(stack') /\ Owned(stack') = {} /\ Blocks(value') = {} /\ Blocks(result'.geom) = {}
    BY <2>2, <2>4, EmptyStacked, NothingBlocks
  <2>7. Nested' /\ OwnedOnce'
    BY <2>2, <2>4, <2>6 DEF Nested, OwnedOnce
  <2> QED BY <2>5, <2>6, <2>7 DEF Inv
<1>5. CASE UNCHANGED vars
  <2>1. /\ phase' = phase /\ at' = at /\ text' = text /\ stack' = stack /\ value' = value
        /\ result' = result /\ heap' = heap
    BY <1>5 DEF vars
  <2>2. TypeOK'
    BY <2>1 DEF Inv, TypeOK, HeapType, Elements
  <2>3. Nested' /\ OwnedOnce' /\ Stacked(stack')
    BY <2>1 DEF Inv, Nested, OwnedOnce, Top
  <2> QED BY <2>2, <2>3 DEF Inv
<1> QED BY <1>1, <1>2, <1>3, <1>4, <1>5

\* Before the first call.
LEMMA InitInv ==
  ASSUME Init PROVE Inv
<1>1. /\ text = <<>> /\ at = 1 /\ stack = <<>> /\ value = Nothing /\ phase = "idle"
      /\ result = [geom |-> Nothing, error |-> ""] /\ heap = [live |-> {}, made |-> 0, twice |-> FALSE]
  BY DEF Init
<1>2. result.geom = Nothing /\ result.error = ""
  BY <1>1
<1>3. TypeOK
  <2>1. text \in Seq(Tokens)
    <3>1. <<>> \in Seq(Tokens)
      OBVIOUS
    <3> QED BY <1>1, <3>1
  <2>2. HeapType
    BY <1>1 DEF HeapType
  <2> QED BY <1>1, <1>2, <2>1, <2>2 DEF TypeOK, Elements
<1>4. Stacked(stack) /\ Owned(stack) = {} /\ Blocks(value) = {} /\ Blocks(result.geom) = {}
  BY <1>1, <1>2, EmptyStacked, NothingBlocks
<1>5. Nested /\ OwnedOnce
  BY <1>1, <1>2, <1>4 DEF Nested, OwnedOnce
<1> QED BY <1>3, <1>4, <1>5 DEF Inv

\* The owners of the blocks are known in every state.
THEOREM WktInvariant == Spec => []Inv
<1>1. Inv /\ [Next]_vars => Inv'
  <2> SUFFICES ASSUME Inv, [Next]_vars PROVE Inv'
    OBVIOUS
  <2>1. CASE ReadSrid \/ Accept \/ Return \/ (\E s \in Sources : ParseWkt(s)) \/ UNCHANGED vars
    BY <2>1, OtherStepsInv
  <2>2. CASE Name \/ NameDimensions \/ Open \/ OpenBare \/ NextElement
    BY <2>2, NameInv, NameDimensionsInv, OpenInv, OpenBareInv, NextElementInv
  <2>3. CASE Empty \/ EmptyBare \/ ReadCoordinate \/ Close \/ Add
    BY <2>3, EmptyInv, EmptyBareInv, ReadCoordinateInv, CloseInv, AddInv
  <2>4. CASE GeometryNew \/ SyntaxError
    BY <2>4, GeometryNewInv, SyntaxErrorInv
  <2> QED BY <2>1, <2>2, <2>3, <2>4 DEF Next, Parse
<1> QED BY <1>1, InitInv, PTL DEF Spec

\* However a text is hurt and wherever its reading ends, every block the parser made was
\* freed once, or is part of the geometry the caller gets.
THEOREM NothingLostCorrect == Spec => []NothingLost
<1>1. Inv => NothingLost
  <2> SUFFICES ASSUME Inv PROVE NothingLost
    OBVIOUS
  <2>1. phase = "returned" => stack = <<>> /\ value = Nothing
    BY DEF Inv, Nested
  <2>2. /\ ~ heap.twice
        /\ heap.live = Owned(stack) \cup Blocks(value) \cup Blocks(result.geom)
    BY DEF Inv, OwnedOnce
  <2> QED BY <2>1, <2>2, EmptyStacked, NothingBlocks DEF NothingLost
<1> QED BY <1>1, WktInvariant, PTL

-----------------------------------------------------------------------------
(* What is below a path *)

\* A path and what was put behind it.
LEMMA ConcatParts ==
  ASSUME NEW p \in Seq(Nat), NEW r \in Seq(Nat)
  PROVE  /\ p \o r \in Seq(Nat) /\ Len(p) <= Len(p \o r)
         /\ SubSeq(p \o r, 1, Len(p)) = p /\ SubSeq(p \o r, Len(p) + 1, Len(p \o r)) = r
<1> DEFINE q == p \o r
           m == Len(p)
           n == Len(r)
<1>1. /\ q \in Seq(Nat) /\ Len(q) = m + n
      /\ \A i \in 1 .. m + n : q[i] = IF i <= m THEN p[i] ELSE r[i - m]
  BY ConcatProperties
<1>2. m \in Nat /\ n \in Nat /\ p = [i \in 1 .. m |-> p[i]] /\ r = [i \in 1 .. n |-> r[i]]
  BY LenProperties
<1> HIDE DEF q, m, n
<1>3. SubSeq(q, 1, m) = [i \in 1 .. m |-> q[i]]
  BY <1>1, <1>2
<1>4. \A i \in 1 .. m : q[i] = p[i]
  BY <1>1, <1>2
<1>5. SubSeq(q, 1, m) = p
  BY <1>2, <1>3, <1>4
<1>6. SubSeq(q, m + 1, m + n) = [i \in 1 .. n |-> q[i + m]]
  <2>1. SubSeq(q, m + 1, Len(q)) = [i \in 1 .. Len(q) - m |-> q[i + m]]
    <3>1. q \in Seq(Nat) /\ m \in Nat
      BY <1>1, <1>2
    <3> QED BY ONLY <3>1
  <2>2. Len(q) = m + n /\ Len(q) - m = n
    BY <1>1, <1>2
  <2> QED BY <2>1, <2>2
<1>7. \A i \in 1 .. n : q[i + m] = r[i]
  <2> SUFFICES ASSUME NEW i \in 1 .. n PROVE q[i + m] = r[i]
    OBVIOUS
  <2>1. i + m \in 1 .. m + n /\ ~ (i + m <= m) /\ (i + m) - m = i
    BY <1>2
  <2> QED BY <1>1, <2>1
<1>8. SubSeq(q, m + 1, m + n) = r
  BY <1>2, <1>6, <1>7
<1> QED BY <1>1, <1>2, <1>5, <1>8 DEF q, m, n

\* The places are paths.
HasPaths(v) == DOMAIN v \subseteq Seq(Nat)

\* Below these paths two trees have the same blocks at the same places.
SameBelow(v, p, w, q) ==
  /\ \A r \in Seq(Nat) : p \o r \in DOMAIN v <=> q \o r \in DOMAIN w
  /\ \A r \in Seq(Nat) : p \o r \in DOMAIN v => v[p \o r] = w[q \o r]

\* What is below a path.
LEMMA SubtreeFacts ==
  ASSUME NEW v, HasPaths(v), NEW p \in Seq(Nat)
  PROVE  /\ DOMAIN Subtree(v, p) = {r \in Seq(Nat) : p \o r \in DOMAIN v}
         /\ \A r \in DOMAIN Subtree(v, p) : Subtree(v, p)[r] = v[p \o r]
         /\ Subtree(v, p) = [r \in {r \in Seq(Nat) : p \o r \in DOMAIN v} |-> v[p \o r]]
<1> DEFINE below == {q \in DOMAIN v : Len(p) <= Len(q) /\ SubSeq(q, 1, Len(p)) = p}
           paths == {SubSeq(q, Len(p) + 1, Len(q)) : q \in below}
           rest == {r \in Seq(Nat) : p \o r \in DOMAIN v}
<1>1. ASSUME NEW q \in below
      PROVE  SubSeq(q, Len(p) + 1, Len(q)) \in rest
  <2>1. q \in Seq(Nat) /\ q \in DOMAIN v /\ Len(p) <= Len(q) /\ SubSeq(q, 1, Len(p)) = p
    BY DEF HasPaths
  <2>2. Len(p) \in Nat /\ Len(q) \in Nat
    BY <2>1, LenProperties
  <2> DEFINE m == Len(p)
             n == Len(q)
  <2> HIDE DEF m, n
  <2>3. m \in Nat /\ n \in Nat /\ m <= n
    BY <2>1, <2>2 DEF m, n
  <2>4. 1 \in 1 .. n + 1 /\ m \in 1 - 1 .. n /\ n \in m .. n
    BY <2>3
  <2>5. SubSeq(q, 1, m) \o SubSeq(q, m + 1, n) = SubSeq(q, 1, n)
    BY <2>1, <2>4, ConcatAdjacentSubSeq DEF n
  <2>6. SubSeq(q, 1, n) = q
    BY <2>1, SubSeqFull DEF n
  <2>7. SubSeq(q, m + 1, n) \in Seq(Nat)
    <3>1. SubSeq(q, m + 1, n) = [i \in 1 .. n - m |-> q[i + m]]
      BY <2>1, <2>3
    <3>2. \A i \in 1 .. n - m : q[i + m] \in Nat
      <4>1. \A i \in 1 .. n - m : i + m \in 1 .. n
        BY <2>3
      <4> QED BY <4>1, <2>1, ElementOfSeq DEF n
    <3> DEFINE k == n - m
    <3>3. k \in Nat
      BY <2>3
    <3> HIDE DEF k
    <3>4. [i \in 1 .. k |-> q[i + m]] \in Seq(Nat)
      BY <3>2, <3>3 DEF k
    <3> QED BY <3>1, <3>4 DEF k
  <2> QED BY <2>1, <2>5, <2>6, <2>7 DEF m, n
<1>2. ASSUME NEW r \in rest PROVE r \in paths
  <2>1. r \in Seq(Nat) /\ p \o r \in DOMAIN v
    OBVIOUS
  <2>2. p \o r \in below /\ r = SubSeq(p \o r, Len(p) + 1, Len(p \o r))
    BY <2>1, ConcatParts
  <2> HIDE DEF below
  <2> QED BY <2>2
<1>3. paths = rest
  <2>1. \A r \in paths : r \in rest
    BY <1>1
  <2>2. \A r \in rest : r \in paths
    BY <1>2
  <2> HIDE DEF paths, rest
  <2> QED BY <2>1, <2>2
<1>4. Subtree(v, p) = [r \in paths |-> v[p \o r]]
  BY DEF Subtree
<1>5. Subtree(v, p) = [r \in rest |-> v[p \o r]]
  BY <1>3, <1>4
<1> HIDE DEF rest, paths, below
<1>6. DOMAIN Subtree(v, p) = rest /\ \A r \in rest : Subtree(v, p)[r] = v[p \o r]
  BY <1>5
<1> QED BY <1>5, <1>6 DEF rest

\* Two trees with the same blocks at the same places are the same below a path.
LEMMA SubtreeSame ==
  ASSUME NEW v, NEW w, HasPaths(v), HasPaths(w), NEW p \in Seq(Nat), NEW q \in Seq(Nat),
         SameBelow(v, p, w, q)
  PROVE  Subtree(v, p) = Subtree(w, q)
<1> DEFINE D == {r \in Seq(Nat) : p \o r \in DOMAIN v}
           E == {r \in Seq(Nat) : q \o r \in DOMAIN w}
<1>1. Subtree(v, p) = [r \in D |-> v[p \o r]] /\ Subtree(w, q) = [r \in E |-> w[q \o r]]
  BY SubtreeFacts
<1>2. D = E
  BY DEF SameBelow
<1>3. \A r \in D : v[p \o r] = w[q \o r]
  BY DEF SameBelow
<1> HIDE DEF D, E
<1> QED BY <1>1, <1>2, <1>3

\* Below the root is the whole tree.
LEMMA SubtreeWhole ==
  ASSUME NEW v, HasPaths(v), v = [p \in DOMAIN v |-> v[p]]
  PROVE  Subtree(v, <<>>) = v
<1> DEFINE D == {r \in Seq(Nat) : <<>> \o r \in DOMAIN v}
<1>1. <<>> \in Seq(Nat)
  OBVIOUS
<1>2. Subtree(v, <<>>) = [r \in D |-> v[<<>> \o r]]
  BY <1>1, SubtreeFacts
<1>3. \A r \in Seq(Nat) : <<>> \o r = r
  BY ConcatEmptySeq
<1>4. D = DOMAIN v
  BY <1>3 DEF HasPaths
<1>5. \A r \in DOMAIN v : v[<<>> \o r] = v[r]
  BY <1>3 DEF HasPaths
<1> HIDE DEF D
<1> QED BY <1>2, <1>4, <1>5

\* Below a path below a path.
LEMMA SubtreeBelow ==
  ASSUME NEW v, HasPaths(v), NEW p \in Seq(Nat), NEW q \in Seq(Nat)
  PROVE  /\ HasPaths(Subtree(v, p))
         /\ Subtree(Subtree(v, p), q) = Subtree(v, p \o q)
<1> DEFINE u == Subtree(v, p)
<1>1. DOMAIN u = {r \in Seq(Nat) : p \o r \in DOMAIN v} /\ \A r \in DOMAIN u : u[r] = v[p \o r]
  BY SubtreeFacts
<1> HIDE DEF u
<1>2. HasPaths(u) /\ p \o q \in Seq(Nat)
  BY <1>1, ConcatProperties DEF HasPaths
<1>3. ASSUME NEW r \in Seq(Nat)
      PROVE  /\ q \o r \in DOMAIN u <=> (p \o q) \o r \in DOMAIN v
             /\ q \o r \in DOMAIN u => u[q \o r] = v[(p \o q) \o r]
  <2>1. (p \o q) \o r = p \o (q \o r)
    BY ConcatAssociative
  <2>2. q \o r \in Seq(Nat)
    BY ConcatProperties
  <2> QED BY <1>1, <2>1, <2>2
<1>4. Subtree(u, q) = Subtree(v, p \o q)
  <2> DEFINE s == p \o q
  <2>1. SameBelow(u, q, v, s)
    BY <1>3 DEF SameBelow
  <2>2. s \in Seq(Nat)
    BY <1>2
  <2> HIDE DEF s
  <2>3. Subtree(u, q) = Subtree(v, s)
    BY <1>2, <2>1, <2>2, SubtreeSame
  <2> QED BY <2>3 DEF s
<1> QED BY <1>2, <1>4 DEF u

\* The root of what is below a path.
LEMMA SubtreeRoot ==
  ASSUME NEW v, HasPaths(v), NEW p \in DOMAIN v
  PROVE  <<>> \in DOMAIN Subtree(v, p) /\ Root(Subtree(v, p)) = v[p]
<1>1. p \in Seq(Nat) /\ p \o <<>> = p /\ <<>> \in Seq(Nat)
  BY ConcatEmptySeq DEF HasPaths
<1> DEFINE u == Subtree(v, p)
           e == <<>>
<1>2. /\ DOMAIN u = {r \in Seq(Nat) : p \o r \in DOMAIN v}
      /\ \A r \in DOMAIN u : u[r] = v[p \o r]
  BY <1>1, SubtreeFacts
<1>3. e \in Seq(Nat) /\ p \o e = p
  BY <1>1
<1> HIDE DEF u, e
<1>4. e \in DOMAIN u /\ u[e] = v[p]
  BY <1>2, <1>3
<1> QED BY <1>4 DEF Root, u, e

\* A step is a path.
LEMMA StepPath ==
  ASSUME NEW i \in Nat
  PROVE  <<i>> \in Seq(Nat) /\ <<i>> # <<>> /\ <<i>>[1] = i /\ <<i>> \o <<>> = <<i>>
<1>1. <<i>> \in Seq(Nat) /\ <<i>> # <<>> /\ <<i>>[1] = i
  OBVIOUS
<1> QED BY <1>1, ConcatEmptySeq

\* The first step of a longer path.
LEMMA LongerPath ==
  ASSUME NEW p \in Seq(Nat), NEW r \in Seq(Nat), p # <<>>
  PROVE  p \o r \in Seq(Nat) /\ p \o r # <<>> /\ (p \o r)[1] = p[1]
<1>1. Len(p) \in Nat \ {0} /\ Len(r) \in Nat
  BY EmptySeq, LenProperties
<1>2. /\ p \o r \in Seq(Nat) /\ Len(p \o r) = Len(p) + Len(r)
      /\ \A i \in 1 .. Len(p) + Len(r) : (p \o r)[i] = IF i <= Len(p) THEN p[i] ELSE r[i - Len(p)]
  BY ConcatProperties
<1>3. 1 \in 1 .. Len(p) + Len(r) /\ 1 <= Len(p)
  BY <1>1
<1>4. (p \o r)[1] = p[1]
  BY <1>2, <1>3
<1>5. Len(p \o r) # 0
  BY <1>1, <1>2
<1> QED BY <1>2, <1>4, <1>5, EmptySeq

\* The blocks of the last part.
LEMMA WithBelow ==
  ASSUME NEW v, NEW w, Tree(v), Tree(w), NEW q \in DOMAIN w
  PROVE  With(v, w)[<<Root(v).parts + 1>> \o q] = w[q]
<1> DEFINE u == With(v, w)
           k == Root(v).parts + 1
           s == <<k>> \o q
           paths == {<<k>> \o r : r \in DOMAIN w}
<1>1. Root(v).parts \in Nat /\ q \in Seq(Nat)
  BY TreeSet DEF Tree, BlockRecords
<1>2. k \in Nat
  BY <1>1
<1>3. s \in paths
  OBVIOUS
<1>4. u = [p \in DOMAIN v \cup paths |->
             CASE p \in paths -> w[Tail(p)] [] p = <<>> -> [Root(v) EXCEPT !.parts = k] [] OTHER -> v[p]]
  BY DEF With
<1> HIDE DEF k
<1>5. Tail(s) = q /\ s # <<>>
  BY <1>1, <1>2, StepFacts
<1> HIDE DEF u, paths, s
<1>6. u[s] = w[Tail(s)]
  BY <1>3, <1>4, <1>5
<1>7. u[s] = w[q]
  BY <1>5, <1>6
<1> QED BY <1>7 DEF u, s, k

\* What is below the paths of a tree with one more part.
LEMMA SubtreeOfWith ==
  ASSUME NEW v, NEW w, Tree(v), Tree(w)
  PROVE  LET u == With(v, w)
             k == Root(v).parts + 1
         IN  /\ \A q \in DOMAIN w : <<k>> \o q \in DOMAIN u /\ Subtree(u, <<k>> \o q) = Subtree(w, q)
             /\ \A p \in DOMAIN v : p # <<>> => p \in DOMAIN u /\ Subtree(u, p) = Subtree(v, p)
             /\ \A p \in DOMAIN u : p \in DOMAIN v \/ \E q \in DOMAIN w : p = <<k>> \o q
             /\ k \in Nat /\ Root(v).parts \in Nat
<1> DEFINE u == With(v, w)
           k == Root(v).parts + 1
<1>1. /\ Tree(u) /\ DOMAIN u = DOMAIN v \cup {<<k>> \o q : q \in DOMAIN w}
      /\ \A p \in DOMAIN v : p # <<>> => u[p] = v[p]
      /\ \A q \in DOMAIN w : u[<<k>> \o q] = w[q]
  <2>1. Tree(u) /\ \A p \in DOMAIN v : p # <<>> => u[p] = v[p]
    BY ONLY WithFacts, Tree(v), Tree(w)
  <2>2. \A q \in DOMAIN w : u[<<k>> \o q] = w[q]
    BY WithBelow
  <2>3. DOMAIN u = DOMAIN v \cup {<<k>> \o q : q \in DOMAIN w}
    BY DEF With
  <2> QED BY <2>1, <2>2, <2>3
<1>2. Root(v).parts \in Nat /\ k \in Nat /\ k = Root(v).parts + 1
  BY TreeSet DEF BlockRecords
<1>3. DOMAIN u \subseteq Seq(Nat) /\ DOMAIN v \subseteq Seq(Nat) /\ DOMAIN w \subseteq Seq(Nat)
  BY <1>1 DEF Tree
<1>9. HasPaths(u) /\ HasPaths(v) /\ HasPaths(w)
  BY <1>3 DEF HasPaths
<1>4. \A p \in DOMAIN v : p # <<>> => p[1] \in 1 .. Root(v).parts
  BY DEF Tree
<1> HIDE DEF u, k
<1>5. ASSUME NEW r \in Seq(Nat), <<k>> \o r \in DOMAIN u PROVE r \in DOMAIN w
  <2>1. <<k>> \o r # <<>> /\ (<<k>> \o r)[1] = k /\ Tail(<<k>> \o r) = r
    BY <1>2, StepFacts
  <2>2. <<k>> \o r \notin DOMAIN v
    <3>1. ~ (k \in 1 .. Root(v).parts)
      BY <1>2
    <3> QED BY <2>1, <3>1, <1>4
  <2>3. PICK q \in DOMAIN w : <<k>> \o r = <<k>> \o q
    BY <2>2, <1>1, <1>5
  <2>4. q \in Seq(Nat)
    BY <1>3
  <2>5. Tail(<<k>> \o q) = q
    BY <1>2, <2>4, StepFacts
  <2> QED BY <2>1, <2>3, <2>5
<1>6. ASSUME NEW q \in DOMAIN w
      PROVE  <<k>> \o q \in DOMAIN u /\ Subtree(u, <<k>> \o q) = Subtree(w, q)
  <2> DEFINE s == <<k>> \o q
  <2>1. <<k>> \in Seq(Nat) /\ q \in Seq(Nat)
    BY <1>2, <1>3
  <2>2. s \in Seq(Nat) /\ s \in DOMAIN u
    BY <2>1, <1>1, ConcatProperties
  <2>3. \A r \in Seq(Nat) : q \o r \in Seq(Nat) /\ s \o r = <<k>> \o (q \o r)
    BY <2>1, ConcatAssociative, ConcatProperties
  <2>4. \A r \in Seq(Nat) : s \o r \in DOMAIN u <=> q \o r \in DOMAIN w
    <3>1. ASSUME NEW r \in Seq(Nat), s \o r \in DOMAIN u PROVE q \o r \in DOMAIN w
      BY <3>1, <2>3, <1>5
    <3>2. ASSUME NEW r \in Seq(Nat), q \o r \in DOMAIN w PROVE s \o r \in DOMAIN u
      BY <3>2, <2>3, <1>1
    <3> QED BY <3>1, <3>2
  <2>5. \A r \in Seq(Nat) : s \o r \in DOMAIN u => u[s \o r] = w[q \o r]
    BY <2>3, <2>4, <1>1
  <2>7. SameBelow(u, s, w, q)
    BY <2>4, <2>5 DEF SameBelow
  <2> HIDE DEF s
  <2>6. Subtree(u, s) = Subtree(w, q)
    BY <1>9, <2>1, <2>2, <2>7, SubtreeSame
  <2> QED BY <2>2, <2>6 DEF s
<1>7. ASSUME NEW p \in DOMAIN v, p # <<>>
      PROVE  p \in DOMAIN u /\ Subtree(u, p) = Subtree(v, p)
  <2>1. p \in Seq(Nat) /\ p[1] \in 1 .. Root(v).parts
    BY <1>3, <1>4, <1>7
  <2>2. \A r \in Seq(Nat) : p \o r \in DOMAIN u <=> p \o r \in DOMAIN v
    <3> SUFFICES ASSUME NEW r \in Seq(Nat), p \o r \in DOMAIN u PROVE p \o r \in DOMAIN v
      BY <1>1
    <3>1. (p \o r)[1] = p[1]
      BY <2>1, <1>7, LongerPath
    <3>2. ASSUME NEW q \in DOMAIN w, p \o r = <<k>> \o q PROVE FALSE
      <4>1. (<<k>> \o q)[1] = k
        BY <1>2, <1>3, StepFacts
      <4> QED BY <4>1, <3>1, <3>2, <2>1, <1>2
    <3> QED BY <3>2, <1>1
  <2>3. \A r \in Seq(Nat) : p \o r \in DOMAIN u => u[p \o r] = v[p \o r]
    <3> SUFFICES ASSUME NEW r \in Seq(Nat), p \o r \in DOMAIN u PROVE u[p \o r] = v[p \o r]
      OBVIOUS
    <3>1. p \o r \in DOMAIN v /\ p \o r # <<>>
      BY <2>1, <2>2, <1>7, LongerPath
    <3> QED BY <3>1, <1>1
  <2>5. SameBelow(u, p, v, p)
    BY <2>2, <2>3 DEF SameBelow
  <2>4. Subtree(u, p) = Subtree(v, p)
    BY <1>9, <2>1, <2>5, SubtreeSame
  <2> QED BY <2>4, <1>1
<1>8. \A p \in DOMAIN u : p \in DOMAIN v \/ \E q \in DOMAIN w : p = <<k>> \o q
  BY <1>1
<1> QED BY <1>2, <1>6, <1>7, <1>8 DEF u, k

\* Naming the dimensions of the whole names those of what is below.
LEMMA SubtreeOfSetDims ==
  ASSUME NEW v, HasPaths(v), NEW p \in Seq(Nat), NEW flags
  PROVE  Subtree(SetDims(v, flags), p) = SetDims(Subtree(v, p), flags)
<1> DEFINE u == SetDims(v, flags)
           D == {r \in Seq(Nat) : p \o r \in DOMAIN v}
<1>1. DOMAIN u = DOMAIN v /\ \A q \in DOMAIN v : u[q] = Flagged(v[q], flags)
  BY DEF SetDims
<1> HIDE DEF u
<1>2. Subtree(u, p) = [r \in D |-> u[p \o r]]
  <2>1. HasPaths(u)
    BY <1>1 DEF HasPaths
  <2>2. Subtree(u, p) = [r \in {r \in Seq(Nat) : p \o r \in DOMAIN u} |-> u[p \o r]]
    BY <2>1, SubtreeFacts
  <2> QED BY <1>1, <2>2
<1>3. \A r \in D : u[p \o r] = Flagged(v[p \o r], flags)
  BY <1>1
<1>4. DOMAIN Subtree(v, p) = D /\ \A r \in D : Subtree(v, p)[r] = v[p \o r]
  BY SubtreeFacts
<1> HIDE DEF D
<1>5. SetDims(Subtree(v, p), flags) = [r \in D |-> Flagged(v[p \o r], flags)]
  BY <1>4 DEF SetDims
<1> QED BY <1>2, <1>3, <1>5 DEF u

\* Another root changes nothing below.
LEMMA SubtreeOfWithRoot ==
  ASSUME NEW v, HasPaths(v), NEW p \in Seq(Nat), p # <<>>, NEW block
  PROVE  Subtree(WithRoot(v, block), p) = Subtree(v, p)
<1> DEFINE u == WithRoot(v, block)
<1>1. DOMAIN u = DOMAIN v /\ \A q \in DOMAIN v : q # <<>> => u[q] = v[q]
  BY DEF WithRoot
<1> HIDE DEF u
<1>2. \A r \in Seq(Nat) : p \o r # <<>>
  BY LongerPath
<1>4. SameBelow(u, p, v, p) /\ HasPaths(u)
  BY <1>1, <1>2 DEF SameBelow, HasPaths
<1>3. Subtree(u, p) = Subtree(v, p)
  BY <1>4, SubtreeSame
<1> QED BY <1>3 DEF u

\* The parts of a tree with one more part.
LEMMA PartsOfWith ==
  ASSUME NEW v, NEW w, Tree(v), Tree(w)
  PROVE  LET u == With(v, w)
             k == Root(v).parts + 1
         IN  /\ Part(u, k) = w
             /\ \A i \in 1 .. Root(v).parts : Part(u, i) = Part(v, i)
             /\ Root(u) = [Root(v) EXCEPT !.parts = k] /\ k \in Nat /\ Root(v).parts \in Nat
<1> DEFINE u == With(v, w)
           k == Root(v).parts + 1
<1>1. /\ \A q \in DOMAIN w : Subtree(u, <<k>> \o q) = Subtree(w, q)
      /\ \A p \in DOMAIN v : p # <<>> => Subtree(u, p) = Subtree(v, p)
      /\ k \in Nat /\ Root(v).parts \in Nat
  BY ONLY SubtreeOfWith, Tree(v), Tree(w)
<1>2. Root(u) = [Root(v) EXCEPT !.parts = k]
  BY ONLY WithFacts, Tree(v), Tree(w)
<1> HIDE DEF u, k
<1>3. Part(u, k) = w
  <2>1. <<>> \in DOMAIN w /\ <<k>> \o <<>> = <<k>>
    BY <1>1, StepPath DEF Tree
  <2>2. Subtree(w, <<>>) = w
    BY SubtreeWhole DEF Tree, HasPaths
  <2>3. Subtree(u, <<k>> \o <<>>) = Subtree(w, <<>>)
    BY <1>1, <2>1
  <2> QED BY <2>1, <2>2, <2>3 DEF Part
<1>4. ASSUME NEW i \in 1 .. Root(v).parts PROVE Part(u, i) = Part(v, i)
  <2>1. <<i>> \in DOMAIN v /\ <<i>> # <<>>
    BY <1>1, StepPath DEF Tree
  <2> QED BY <1>1, <2>1 DEF Part
<1> QED BY <1>1, <1>2, <1>3, <1>4 DEF u, k

-----------------------------------------------------------------------------
(* The same geometry with other dimensions *)

\* What there is below a path: blocks at paths.
Branch(v) == HasPaths(v) /\ \A p \in DOMAIN v : v[p] \in BlockRecords

\* A tree is a branch with a root and the parts it counts.
LEMMA TreeBranch ==
  ASSUME NEW v, Tree(v)
  PROVE  /\ Branch(v) /\ HasPaths(v) /\ <<>> \in DOMAIN v /\ Root(v) \in BlockRecords /\ Root(v).parts \in Nat
         /\ Subtree(v, <<>>) = v
         /\ \A i \in 1 .. Root(v).parts : <<i>> \in DOMAIN v /\ i \in Nat /\ <<i>> \in Seq(Nat)
<1>1. Branch(v) /\ HasPaths(v) /\ <<>> \in DOMAIN v /\ Root(v) \in BlockRecords
  BY TreeSet DEF Tree, Branch, HasPaths
<1>2. v = [p \in DOMAIN v |-> v[p]]
  BY DEF Tree
<1>3. Subtree(v, <<>>) = v
  BY <1>1, <1>2, SubtreeWhole
<1>4. Root(v).parts \in Nat
  BY <1>1 DEF BlockRecords
<1>5. \A i \in 1 .. Root(v).parts : <<i>> \in DOMAIN v /\ i \in Nat /\ <<i>> \in Seq(Nat)
  <2>1. \A i \in 1 .. Root(v).parts : i \in Nat
    BY <1>4
  <2> QED BY <2>1, StepPath DEF Tree
<1> QED BY <1>1, <1>3, <1>4, <1>5

\* What is below a path is a branch.
LEMMA SubtreeBranch ==
  ASSUME NEW v, Branch(v), NEW p \in Seq(Nat)
  PROVE  Branch(Subtree(v, p))
<1>1. HasPaths(v)
  BY DEF Branch
<1>2. /\ DOMAIN Subtree(v, p) = {r \in Seq(Nat) : p \o r \in DOMAIN v}
      /\ \A r \in DOMAIN Subtree(v, p) : Subtree(v, p)[r] = v[p \o r]
  BY <1>1, SubtreeFacts
<1> QED BY <1>2 DEF Branch, HasPaths

\* Naming the dimensions changes nothing else.
LEMMA FlaggedFacts ==
  ASSUME NEW b \in BlockRecords, NEW flags, HasFlags(flags)
  PROVE  LET f == Flagged(b, flags)
         IN  /\ f \in BlockRecords /\ f.id = b.id /\ f.type = b.type /\ f.pts = b.pts /\ f.parts = b.parts
             /\ f.z = flags.z /\ f.m = flags.m /\ NDims(f) = NDims(flags)
BY DEF Flagged, BlockRecords, HasFlags, NDims

\* The same geometry with other dimensions.
Relabelled(u, v, flags) ==
  /\ Root(u).type = Root(v).type /\ Root(u).pts = Root(v).pts /\ Root(u).parts = Root(v).parts
  /\ NDims(Root(u)) = NDims(flags)
  /\ PointsOf(u) = PointsOf(v) /\ (TooShort(u) <=> TooShort(v))
  /\ ClosedCurve(u, 2) <=> ClosedCurve(v, 2)

\* Naming the dimensions moves no point.
LEMMA PointsOfSetDims ==
  ASSUME NEW v, Branch(v), NEW flags, HasFlags(flags)
  PROVE  PointsOf(SetDims(v, flags)) = PointsOf(v)
<1> DEFINE u == SetDims(v, flags)
<1>1. DOMAIN u = DOMAIN v /\ \A p \in DOMAIN v : u[p] = Flagged(v[p], flags)
  BY DEF SetDims
<1>2. \A p \in DOMAIN v : u[p].pts = v[p].pts
  BY <1>1, FlaggedFacts DEF Branch
<1> HIDE DEF u
<1>3. PointsOf(u) = PointsOf(v)
  BY <1>1, <1>2 DEF PointsOf
<1> QED BY <1>3 DEF u

\* It joins and parts no curves.
LEMMA JoinedSetDims ==
  ASSUME NEW v, NEW w, Branch(v), Branch(w), NEW flags, HasFlags(flags)
  PROVE  Joined(SetDims(v, flags), SetDims(w, flags), 2) <=> Joined(v, w, 2)
<1>1. PointsOf(SetDims(v, flags)) = PointsOf(v) /\ PointsOf(SetDims(w, flags)) = PointsOf(w)
  BY PointsOfSetDims
<1> QED BY <1>1 DEF Joined

\* It keeps the number of points.
LEMMA VerticesSetDims ==
  ASSUME NEW v, Branch(v), NEW flags, HasFlags(flags)
  PROVE  Vertices(SetDims(v, flags)) = Vertices(v)
<1> DEFINE u == SetDims(v, flags)
<1>1. DOMAIN u = DOMAIN v /\ \A p \in DOMAIN v : u[p] = Flagged(v[p], flags)
  BY DEF SetDims
<1>2. \A p \in DOMAIN v : u[p].pts = v[p].pts
  BY <1>1, FlaggedFacts DEF Branch
<1> HIDE DEF u
<1>3. [p \in DOMAIN u |-> Len(u[p].pts)] = [p \in DOMAIN v |-> Len(v[p].pts)]
  BY <1>1, <1>2
<1>4. Vertices(u) = Vertices(v)
  BY <1>3 DEF Vertices
<1> QED BY <1>4 DEF u

\* It goes through to the parts.
LEMMA PartOfSetDims ==
  ASSUME NEW v, Branch(v), NEW i \in Nat, NEW flags, HasFlags(flags)
  PROVE  Part(SetDims(v, flags), i) = SetDims(Part(v, i), flags) /\ Branch(Part(v, i))
<1>1. <<i>> \in Seq(Nat) /\ HasPaths(v)
  BY StepPath DEF Branch
<1> DEFINE p == <<i>>
<1> HIDE DEF p
<1>2. p \in Seq(Nat)
  BY <1>1 DEF p
<1>3. Subtree(SetDims(v, flags), p) = SetDims(Subtree(v, p), flags) /\ Branch(Subtree(v, p))
  BY <1>1, <1>2, SubtreeOfSetDims, SubtreeBranch
<1> QED BY <1>3 DEF Part, p

\* It changes a geometry in nothing that the promises look at in the plane.
LEMMA RelabelledSetDims ==
  ASSUME NEW v, Branch(v), <<>> \in DOMAIN v, NEW flags, HasFlags(flags)
  PROVE  Relabelled(SetDims(v, flags), v, flags)
<1> DEFINE u == SetDims(v, flags)
           n == Root(v).parts
<1>1. Root(u) = Flagged(Root(v), flags) /\ Root(v) \in BlockRecords
  BY DEF SetDims, Root, Branch
<1>2. PointsOf(u) = PointsOf(v) /\ Vertices(u) = Vertices(v)
  BY PointsOfSetDims, VerticesSetDims
<1>3. n \in Nat
  BY <1>1 DEF BlockRecords
<1>4. Part(u, n) = SetDims(Part(v, n), flags) /\ Branch(Part(v, n))
      /\ Part(u, 1) = SetDims(Part(v, 1), flags) /\ Branch(Part(v, 1))
  BY <1>3, PartOfSetDims
<1>5. Joined(Part(u, n), Part(u, 1), 2) <=> Joined(Part(v, n), Part(v, 1), 2)
  BY <1>4, JoinedSetDims
<1> HIDE DEF u
<1>6. /\ Root(u).type = Root(v).type /\ Root(u).pts = Root(v).pts /\ Root(u).parts = n
      /\ NDims(Root(u)) = NDims(flags)
  BY <1>1, FlaggedFacts
<1>7. ClosedCurve(u, 2) <=> ClosedCurve(v, 2)
  BY <1>2, <1>5, <1>6 DEF ClosedCurve
<1>9. TooShort(u) <=> TooShort(v)
  BY <1>2, <1>6 DEF TooShort
<1>8. Relabelled(u, v, flags)
  BY <1>2, <1>6, <1>7, <1>9 DEF Relabelled
<1> QED BY <1>8 DEF u

\* The same for every part.
LEMMA PartsOfSetDims ==
  ASSUME NEW v, Tree(v), NEW flags, HasFlags(flags), NEW i \in 1 .. Root(v).parts
  PROVE  /\ Relabelled(Part(SetDims(v, flags), i), Part(v, i), flags)
         /\ Part(SetDims(v, flags), i) = SetDims(Part(v, i), flags)
         /\ Branch(Part(v, i)) /\ <<>> \in DOMAIN Part(v, i)
<1>1. <<i>> \in DOMAIN v /\ i \in Nat /\ HasPaths(v) /\ Branch(v)
  BY TreeBranch
<1>2. Part(SetDims(v, flags), i) = SetDims(Part(v, i), flags) /\ Branch(Part(v, i))
  BY <1>1, PartOfSetDims
<1>3. <<>> \in DOMAIN Part(v, i)
  BY <1>1, SubtreeRoot DEF Part
<1>4. Relabelled(SetDims(Part(v, i), flags), Part(v, i), flags)
  BY <1>2, <1>3, RelabelledSetDims
<1> QED BY <1>2, <1>3, <1>4

\* Naming the dimensions keeps the promises.
LEMMA PromiseSetDims ==
  ASSUME NEW v, Tree(v), NEW flags, HasFlags(flags), Promise(v)
  PROVE  Promise(SetDims(v, flags))
<1> DEFINE u == SetDims(v, flags)
           n == Root(v).parts
<1>1. Relabelled(u, v, flags)
  BY TreeBranch, RelabelledSetDims
<1>2. \A i \in 1 .. n : Relabelled(Part(u, i), Part(v, i), flags)
  BY PartsOfSetDims
<1>3. ASSUME NEW i \in 2 .. n
      PROVE  Joined(Part(u, i - 1), Part(u, i), 2) <=> Joined(Part(v, i - 1), Part(v, i), 2)
  <2>1. i \in 1 .. n /\ i - 1 \in 1 .. n
    BY TreeBranch
  <2> DEFINE k == i - 1
  <2> HIDE DEF k
  <2>2. /\ Part(u, i) = SetDims(Part(v, i), flags) /\ Branch(Part(v, i))
        /\ Part(u, k) = SetDims(Part(v, k), flags) /\ Branch(Part(v, k))
    BY <2>1, PartsOfSetDims DEF k
  <2>3. Joined(Part(u, k), Part(u, i), 2) <=> Joined(Part(v, k), Part(v, i), 2)
    BY <2>2, JoinedSetDims
  <2> QED BY <2>3 DEF k
<1> HIDE DEF u, n
<1>4. /\ Root(u).type = Root(v).type /\ PointsOf(u) = PointsOf(v) /\ Root(u).parts = n
      /\ NDims(Root(u)) = NDims(flags) /\ n = Root(v).parts
  BY <1>1 DEF Relabelled, n
<1>5. \A i \in 1 .. n :
        /\ Root(Part(u, i)).pts = Root(Part(v, i)).pts /\ NDims(Root(Part(u, i))) = NDims(flags)
        /\ TooShort(Part(u, i)) <=> TooShort(Part(v, i))
        /\ ClosedCurve(Part(u, i), 2) <=> ClosedCurve(Part(v, i), 2)
  BY <1>2 DEF Relabelled
<1>6. \A i \in 1 .. n : IsClosed2d(Root(Part(u, i))) <=> IsClosed2d(Root(Part(v, i)))
  BY <1>5 DEF IsClosed2d
<1>7. Promise(u)
  BY <1>3, <1>4, <1>5, <1>6 DEF Promise
<1> QED BY <1>7 DEF u

-----------------------------------------------------------------------------
(* Geometries that keep the promises at every depth *)

\* A geometry that keeps its promise, and one that does at every depth.
Good(v) == Tree(v) /\ Promise(v)
Fine(v) == \A p \in DOMAIN v : Good(Subtree(v, p))

\* Naming the dimensions keeps the promises at every depth.
LEMMA FineSetDims ==
  ASSUME NEW v, Tree(v), Fine(v), NEW flags, HasFlags(flags)
  PROVE  Fine(SetDims(v, flags))
<1> DEFINE u == SetDims(v, flags)
<1>1. DOMAIN u = DOMAIN v
  BY DEF SetDims
<1>2. ASSUME NEW p \in DOMAIN v PROVE Good(Subtree(u, p))
  <2>1. HasPaths(v) /\ p \in Seq(Nat)
    BY TreeBranch DEF HasPaths
  <2>2. Subtree(u, p) = SetDims(Subtree(v, p), flags)
    BY <2>1, SubtreeOfSetDims
  <2>3. Tree(Subtree(v, p)) /\ Promise(Subtree(v, p))
    BY DEF Fine, Good
  <2>4. Tree(SetDims(Subtree(v, p), flags)) /\ Promise(SetDims(Subtree(v, p), flags))
    BY <2>3, SetDimsFacts, PromiseSetDims
  <2> QED BY <2>2, <2>4 DEF Good
<1> HIDE DEF u
<1>3. Fine(u)
  BY <1>1, <1>2 DEF Fine
<1> QED BY <1>3 DEF u

\* One more part keeps them, if the whole does.
LEMMA FineWith ==
  ASSUME NEW v, NEW w, Tree(v), Tree(w), Fine(v), Fine(w), Promise(With(v, w))
  PROVE  Fine(With(v, w))
<1> DEFINE u == With(v, w)
           k == Root(v).parts + 1
<1>1. /\ \A q \in DOMAIN w : Subtree(u, <<k>> \o q) = Subtree(w, q)
      /\ \A p \in DOMAIN v : p # <<>> => Subtree(u, p) = Subtree(v, p)
      /\ \A p \in DOMAIN u : p \in DOMAIN v \/ \E q \in DOMAIN w : p = <<k>> \o q
  BY ONLY SubtreeOfWith, Tree(v), Tree(w)
<1>2. Good(u)
  BY WithTree DEF Good
<1> HIDE DEF u, k
<1>3. Subtree(u, <<>>) = u
  BY <1>2, TreeBranch DEF Good
<1>4. ASSUME NEW p \in DOMAIN u PROVE Good(Subtree(u, p))
  <2>1. CASE p = <<>>
    BY <1>2, <1>3, <2>1
  <2>2. CASE p \in DOMAIN v /\ p # <<>>
    BY <1>1, <2>2 DEF Fine
  <2>3. CASE \E q \in DOMAIN w : p = <<k>> \o q
    BY <1>1, <2>3 DEF Fine
  <2> QED BY <1>1, <2>1, <2>2, <2>3
<1>5. Fine(u)
  BY <1>4 DEF Fine
<1> QED BY <1>5 DEF u

\* Another root keeps them, if the whole does.
LEMMA FineWithRoot ==
  ASSUME NEW v, Tree(v), Fine(v), NEW block \in BlockRecords,
         block.parts = Root(v).parts, block.id = Root(v).id, Promise(WithRoot(v, block))
  PROVE  Fine(WithRoot(v, block))
<1> DEFINE u == WithRoot(v, block)
<1>1. Tree(u) /\ DOMAIN u = DOMAIN v
  BY WithRootFacts
<1>2. Good(u)
  BY <1>1 DEF Good
<1>3. Subtree(u, <<>>) = u
  BY <1>1, TreeBranch
<1>4. \A p \in DOMAIN v : p # <<>> => Subtree(u, p) = Subtree(v, p)
  BY TreeBranch, SubtreeOfWithRoot DEF HasPaths
<1> HIDE DEF u
<1>5. ASSUME NEW p \in DOMAIN u PROVE Good(Subtree(u, p))
  BY <1>1, <1>2, <1>3, <1>4 DEF Fine
<1>6. Fine(u)
  BY <1>5 DEF Fine
<1> QED BY <1>6 DEF u

\* What is fine keeps the promises.
LEMMA FineRoot ==
  ASSUME NEW v, Tree(v), Fine(v)
  PROVE  Promise(v)
BY TreeBranch DEF Fine, Good

\* A block alone promises nothing.
LEMMA FineLeaf ==
  ASSUME NEW block \in BlockRecords, block.parts = 0
  PROVE  Fine(Leaf(block))
<1> DEFINE u == Leaf(block)
<1>1. Tree(u) /\ Root(u) = block /\ DOMAIN u = {<<>>}
  BY LeafFacts DEF Leaf
<1> HIDE DEF u
<1>2. PointsOf(u) = <<>>
  BY <1>1 DEF PointsOf
<1>3. Root(u).parts = 0
  BY <1>1
<1>4. Promise(u)
  BY <1>2, <1>3 DEF Promise
<1>5. Subtree(u, <<>>) = u
  BY <1>1, TreeBranch
<1>6. Fine(u)
  BY <1>1, <1>4, <1>5 DEF Fine, Good
<1> QED BY <1>6 DEF u

-----------------------------------------------------------------------------
(* What the checks have found out when there is no error *)

\* Every fault has a name.
Named(faults) == \A i \in DOMAIN faults : faults[i][2] # ""

\* Of up to three numbers there is a least one.
LEMMA LeastOfThree ==
  ASSUME NEW found, \A n \in found : n \in 1 .. 3, found # {}
  PROVE  Min(found) \in found
<1>1. \E x \in found : \A y \in found : x <= y
  <2>1. CASE 1 \in found
    BY <2>1
  <2>2. CASE 1 \notin found /\ 2 \in found
    BY <2>2
  <2>3. CASE 1 \notin found /\ 2 \notin found
    BY <2>3
  <2> QED BY <2>1, <2>2, <2>3
<1> QED BY <1>1 DEF Min

\* Without an error no fault of the list was found.
LEMMA NoFault ==
  ASSUME NEW faults, \A n \in DOMAIN faults : n \in 1 .. 3, FirstFault(faults) = "", Named(faults)
  PROVE  \A i \in DOMAIN faults : ~ faults[i][1]
<1> DEFINE found == {i \in DOMAIN faults : faults[i][1]}
<1> SUFFICES ASSUME found # {} PROVE FALSE
  OBVIOUS
<1>1. (\A n \in found : n \in 1 .. 3) /\ \A n \in found : n \in DOMAIN faults
  OBVIOUS
<1>2. FirstFault(faults) = faults[Min(found)][2]
  BY DEF FirstFault
<1>3. found # {}
  OBVIOUS
<1> HIDE DEF found
<1>4. Min(found) \in found
  BY ONLY <1>1, <1>3, LeastOfThree
<1>5. faults[Min(found)][2] # ""
  BY <1>1, <1>4 DEF Named
<1> QED BY <1>2, <1>5

\* One fault.
LEMMA NoFault1 ==
  ASSUME NEW a \in BOOLEAN, NEW e, e # "",
         FirstFault(<<<<a, e>>>>) = ""
  PROVE  ~ a
<1> DEFINE x1 == <<a, e>>
           faults == <<x1>>
<1>1. /\ x1[1] = a /\ x1[2] = e
  OBVIOUS
<1>2. FirstFault(faults) = ""
  OBVIOUS
<1> HIDE DEF x1
<1>3. DOMAIN faults = 1 .. 1
  BY ONLY TRUE
<1>4. faults[1] = x1
  BY ONLY TRUE
<1> HIDE DEF faults
<1>5. \A n \in DOMAIN faults : n = 1
  BY ONLY <1>3
<1>6. (\A n \in DOMAIN faults : n \in 1 .. 3) /\ 1 \in DOMAIN faults
  BY ONLY <1>3
<1>7. Named(faults)
  BY <1>1, <1>4, <1>5 DEF Named
<1>8. \A i \in DOMAIN faults : ~ faults[i][1]
  BY <1>2, <1>6, <1>7, NoFault
<1> QED BY <1>1, <1>4, <1>6, <1>8

\* Two faults.
LEMMA NoFault2 ==
  ASSUME NEW a \in BOOLEAN, NEW e, e # "", NEW b \in BOOLEAN, NEW f, f # "",
         FirstFault(<<<<a, e>>, <<b, f>>>>) = ""
  PROVE  ~ a /\ ~ b
<1> DEFINE x1 == <<a, e>>
           x2 == <<b, f>>
           faults == <<x1, x2>>
<1>1. /\ x1[1] = a /\ x1[2] = e
      /\ x2[1] = b /\ x2[2] = f
  OBVIOUS
<1>2. FirstFault(faults) = ""
  OBVIOUS
<1> HIDE DEF x1, x2
<1>3. DOMAIN faults = 1 .. 2
  BY ONLY TRUE
<1>4. faults[1] = x1 /\ faults[2] = x2
  BY ONLY TRUE
<1> HIDE DEF faults
<1>5. \A n \in DOMAIN faults : n = 1 \/ n = 2
  BY ONLY <1>3
<1>6. (\A n \in DOMAIN faults : n \in 1 .. 3) /\ 1 \in DOMAIN faults /\ 2 \in DOMAIN faults
  BY ONLY <1>3
<1>7. Named(faults)
  BY <1>1, <1>4, <1>5 DEF Named
<1>8. \A i \in DOMAIN faults : ~ faults[i][1]
  BY <1>2, <1>6, <1>7, NoFault
<1> QED BY <1>1, <1>4, <1>6, <1>8

\* Three faults.
LEMMA NoFault3 ==
  ASSUME NEW a \in BOOLEAN, NEW e, e # "", NEW b \in BOOLEAN, NEW f, f # "", NEW c \in BOOLEAN, NEW g, g # "",
         FirstFault(<<<<a, e>>, <<b, f>>, <<c, g>>>>) = ""
  PROVE  ~ a /\ ~ b /\ ~ c
<1> DEFINE x1 == <<a, e>>
           x2 == <<b, f>>
           x3 == <<c, g>>
           faults == <<x1, x2, x3>>
<1>1. /\ x1[1] = a /\ x1[2] = e
      /\ x2[1] = b /\ x2[2] = f
      /\ x3[1] = c /\ x3[2] = g
  OBVIOUS
<1>2. FirstFault(faults) = ""
  OBVIOUS
<1> HIDE DEF x1, x2, x3
<1>3. DOMAIN faults = 1 .. 3
  BY ONLY TRUE
<1>4. faults[1] = x1 /\ faults[2] = x2 /\ faults[3] = x3
  BY ONLY TRUE
<1> HIDE DEF faults
<1>5. \A n \in DOMAIN faults : n = 1 \/ n = 2 \/ n = 3
  BY ONLY <1>3
<1>6. (\A n \in DOMAIN faults : n \in 1 .. 3) /\ 1 \in DOMAIN faults /\ 2 \in DOMAIN faults /\ 3 \in DOMAIN faults
  BY ONLY <1>3
<1>7. Named(faults)
  BY <1>1, <1>4, <1>5 DEF Named
<1>8. \A i \in DOMAIN faults : ~ faults[i][1]
  BY <1>2, <1>6, <1>7, NoFault
<1> QED BY <1>1, <1>4, <1>6, <1>8

\* The fields of a result.
LEMMA ReturnedFields ==
  ASSUME NEW v, NEW new
  PROVE  Returned(v, new).value = v /\ Returned(v, new).error = ""
BY DEF Returned

\* The error of a refusal.
LEMMA RefusedError ==
  ASSUME NEW new, NEW error, NEW freed
  PROVE  Refused(error, new, freed).error = error
BY DEF Refused

\* A ring that was not refused is the last part.
LEMMA AddedRing ==
  ASSUME NEW poly, NEW ring, NEW fault, RingAdded(poly, ring, fault).error = ""
  PROVE  fault = "" /\ RingAdded(poly, ring, fault).value = With(poly, ring)
BY DEF RingAdded, Refused, Returned

\* What is built around an array when there is no error.
LEMMA MadeAround ==
  ASSUME NEW type, NEW array, array # Nothing, NEW flags, NEW faults,
         AroundArray(type, array, flags, faults).error = ""
  PROVE  /\ ~ Mismatch(array, flags) /\ FirstFault(faults) = ""
         /\ AroundArray(type, array, flags, faults).value =
              With(Built(After(array), type, Root(Harmonized(array, flags))), Harmonized(array, flags))
<1> DEFINE fault == IF Mismatch(array, flags) THEN "MIXDIMS" ELSE FirstFault(faults)
           value1 == With(Built(After(array), type, Root(Harmonized(array, flags))), Harmonized(array, flags))
           r == AroundArray(type, array, flags, faults)
<1>1. fault # "" => r = Refused(fault, {}, Blocks(array))
  BY DEF AroundArray
<1>2. fault = "" => r = Returned(value1, {After(array)})
  BY DEF AroundArray
<1>5. r.error = ""
  OBVIOUS
<1> HIDE DEF r
<1>3. fault = ""
  <2> HIDE DEF fault
  <2>1. Refused(fault, {}, Blocks(array)).error = fault
    BY ONLY RefusedError
  <2> QED BY ONLY <1>1, <1>5, <2>1
<1>4. r.value = value1
  <2> HIDE DEF value1, fault
  <2> QED BY <1>2, <1>3, ReturnedFields
<1> QED BY <1>3, <1>4 DEF r

-----------------------------------------------------------------------------
(* The promises, function by function *)

\* u is v with w as its last part.
Extends(u, v, w) ==
  /\ Root(u).type = Root(v).type /\ Root(u).pts = Root(v).pts
  /\ NDims(Root(u)) = NDims(Root(v))
  /\ Root(v).parts \in Nat /\ Root(u).parts = Root(v).parts + 1
  /\ \A i \in 1 .. Root(v).parts : Part(u, i) = Part(v, i)
  /\ Part(u, Root(v).parts + 1) = w

\* A tree with one more part extends it.
LEMMA WithExtends ==
  ASSUME NEW v, NEW w, Tree(v), Tree(w)
  PROVE  Extends(With(v, w), v, w)
<1> DEFINE u == With(v, w)
           k == Root(v).parts + 1
<1>1. /\ Part(u, k) = w
      /\ \A i \in 1 .. Root(v).parts : Part(u, i) = Part(v, i)
      /\ Root(u) = [Root(v) EXCEPT !.parts = k] /\ k \in Nat /\ Root(v).parts \in Nat
  BY ONLY PartsOfWith, Tree(v), Tree(w)
<1>2. Root(v) \in BlockRecords
  BY TreeSet
<1> HIDE DEF u
<1>3. /\ Root(u).type = Root(v).type /\ Root(u).pts = Root(v).pts /\ Root(u).parts = k
      /\ NDims(Root(u)) = NDims(Root(v))
  BY <1>1, <1>2 DEF BlockRecords, NDims
<1>4. Extends(u, v, w)
  BY <1>1, <1>3 DEF Extends
<1> QED BY <1>4 DEF u

\* What is built around one array has its points.
LEMMA PointsAround ==
  ASSUME NEW v, NEW w, Tree(v), Tree(w), Root(v).parts = 0
  PROVE  PointsOf(With(v, w)) = Root(w).pts
<1> DEFINE u == With(v, w)
           p == <<1>>
<1>1. /\ \A q \in DOMAIN w : u[<<Root(v).parts + 1>> \o q] = w[q]
      /\ DOMAIN u = DOMAIN v \cup {<<Root(v).parts + 1>> \o q : q \in DOMAIN w}
  <2>1. \A q \in DOMAIN w : u[<<Root(v).parts + 1>> \o q] = w[q]
    BY WithBelow
  <2>2. DOMAIN u = DOMAIN v \cup {<<Root(v).parts + 1>> \o q : q \in DOMAIN w}
    BY DEF With
  <2> QED BY <2>1, <2>2
<1>2. <<>> \in DOMAIN w /\ <<Root(v).parts + 1>> = p /\ p \o <<>> = p
  BY TreeBranch, StepPath
<1>3. p \in DOMAIN u /\ u[p] = Root(w)
  BY <1>1, <1>2 DEF Root
<1> HIDE DEF u
<1>4. PointsOf(u) = Root(w).pts
  BY <1>3 DEF PointsOf
<1> QED BY <1>4 DEF u

\* A polygon with one more closed ring.
LEMMA PolygonPromise ==
  ASSUME NEW u, NEW v, NEW w, Extends(u, v, w), Root(v).type = "POLYGON", Promise(v),
         Len(Root(w).pts) > 3, IsClosed2d(Root(w)), NDims(Root(w)) = NDims(Root(v))
  PROVE  Promise(u)
<1>1. \A i \in 1 .. Root(v).parts :
        /\ Len(Root(Part(v, i)).pts) > 3 /\ IsClosed2d(Root(Part(v, i)))
        /\ NDims(Root(Part(v, i))) = NDims(Root(v))
  BY DEF Promise
<1>2. \A i \in 1 .. Root(u).parts : i \in 1 .. Root(v).parts \/ i = Root(v).parts + 1
  BY DEF Extends
<1>3. \A i \in 1 .. Root(u).parts :
        /\ Len(Root(Part(u, i)).pts) > 3 /\ IsClosed2d(Root(Part(u, i)))
        /\ NDims(Root(Part(u, i))) = NDims(Root(u))
  BY <1>1, <1>2 DEF Extends
<1>4. Root(u).type = "POLYGON"
  BY DEF Extends
<1> QED BY <1>3, <1>4 DEF Promise

\* A curve polygon with one more closed ring.
LEMMA CurvepolygonPromise ==
  ASSUME NEW u, NEW v, NEW w, Extends(u, v, w), Root(v).type = "CURVEPOLYGON", Promise(v),
         ~ TooShort(w), ClosedCurve(w, 2), NDims(Root(w)) = NDims(Root(v))
  PROVE  Promise(u)
<1>1. \A i \in 1 .. Root(v).parts :
        /\ ~ TooShort(Part(v, i)) /\ ClosedCurve(Part(v, i), 2)
        /\ NDims(Root(Part(v, i))) = NDims(Root(v))
  BY DEF Promise
<1>2. \A i \in 1 .. Root(u).parts : i \in 1 .. Root(v).parts \/ i = Root(v).parts + 1
  BY DEF Extends
<1>3. \A i \in 1 .. Root(u).parts :
        /\ ~ TooShort(Part(u, i)) /\ ClosedCurve(Part(u, i), 2)
        /\ NDims(Root(Part(u, i))) = NDims(Root(u))
  BY <1>1, <1>2 DEF Extends
<1>4. Root(u).type = "CURVEPOLYGON"
  BY DEF Extends
<1> QED BY <1>3, <1>4 DEF Promise

\* Of a list of geometries nothing is promised.
LEMMA ListPromise ==
  ASSUME NEW u, Root(u).type \in Mixed \cup {"array"}
  PROVE  Promise(u)
BY DEF Promise, Mixed

\* The parts of a compound curve, while it grows: each begins where the one before it ends.
Chain(v) ==
  /\ \A i \in 2 .. Root(v).parts : Joined(Part(v, i - 1), Part(v, i), 2)
  /\ \A i \in 1 .. Root(v).parts : NDims(Root(Part(v, i))) = NDims(Root(v))

\* A chain of curves keeps the promise of a compound curve.
LEMMA CompoundPromise ==
  ASSUME NEW u, Root(u).type = "COMPOUNDCURVE", Chain(u)
  PROVE  Promise(u)
BY DEF Promise, Chain

\* A chain with one more curve that joins up.
LEMMA ChainExtends ==
  ASSUME NEW u, NEW v, NEW w, Extends(u, v, w), Chain(v), NDims(Root(w)) = NDims(Root(v)),
         Root(v).parts = 0 \/ Joined(Part(v, Root(v).parts), w, 2)
  PROVE  Chain(u)
<1>1. \A i \in 1 .. Root(u).parts : i \in 1 .. Root(v).parts \/ i = Root(v).parts + 1
  BY DEF Extends
<1>2. \A i \in 1 .. Root(u).parts : NDims(Root(Part(u, i))) = NDims(Root(u))
  BY <1>1 DEF Extends, Chain
<1>3. ASSUME NEW i \in 2 .. Root(u).parts
      PROVE  Joined(Part(u, i - 1), Part(u, i), 2)
  <2>1. CASE i \in 2 .. Root(v).parts
    <3>1. i \in 1 .. Root(v).parts /\ i - 1 \in 1 .. Root(v).parts
      BY <2>1 DEF Extends
    <3>2. Joined(Part(v, i - 1), Part(v, i), 2)
      BY <2>1 DEF Chain
    <3> QED BY <3>1, <3>2 DEF Extends
  <2>2. CASE i = Root(v).parts + 1
    <3>1. i - 1 = Root(v).parts /\ Root(v).parts \in 1 .. Root(v).parts /\ Root(v).parts # 0
      BY <2>2 DEF Extends
    <3> QED BY <2>2, <3>1 DEF Extends
  <2>3. i \in 2 .. Root(v).parts \/ i = Root(v).parts + 1
    BY DEF Extends
  <2> QED BY <2>1, <2>2, <2>3
<1> QED BY <1>2, <1>3 DEF Chain

\* A geometry without parts promises nothing.
LEMMA BuiltFine ==
  ASSUME NEW id \in Nat, NEW type \in Types, NEW flags, HasFlags(flags)
  PROVE  LET b == Built(id, type, flags)
         IN  /\ Tree(b) /\ Fine(b) /\ Root(b).type = type /\ Root(b).parts = 0 /\ Root(b).pts = <<>>
             /\ NDims(Root(b)) = NDims(flags)
<1> DEFINE block == Block(id, type, flags, <<>>)
<1>1. block \in BlockRecords /\ block.parts = 0 /\ block.type = type /\ block.pts = <<>>
      /\ block.z = flags.z /\ block.m = flags.m
  <2>1. <<>> \in Seq(Seq(Int))
    OBVIOUS
  <2> QED BY <2>1 DEF Block, BlockRecords, HasFlags
<1>2. NDims(block) = NDims(flags)
  BY <1>1 DEF NDims
<1> HIDE DEF block
<1>3. Tree(Leaf(block)) /\ Root(Leaf(block)) = block /\ Fine(Leaf(block))
  BY <1>1, LeafFacts, FineLeaf
<1>4. Built(id, type, flags) = Leaf(block)
  BY DEF Built, block
<1> QED BY <1>1, <1>2, <1>3, <1>4

\* Nor does an empty one.
LEMMA EmptyFine ==
  ASSUME heap.made \in Nat, NEW type \in Types, NEW flags, HasFlags(flags)
  PROVE  Fine(EmptyNew(type, flags).value) /\ Root(EmptyNew(type, flags).value).type = type
<1>1. Fresh \in Nat
  BY DEF Fresh
<1>2. EmptyNew(type, flags).value = Built(Fresh, type, flags)
  BY ReturnedFields DEF EmptyNew
<1> QED BY <1>1, <1>2, BuiltFine

\* Letters that fit keep the promises.
LEMMA HarmonizedFine ==
  ASSUME NEW v, Tree(v), Fine(v), NEW flags, HasFlags(flags)
  PROVE  LET whole == Harmonized(v, flags)
         IN  /\ Tree(whole) /\ Fine(whole)
             /\ Root(whole).type = Root(v).type /\ Root(whole).pts = Root(v).pts
<1>1. Tree(SetDims(v, flags)) /\ Fine(SetDims(v, flags)) /\ Relabelled(SetDims(v, flags), v, flags)
  BY SetDimsFacts, FineSetDims, TreeBranch, RelabelledSetDims
<1>2. CASE NDims(flags) > 2
  BY <1>1, <1>2 DEF Harmonized, Relabelled
<1>3. CASE ~ (NDims(flags) > 2)
  BY <1>3 DEF Harmonized
<1> QED BY <1>2, <1>3

\* What is promised of the points of a geometry around one array.
PointsPromise(type, pts) ==
  /\ type \in {"POINT", "LINESTRING", "CIRCULARSTRING", "TRIANGLE"}
  /\ type = "LINESTRING" => Len(pts) # 1
  /\ type = "CIRCULARSTRING" => Len(pts) > 2 /\ Len(pts) % 2 = 1
  /\ type = "TRIANGLE" => Len(pts) = 4 /\ EndsMeet(pts, 2)

\* A geometry around an array whose points are as promised.
LEMMA AroundFine ==
  ASSUME heap.made \in Nat, NEW type \in Types, NEW flags, HasFlags(flags), NEW faults,
         NEW array, Tree(array), Fine(array), PointsPromise(type, Root(array).pts),
         AroundArray(type, array, flags, faults).error = ""
  PROVE  LET v == AroundArray(type, array, flags, faults).value
         IN  Fine(v) /\ Root(v).type = type
<1> DEFINE whole == Harmonized(array, flags)
           b == Built(After(array), type, Root(whole))
           v == With(b, whole)
<1>1. array # Nothing
  BY TreeSet
<1>2. AroundArray(type, array, flags, faults).value = v
  BY <1>1, MadeAround
<1>3. Tree(whole) /\ Fine(whole) /\ Root(whole).pts = Root(array).pts
  BY HarmonizedFine
<1>4. HasFlags(Root(whole))
  BY <1>3, TreeFlags
<1>5. After(array) \in Nat
  <2>1. Root(array) \in BlockRecords
    BY TreeSet
  <2>2. Root(array).id \in Nat
    BY <2>1 DEF BlockRecords
  <2> QED BY ONLY <2>2, heap.made \in Nat DEF After, Fresh
<1> HIDE DEF whole
<1>6. Tree(b) /\ Fine(b) /\ Root(b).type = type /\ Root(b).parts = 0
  BY <1>4, <1>5, BuiltFine
<1> HIDE DEF b
<1>7. Extends(v, b, whole) /\ PointsOf(v) = Root(array).pts
  BY <1>3, <1>6, WithExtends, PointsAround
<1> HIDE DEF v
<1>8. Root(v).type = type
  BY <1>6, <1>7 DEF Extends
<1>9. Promise(v)
  BY <1>7, <1>8 DEF Promise, PointsPromise
<1>10. Fine(v)
  BY <1>3, <1>6, <1>9, FineWith DEF v
<1> QED BY <1>2, <1>8, <1>10

\* All checks are each of them.
LEMMA AllChecked ==
  ASSUME source.check = AllChecks
  PROVE  Checked("MINPOINTS") /\ Checked("ODD") /\ Checked("CLOSURE")
BY DEF Checked, AllChecks

\* The points are a sequence.
LEMMA PointsCount ==
  ASSUME NEW v, Tree(v)
  PROVE  Root(v).pts \in Seq(Seq(Int)) /\ Len(Root(v).pts) \in Nat
         /\ (Root(v).pts # <<>> <=> Len(Root(v).pts) # 0)
<1>1. Root(v).pts \in Seq(Seq(Int))
  BY TreeSet DEF BlockRecords
<1> QED BY <1>1, EmptySeq, LenProperties

\* Two points with the same first three ordinates have the same first two.
LEMMA MeetInThePlane ==
  ASSUME NEW pts \in Seq(Seq(Int)), NEW n \in {2, 3}, EndsMeet(pts, n)
  PROVE  EndsMeet(pts, 2)
<1>1. CASE n = 2
  BY <1>1
<1>2. CASE n = 3 /\ pts # <<>>
  <2>1. Len(pts) \in Nat /\ 1 \in 1 .. Len(pts) /\ Len(pts) \in 1 .. Len(pts)
    BY <1>2, EmptySeq, LenProperties
  <2>2. pts[1] \in Seq(Int) /\ pts[Len(pts)] \in Seq(Int)
    BY <2>1, ElementOfSeq
  <2> DEFINE a == pts[1]  b == pts[Len(pts)]
  <2>3. SubSeq(a, 1, 3) = SubSeq(b, 1, 3) /\ a \in Seq(Int) /\ b \in Seq(Int)
    BY <1>2, <2>2 DEF EndsMeet
  <2> HIDE DEF a, b
  <2>4. SubSeq(a, 1, 2) = SubSeq(b, 1, 2)
    BY <2>3
  <2> QED BY <1>2, <2>4 DEF EndsMeet, a, b
<1>3. CASE pts = <<>>
  BY <1>3 DEF EndsMeet
<1> QED BY <1>1, <1>2, <1>3

\* Each of the functions that put a geometry around an array, with all checks.
Made(r, type) == r.error = "" => Fine(r.value) /\ Root(r.value).type = type

\* How to show that a function makes what it promises.
LEMMA MadeFacts ==
  ASSUME NEW r, NEW v, NEW type, r.error = "" => r.value = v /\ Fine(v) /\ Root(v).type = type
  PROVE  Made(r, type)
BY DEF Made

\* The constructors around one array.
LEMMA AroundMade ==
  ASSUME heap.made \in Nat, NEW type \in Types, NEW flags, HasFlags(flags), NEW faults,
         NEW array, Tree(array), Fine(array),
         ~ Mismatch(array, flags) /\ FirstFault(faults) = "" => PointsPromise(type, Root(array).pts)
  PROVE  Made(AroundArray(type, array, flags, faults), type)
<1> DEFINE r == AroundArray(type, array, flags, faults)
<1>1. array # Nothing
  BY TreeSet
<1>2. CASE r.error = ""
  <2>1. ~ Mismatch(array, flags) /\ FirstFault(faults) = ""
    BY <1>1, <1>2, MadeAround
  <2>2. Fine(r.value) /\ Root(r.value).type = type
    BY <1>2, <2>1, AroundFine
  <2> HIDE DEF r
  <2>3. Made(r, type)
    BY <2>2 DEF Made
  <2> QED BY <2>3 DEF r
<1>3. CASE r.error # ""
  <2> HIDE DEF r
  <2>3. Made(r, type)
    BY <1>3 DEF Made
  <2> QED BY <2>3 DEF r
<1> QED BY <1>2, <1>3

\* wkt_parser_point_new
LEMMA PointMade ==
  ASSUME heap.made \in Nat, NEW flags, HasFlags(flags), NEW array, Tree(array), Fine(array)
  PROVE  Made(PointNew(array, flags), "POINT")
<1>1. PointsPromise("POINT", Root(array).pts)
  BY DEF PointsPromise
<1>2. "POINT" \in Types
  BY DEF Types, Keywords
<1> DEFINE faults == <<<<Len(Root(array).pts) # 1, "LESSPOINTS">>>>
<1>3. PointNew(array, flags) = AroundArray("POINT", array, flags, faults)
  BY DEF PointNew
<1> HIDE DEF faults
<1> QED BY <1>1, <1>2, <1>3, AroundMade

\* wkt_parser_linestring_new
LEMMA LinestringMade ==
  ASSUME heap.made \in Nat, NEW flags, HasFlags(flags), NEW array, Tree(array), Fine(array),
         source.check = AllChecks
  PROVE  Made(LinestringNew(array, flags), "LINESTRING")
<1> DEFINE pts == Root(array).pts
           a == Checked("MINPOINTS") /\ Len(pts) < 2
           faults == <<<<a, "MOREPOINTS">>>>
<1>1. LinestringNew(array, flags) = AroundArray("LINESTRING", array, flags, faults)
  BY DEF LinestringNew
<1>2. "LINESTRING" \in Types
  BY DEF Types, Keywords
<1>5. Len(pts) \in Nat
  BY PointsCount
<1>3. a \in BOOLEAN /\ Checked("MINPOINTS")
  BY AllChecked DEF Checked
<1>7. a \/ Len(pts) # 1
  <2> DEFINE n == Len(pts)
  <2>1. n \in Nat /\ (n < 2 => a)
    BY <1>3, <1>5
  <2> HIDE DEF n, a
  <2>2. n < 2 \/ n # 1
    BY ONLY <2>1
  <2> QED BY <2>1, <2>2 DEF n
<1> HIDE DEF a
<1>4. FirstFault(faults) = "" => ~ a
  BY <1>3, NoFault1
<1> HIDE DEF pts, faults
<1>6. ~ a => PointsPromise("LINESTRING", pts)
  BY <1>7 DEF PointsPromise
<1> QED BY <1>1, <1>2, <1>4, <1>6, AroundMade DEF pts

\* wkt_parser_circularstring_new
LEMMA CircularstringMade ==
  ASSUME heap.made \in Nat, NEW flags, HasFlags(flags), NEW array, Tree(array), Fine(array),
         source.check = AllChecks
  PROVE  Made(CircularstringNew(array, flags), "CIRCULARSTRING")
<1> DEFINE pts == Root(array).pts
           a == Checked("MINPOINTS") /\ Len(pts) < 3
           b == Checked("ODD") /\ Len(pts) % 2 = 0
           faults == <<<<a, "MOREPOINTS">>, <<b, "ODDPOINTS">>>>
<1>1. CircularstringNew(array, flags) = AroundArray("CIRCULARSTRING", array, flags, faults)
  BY DEF CircularstringNew
<1>2. "CIRCULARSTRING" \in Types
  BY DEF Types, Keywords
<1>3. (a <=> Len(pts) < 3) /\ a \in BOOLEAN /\ (b <=> Len(pts) % 2 = 0) /\ b \in BOOLEAN
  BY AllChecked DEF Checked
<1> HIDE DEF a, b
<1>4. FirstFault(faults) = "" => ~ a /\ ~ b
  BY <1>3, NoFault2
<1>5. Len(pts) \in Nat
  BY PointsCount
<1> HIDE DEF pts, faults
<1>6. ~ a /\ ~ b => PointsPromise("CIRCULARSTRING", pts)
  BY <1>3, <1>5 DEF PointsPromise
<1> QED BY <1>1, <1>2, <1>4, <1>6, AroundMade DEF pts

\* wkt_parser_triangle_new
LEMMA TriangleMade ==
  ASSUME heap.made \in Nat, NEW flags, HasFlags(flags), NEW array, Tree(array), Fine(array)
  PROVE  Made(TriangleNew(array, flags), "TRIANGLE")
<1> DEFINE pts == Root(array).pts
           whole == Root(Harmonized(array, flags))
           a == Len(pts) # 4
           b == ~ IsClosedZ(whole)
           faults == <<<<a, "TRIANGLEPOINTS">>, <<b, "UNCLOSED">>>>
<1>1. TriangleNew(array, flags) = AroundArray("TRIANGLE", array, flags, faults)
  BY DEF TriangleNew
<1>2. "TRIANGLE" \in Types
  BY DEF Types, Keywords
<1>3. whole.pts = pts /\ pts \in Seq(Seq(Int))
  BY HarmonizedFine, PointsCount
<1> HIDE DEF whole
<1>4. b \/ EndsMeet(pts, 2)
  <2>1. b \/ EndsMeet(pts, IF whole.z THEN 3 ELSE 2)
    BY <1>3 DEF IsClosedZ
  <2> DEFINE n == IF whole.z THEN 3 ELSE 2
  <2>2. n \in {2, 3}
    OBVIOUS
  <2> HIDE DEF n, pts, b
  <2>3. EndsMeet(pts, n) => EndsMeet(pts, 2)
    BY <1>3, <2>2, MeetInThePlane
  <2> QED BY <2>1, <2>3 DEF n
<1>5. b \in BOOLEAN /\ a \in BOOLEAN
  BY DEF IsClosedZ
<1>7. a <=> Len(pts) # 4
  OBVIOUS
<1> HIDE DEF a, b
<1>6. FirstFault(faults) = "" => ~ a /\ ~ b
  BY <1>5, NoFault2
<1> HIDE DEF pts, faults
<1>8. ~ a /\ ~ b => PointsPromise("TRIANGLE", pts)
  BY <1>4, <1>7 DEF PointsPromise
<1> QED BY <1>1, <1>2, <1>6, <1>8, AroundMade DEF pts

\* Z-closed rings are closed in the plane.
LEMMA ClosedInThePlane ==
  ASSUME NEW v, Tree(v), IsClosedZ(Root(v))
  PROVE  IsClosed2d(Root(v))
<1> DEFINE pts == Root(v).pts
           n == IF Root(v).z THEN 3 ELSE 2
<1>1. pts # <<>> /\ EndsMeet(pts, n)
  BY DEF IsClosedZ
<1>2. n \in {2, 3}
  OBVIOUS
<1>3. pts \in Seq(Seq(Int))
  BY PointsCount
<1> HIDE DEF n, pts
<1>4. EndsMeet(pts, 2)
  BY <1>1, <1>2, <1>3, MeetInThePlane
<1> QED BY <1>1, <1>4 DEF IsClosed2d, pts

\* Ends that meet in space meet in the plane.
LEMMA EndsMeetInThePlane ==
  ASSUME NEW pts, EndsMeet(pts, 3)
  PROVE  EndsMeet(pts, 2)
<1> DEFINE a == pts[1]
           b == pts[Len(pts)]
<1> SUFFICES ASSUME pts # <<>> PROVE SubSeq(a, 1, 2) = SubSeq(b, 1, 2)
  BY DEF EndsMeet
<1>1. SubSeq(a, 1, 3) = SubSeq(b, 1, 3)
  BY DEF EndsMeet
<1> HIDE DEF a, b
<1> QED BY <1>1

\* A curve closed in space is closed in the plane.
LEMMA ClosedCurveInThePlane ==
  ASSUME NEW v, CurveIsClosed(v)
  PROVE  ClosedCurve(v, 2)
<1>1. ClosedCurve(v, 2) \/ ClosedCurve(v, 3)
  BY DEF CurveIsClosed
<1> SUFFICES ASSUME ClosedCurve(v, 3) PROVE ClosedCurve(v, 2)
  BY <1>1
<1>2. CASE Root(v).type = "COMPOUNDCURVE"
  BY <1>2, EndsMeetInThePlane DEF ClosedCurve, Joined
<1>3. CASE Root(v).type # "COMPOUNDCURVE"
  BY <1>3, EndsMeetInThePlane DEF ClosedCurve
<1> QED BY <1>2, <1>3

\* A ring without a fault.
LEMMA PolygonRingPromise ==
  ASSUME NEW poly, Tree(poly), Fine(poly), Root(poly).type = "POLYGON",
         NEW ring, Tree(ring), Fine(ring), NEW dimcheck, source.check = AllChecks,
         NEW r, r = PolygonAddRing(poly, ring, dimcheck), r.error = ""
  PROVE  r.value = With(poly, ring) /\ Fine(r.value) /\ Root(r.value).type = "POLYGON"
         /\ NDims(Root(ring)) = NDims(Root(poly))
<1> DEFINE pts == Root(ring).pts
           n == Len(pts)
           closed == IF dimcheck = "Z" THEN IsClosedZ(Root(ring)) ELSE IsClosed2d(Root(ring))
           a == NDims(Root(poly)) # NDims(Root(ring))
           b == Checked("MINPOINTS") /\ n < 4
           c == Checked("CLOSURE") /\ ~ closed
           fault == FirstFault(<<<<a, "MIXDIMS">>, <<b, "MOREPOINTS">>, <<c, "UNCLOSED">>>>)
           u == With(poly, ring)
<1>1. r = RingAdded(poly, ring, fault)
  BY DEF PolygonAddRing
<1>2. (a <=> NDims(Root(poly)) # NDims(Root(ring))) /\ (n < 4 => b) /\ (~ closed => c)
      /\ a \in BOOLEAN /\ b \in BOOLEAN /\ c \in BOOLEAN
  BY AllChecked DEF Checked
<1>3. n \in Nat
  BY PointsCount
<1>4. closed => IsClosed2d(Root(ring))
  BY ClosedInThePlane
<1> HIDE DEF a, b, c, closed, n
<1>5. fault = "" => ~ a /\ ~ b /\ ~ c
  BY <1>2, NoFault3
<1> HIDE DEF fault
<1>6. fault = "" /\ r.value = u
  BY <1>1, AddedRing
<1>7. NDims(Root(ring)) = NDims(Root(poly)) /\ IsClosed2d(Root(ring))
  BY <1>2, <1>4, <1>5, <1>6
<1>8. n > 3
  <2>1. ~ (n < 4)
    BY <1>2, <1>5, <1>6
  <2> QED BY ONLY <1>3, <2>1
<1>9. Extends(u, poly, ring) /\ Promise(poly)
  BY WithExtends, FineRoot
<1>10. Promise(u)
  BY <1>7, <1>8, <1>9, PolygonPromise DEF n
<1>11. Fine(u)
  BY <1>10, FineWith
<1>12. Root(u).type = "POLYGON"
  BY <1>9 DEF Extends
<1> QED BY <1>6, <1>7, <1>11, <1>12

\* A ring of a curve polygon without a fault.
LEMMA CurveRingPromise ==
  ASSUME NEW poly, Tree(poly), Fine(poly), Root(poly).type = "CURVEPOLYGON",
         NEW ring, Tree(ring), Fine(ring), source.check = AllChecks,
         NEW r, r = CurvepolygonAddRing(poly, ring), r.error = ""
  PROVE  r.value = With(poly, ring) /\ Fine(r.value)
<1> DEFINE a == NDims(Root(poly)) # NDims(Root(ring))
           b == Checked("MINPOINTS") /\ TooShort(ring)
           c == Checked("CLOSURE") /\ ~ CurveIsClosed(ring)
           fault == FirstFault(<<<<a, "MIXDIMS">>, <<b, "MOREPOINTS">>, <<c, "UNCLOSED">>>>)
           u == With(poly, ring)
<1>1. r = RingAdded(poly, ring, fault)
  BY DEF CurvepolygonAddRing
<1>2. (a <=> NDims(Root(poly)) # NDims(Root(ring))) /\ (TooShort(ring) => b) /\ (~ CurveIsClosed(ring) => c)
      /\ a \in BOOLEAN /\ b \in BOOLEAN /\ c \in BOOLEAN
  BY AllChecked DEF Checked
<1> HIDE DEF a, b, c
<1>5. fault = "" => ~ a /\ ~ b /\ ~ c
  BY <1>2, NoFault3
<1> HIDE DEF fault
<1>6. fault = "" /\ r.value = u
  BY <1>1, AddedRing
<1>7. NDims(Root(ring)) = NDims(Root(poly)) /\ CurveIsClosed(ring) /\ ~ TooShort(ring)
  BY <1>2, <1>5, <1>6
<1>8. ClosedCurve(ring, 2)
  BY <1>7, ClosedCurveInThePlane
<1>9. Extends(u, poly, ring) /\ Promise(poly)
  BY WithExtends, FineRoot
<1>10. Promise(u)
  BY <1>7, <1>8, <1>9, CurvepolygonPromise
<1>11. Fine(u)
  BY <1>10, FineWith
<1> QED BY <1>6, <1>11

\* Constructs whose elements are coordinates of one array.
Ptarrays == {"POINT", "LINESTRING", "CIRCULARSTRING", "ring", "point_untagged", "linestring_untagged"}

\* The elements of a construct, with all checks.
Promised(construct, acc) == Fine(acc) /\ (construct = "COMPOUNDCURVE" => Chain(acc))

\* The kinds of constructs.
LEMMA ConstructCases ==
  ASSUME NEW c \in Constructs
  PROVE  \/ c \in {"POINT", "point_untagged"}
         \/ c \in {"LINESTRING", "linestring_untagged"}
         \/ c = "CIRCULARSTRING"
         \/ c \in {"TRIANGLE", "triangle_untagged"}
         \/ c = "ring"
         \/ c \in {"polygon_untagged", "patch"}
         \/ c \in {"POLYGON", "CURVEPOLYGON"}
         \/ c = "COMPOUNDCURVE"
         \/ c \in Mixed
BY DEF Constructs, Keywords, Mixed

\* Around no array there is an empty geometry.
LEMMA AroundNothing ==
  ASSUME NEW type, NEW flags, NEW faults
  PROVE  AroundArray(type, Nothing, flags, faults) = EmptyNew(type, flags)
BY DEF AroundArray

\* Each of the functions that build around one array.
LEMMA AroundReduction ==
  ASSUME heap.made \in Nat, NEW c \in Constructs, NEW flags, HasFlags(flags),
         NEW acc, acc = Nothing \/ (Tree(acc) /\ Fine(acc)), source.check = AllChecks,
         c \in {"POINT", "point_untagged", "LINESTRING", "linestring_untagged", "CIRCULARSTRING",
                "TRIANGLE", "triangle_untagged"},
         Reduction(c, acc, flags).error = ""
  PROVE  Fine(Reduction(c, acc, flags).value)
<1> DEFINE r == Reduction(c, acc, flags)
<1>1. CASE acc = Nothing
  <2>1. /\ PointNew(Nothing, flags) = EmptyNew("POINT", flags)
        /\ LinestringNew(Nothing, flags) = EmptyNew("LINESTRING", flags)
        /\ CircularstringNew(Nothing, flags) = EmptyNew("CIRCULARSTRING", flags)
        /\ TriangleNew(Nothing, flags) = EmptyNew("TRIANGLE", flags)
    BY AroundNothing DEF PointNew, LinestringNew, CircularstringNew, TriangleNew
  <2>2. \E type \in Types : r = EmptyNew(type, flags)
    <3>1. {"POINT", "LINESTRING", "CIRCULARSTRING", "TRIANGLE"} \subseteq Types
      BY DEF Types, Keywords
    <3>2. \E type \in {"POINT", "LINESTRING", "CIRCULARSTRING", "TRIANGLE"} : r = EmptyNew(type, flags)
      BY <1>1, <2>1 DEF Reduction
    <3> QED BY <3>1, <3>2
  <2> QED BY <2>2, EmptyFine
<1>2. CASE acc # Nothing
  <2>1. /\ Made(PointNew(acc, flags), "POINT") /\ Made(LinestringNew(acc, flags), "LINESTRING")
        /\ Made(CircularstringNew(acc, flags), "CIRCULARSTRING") /\ Made(TriangleNew(acc, flags), "TRIANGLE")
    BY <1>2, PointMade, LinestringMade, CircularstringMade, TriangleMade
  <2>2. r \in {PointNew(acc, flags), LinestringNew(acc, flags), CircularstringNew(acc, flags), TriangleNew(acc, flags)}
    BY DEF Reduction
  <2> HIDE DEF r
  <2>3. \E type : Made(r, type)
    BY <2>1, <2>2
  <2>4. r.error = ""
    BY DEF r
  <2>5. Fine(r.value)
    BY <2>3, <2>4 DEF Made
  <2> QED BY <2>5 DEF r
<1> QED BY <1>1, <1>2

\* wkt_parser_polygon_finalize, wkt_parser_curvepolygon_finalize
LEMMA PolygonFinalizeFine ==
  ASSUME heap.made \in Nat, NEW type \in {"POLYGON", "CURVEPOLYGON"}, NEW flags, HasFlags(flags),
         NEW acc, acc = Nothing \/ (Tree(acc) /\ Fine(acc)),
         PolygonFinalize(type, acc, flags).error = ""
  PROVE  Fine(PolygonFinalize(type, acc, flags).value)
<1> DEFINE r == PolygonFinalize(type, acc, flags)
<1>0. type \in Types
  BY DEF Types, Keywords
<1>1. CASE acc = Nothing
  <2>1. r = EmptyNew(type, flags)
    BY <1>1 DEF PolygonFinalize
  <2> QED BY <1>0, <2>1, EmptyFine
<1>2. CASE acc # Nothing
  <2>1. Mismatch(acc, flags) => r = Refused("MIXDIMS", {}, Blocks(acc))
    BY <1>2 DEF PolygonFinalize
  <2>2. ~ Mismatch(acc, flags) => r = Returned(Harmonized(acc, flags), {})
    BY <1>2 DEF PolygonFinalize
  <2>7. Refused("MIXDIMS", {}, Blocks(acc)).error # ""
    BY DEF Refused
  <2> HIDE DEF r
  <2>3. r.error = ""
    BY DEF r
  <2>4. r = Returned(Harmonized(acc, flags), {})
    BY <2>1, <2>2, <2>3, <2>7
  <2>5. r.value = Harmonized(acc, flags)
    BY <2>4, ReturnedFields
  <2>6. Fine(r.value)
    BY <1>2, <2>5, HarmonizedFine
  <2> QED BY <2>6 DEF r
<1> QED BY <1>1, <1>2

\* A chain stays one whatever its dimensions are called.
LEMMA ChainSetDims ==
  ASSUME NEW v, Tree(v), NEW flags, HasFlags(flags), Chain(v)
  PROVE  Chain(SetDims(v, flags))
<1> DEFINE u == SetDims(v, flags)
           n == Root(v).parts
<1>1. Relabelled(u, v, flags)
  BY TreeBranch, RelabelledSetDims
<1>2. \A i \in 1 .. n : Relabelled(Part(u, i), Part(v, i), flags)
  BY PartsOfSetDims
<1>3. ASSUME NEW i \in 2 .. n
      PROVE  Joined(Part(u, i - 1), Part(u, i), 2) <=> Joined(Part(v, i - 1), Part(v, i), 2)
  <2>1. i \in 1 .. n /\ i - 1 \in 1 .. n
    BY TreeBranch
  <2> DEFINE k == i - 1
  <2> HIDE DEF k
  <2>2. /\ Part(u, i) = SetDims(Part(v, i), flags) /\ Branch(Part(v, i))
        /\ Part(u, k) = SetDims(Part(v, k), flags) /\ Branch(Part(v, k))
    BY <2>1, PartsOfSetDims DEF k
  <2>3. Joined(Part(u, k), Part(u, i), 2) <=> Joined(Part(v, k), Part(v, i), 2)
    BY <2>2, JoinedSetDims
  <2> QED BY <2>3 DEF k
<1> HIDE DEF u, n
<1>4. Root(u).parts = n /\ NDims(Root(u)) = NDims(flags) /\ n = Root(v).parts
  BY <1>1 DEF Relabelled, n
<1>5. \A i \in 1 .. n : NDims(Root(Part(u, i))) = NDims(flags)
  BY <1>2 DEF Relabelled
<1>6. Chain(u)
  BY <1>3, <1>4, <1>5 DEF Chain
<1> QED BY <1>6 DEF u

\* The collection with its first element.
LEMMA FirstOfCollection ==
  ASSUME heap.made \in Nat, NEW g, Tree(g), Fine(g)
  PROVE  LET r == CollectionNew(g)
         IN  r.error = "" /\ Fine(r.value) /\ Root(r.value).type = "GEOMETRYCOLLECTION" /\ Chain(r.value)
<1> DEFINE b == Built(Fresh, "GEOMETRYCOLLECTION", Root(g))
           u == With(b, g)
<1>1. CollectionNew(g).value = u /\ CollectionNew(g).error = ""
  BY ReturnedFields DEF CollectionNew
<1>2. Tree(b) /\ Fine(b) /\ Root(b).type = "GEOMETRYCOLLECTION" /\ Root(b).parts = 0 /\ NDims(Root(b)) = NDims(Root(g))
  <2>1. Fresh \in Nat
    BY DEF Fresh
  <2>2. HasFlags(Root(g))
    BY TreeFlags
  <2>3. "GEOMETRYCOLLECTION" \in Types
    BY DEF Types, Keywords
  <2> QED BY <2>1, <2>2, <2>3, BuiltFine
<1> HIDE DEF b
<1>3. Extends(u, b, g)
  BY <1>2, WithExtends
<1>4. Chain(b)
  BY <1>2 DEF Chain
<1>5. Chain(u)
  BY <1>2, <1>3, <1>4, ChainExtends
<1>6. Root(u).type = "GEOMETRYCOLLECTION"
  BY <1>2, <1>3 DEF Extends
<1>7. Promise(u)
  BY <1>6, ListPromise DEF Mixed
<1>8. Fine(u)
  BY <1>2, <1>7, FineWith
<1> HIDE DEF u
<1> QED BY <1>1, <1>5, <1>6, <1>8

\* wkt_parser_collection_add_geom
LEMMA NextOfCollection ==
  ASSUME NEW col, Tree(col), Fine(col), Root(col).type = "GEOMETRYCOLLECTION", NEW g, Tree(g), Fine(g)
  PROVE  LET r == CollectionAddGeom(col, g)
         IN  r.error = "" /\ Fine(r.value) /\ r.value = With(col, g)
             /\ Root(r.value).type = "GEOMETRYCOLLECTION"
<1> DEFINE u == With(col, g)
<1>1. CollectionAddGeom(col, g).value = u /\ CollectionAddGeom(col, g).error = ""
  BY ReturnedFields DEF CollectionAddGeom
<1>3. Extends(u, col, g)
  BY WithExtends
<1>6. Root(u).type = "GEOMETRYCOLLECTION"
  BY <1>3 DEF Extends
<1>7. Promise(u)
  BY <1>6, ListPromise DEF Mixed
<1>8. Fine(u)
  BY <1>7, FineWith
<1> HIDE DEF u
<1> QED BY <1>1, <1>6, <1>8 DEF u

\* A part of a compound curve is added where the part before it ends.
LEMMA NextOfCompound ==
  ASSUME NEW col, Tree(col), Fine(col), Root(col).type = "GEOMETRYCOLLECTION", Chain(col),
         NEW g, Tree(g), Fine(g), CompoundAddGeom(col, g).error = ""
  PROVE  LET r == CompoundAddGeom(col, g)
         IN  Fine(r.value) /\ Chain(r.value) /\ r.value = With(col, g)
             /\ Root(r.value).type = "GEOMETRYCOLLECTION" /\ NDims(Root(g)) = NDims(Root(col))
<1> DEFINE r == CompoundAddGeom(col, g)
           a == NDims(Root(col)) # NDims(Root(g))
           b == ~ JoinsUp(col, g)
           fault == CompoundFault(col, g)
<1>1. fault = FirstFault(<<<<a, "MIXDIMS">>, <<b, "INCONTINUOUS">>>>)
  BY DEF CompoundFault
<1>2. a \in BOOLEAN /\ b \in BOOLEAN
  BY DEF JoinsUp
<1>3. fault # "" => r = Refused(fault, {}, Blocks(col) \cup Blocks(g))
  BY DEF CompoundAddGeom
<1>4. fault = "" => r = CollectionAddGeom(col, g)
  BY DEF CompoundAddGeom
<1>5. (~ a => NDims(Root(g)) = NDims(Root(col))) /\ (~ b => Joined(Part(col, Root(col).parts), g, 2))
  BY DEF JoinsUp
<1>6. r.error = ""
  OBVIOUS
<1> HIDE DEF a, b, fault, r
<1>7. fault = ""
  <2>1. Refused(fault, {}, Blocks(col) \cup Blocks(g)).error = fault
    BY RefusedError
  <2> QED BY <1>3, <1>6, <2>1
<1>8. ~ a /\ ~ b
  BY <1>1, <1>2, <1>7, NoFault2
<1>9. /\ Fine(r.value) /\ r.value = With(col, g) /\ Root(r.value).type = "GEOMETRYCOLLECTION"
  <2>1. LET s == CollectionAddGeom(col, g)
        IN  Fine(s.value) /\ s.value = With(col, g) /\ Root(s.value).type = "GEOMETRYCOLLECTION"
    BY NextOfCollection
  <2> QED BY <1>4, <1>7, <2>1
<1>10. Extends(With(col, g), col, g)
  BY WithExtends
<1>11. Chain(r.value)
  BY <1>5, <1>8, <1>9, <1>10, ChainExtends
<1> QED BY <1>5, <1>8, <1>9, <1>11 DEF r

\* The curve or the collection takes its name.
LEMMA ChainWithRoot ==
  ASSUME NEW v, Tree(v), Chain(v), NEW block, block.parts = Root(v).parts, NDims(block) = NDims(Root(v))
  PROVE  Chain(WithRoot(v, block))
<1> DEFINE u == WithRoot(v, block)
           n == Root(v).parts
<1>1. Root(u) = block
  BY TreeBranch DEF WithRoot, Root
<1>2. \A i \in 1 .. n : Part(u, i) = Part(v, i)
  BY TreeBranch, StepPath, SubtreeOfWithRoot DEF Part
<1>3. n \in Nat
  BY TreeBranch
<1> HIDE DEF u
<1>4. \A i \in 2 .. n : Part(u, i) = Part(v, i) /\ Part(u, i - 1) = Part(v, i - 1)
  BY <1>2, <1>3
<1>5. Chain(u)
  BY <1>1, <1>2, <1>4 DEF Chain
<1> QED BY <1>5 DEF u

\* wkt_parser_collection_finalize
LEMMA CollectionFinalizeFine ==
  ASSUME heap.made \in Nat, NEW type \in Mixed \cup {"COMPOUNDCURVE"}, NEW flags, HasFlags(flags),
         NEW acc, acc = Nothing \/ (Tree(acc) /\ Fine(acc) /\ (type = "COMPOUNDCURVE" => Chain(acc))),
         CollectionFinalize(type, acc, flags).error = ""
  PROVE  Fine(CollectionFinalize(type, acc, flags).value)
<1> DEFINE r == CollectionFinalize(type, acc, flags)
<1>0. type \in Types
  BY DEF Types, Keywords, Mixed
<1>1. CASE acc = Nothing
  <2>1. r = EmptyNew(type, flags)
    BY <1>1 DEF CollectionFinalize
  <2> QED BY <1>0, <2>1, EmptyFine
<1>2. CASE acc # Nothing
  <2> DEFINE whole == Harmonized(acc, flags)
             block == [Root(whole) EXCEPT !.type = type]
             u == WithRoot(whole, block)
  <2>1. r = Refused("MIXDIMS", {}, Blocks(acc)) \/ r = Returned(u, {})
    BY <1>2 DEF CollectionFinalize
  <2>2. Refused("MIXDIMS", {}, Blocks(acc)).error # ""
    BY DEF Refused
  <2>3. r.error = ""
    OBVIOUS
  <2>4. Tree(whole) /\ Fine(whole)
    BY <1>2, HarmonizedFine
  <2>5. type = "COMPOUNDCURVE" => Chain(whole)
    <3>1. CASE NDims(flags) > 2
      BY <1>2, <3>1, ChainSetDims DEF Harmonized
    <3>2. CASE ~ (NDims(flags) > 2)
      BY <1>2, <3>2 DEF Harmonized
    <3> QED BY <3>1, <3>2
  <2> HIDE DEF r, whole
  <2>6. /\ block \in BlockRecords /\ block.parts = Root(whole).parts /\ block.id = Root(whole).id
        /\ block.type = type /\ NDims(block) = NDims(Root(whole))
    <3>1. Root(whole) \in BlockRecords
      BY <2>4, TreeSet
    <3> QED BY <3>1, <1>0 DEF BlockRecords, NDims
  <2> HIDE DEF block
  <2>7. Tree(u) /\ Root(u) = block
    BY <2>4, <2>6, WithRootFacts
  <2>8. type = "COMPOUNDCURVE" => Chain(u)
    BY <2>4, <2>5, <2>6, ChainWithRoot
  <2>9. Promise(u)
    BY <2>6, <2>7, <2>8, ListPromise, CompoundPromise
  <2>10. Fine(u)
    BY <2>4, <2>6, <2>9, FineWithRoot
  <2> HIDE DEF u
  <2>11. r.value = u
    <3>1. Returned(u, {}).value = u
      BY ReturnedFields
    <3> QED BY <2>1, <2>2, <2>3, <3>1
  <2>12. Fine(r.value)
    BY <2>10, <2>11
  <2> QED BY <2>12 DEF r
<1> QED BY <1>1, <1>2

\* What closes a construct keeps the promises.
LEMMA ReductionFine ==
  ASSUME heap.made \in Nat, NEW c \in Constructs, NEW flags, HasFlags(flags), source.check = AllChecks,
         NEW acc, acc = Nothing \/ (Tree(acc) /\ Promised(c, acc)), c = "ring" => acc # Nothing,
         Reduction(c, acc, flags).error = ""
  PROVE  Fine(Reduction(c, acc, flags).value)
<1> DEFINE r == Reduction(c, acc, flags)
<1>1. acc = Nothing \/ (Tree(acc) /\ Fine(acc) /\ (c = "COMPOUNDCURVE" => Chain(acc)))
  BY DEF Promised
<1>2. CASE c \in {"POINT", "point_untagged", "LINESTRING", "linestring_untagged", "CIRCULARSTRING",
                  "TRIANGLE", "triangle_untagged"}
  BY <1>1, <1>2, AroundReduction
<1>3. CASE c = "ring"
  <2>1. r = Returned(acc, {})
    BY <1>3 DEF Reduction
  <2> QED BY <1>1, <1>3, <2>1, ReturnedFields
<1>4. CASE c \in {"polygon_untagged", "patch"}
  <2>1. r = IF acc = Nothing THEN EmptyNew("POLYGON", flags) ELSE Returned(acc, {})
    BY <1>4 DEF Reduction
  <2>2. "POLYGON" \in Types
    BY DEF Types, Keywords
  <2>3. Returned(acc, {}).value = acc
    BY ReturnedFields
  <2>4. acc = Nothing => r = EmptyNew("POLYGON", flags)
    BY <2>1
  <2>5. acc # Nothing => r = Returned(acc, {}) /\ Fine(acc)
    BY <1>1, <2>1
  <2>6. Fine(EmptyNew("POLYGON", flags).value)
    BY <2>2, EmptyFine
  <2> HIDE DEF r
  <2>7. Fine(r.value)
    BY <2>3, <2>4, <2>5, <2>6
  <2> QED BY <2>7 DEF r
<1>5. CASE c \in {"POLYGON", "CURVEPOLYGON"}
  BY <1>1, <1>5, PolygonFinalizeFine DEF Reduction
<1>6. CASE c \in Mixed \cup {"COMPOUNDCURVE"}
  <2>1. r = CollectionFinalize(c, acc, flags)
    BY <1>6 DEF Reduction, Mixed
  <2> QED BY <1>1, <1>6, <2>1, CollectionFinalizeFine
<1> QED BY <1>2, <1>3, <1>4, <1>5, <1>6, ConstructCases

-----------------------------------------------------------------------------
(* What adding an element does *)

\* What the elements of a construct become.
Seed(construct) ==
  IF construct \in Ptarrays THEN "array"
  ELSE IF construct \in Rings THEN "POLYGON"
  ELSE IF construct = "CURVEPOLYGON" THEN "CURVEPOLYGON" ELSE "GEOMETRYCOLLECTION"

\* Constructs whose only element is the array that the triangle is built around.
Triangles == {"TRIANGLE", "triangle_untagged"}

\* The elements have the type that the construct gives them before it closes.
Shape(construct, acc) ==
  IF construct \in Triangles THEN Root(acc).type \notin Mixed ELSE Root(acc).type = Seed(construct)

\* Naming the new blocks again changes nothing else.
LEMMA NewKept ==
  ASSUME NEW poly, NEW ring, NEW fault, NEW new
  PROVE  LET r == [RingAdded(poly, ring, fault) EXCEPT !.new = new]
         IN  r.error = RingAdded(poly, ring, fault).error /\ r.value = RingAdded(poly, ring, fault).value
<1>1. CASE fault # ""
  BY <1>1 DEF RingAdded, Refused
<1>2. CASE fault = ""
  <2> DEFINE w == With(poly, ring)
  <2>1. RingAdded(poly, ring, fault) = Returned(w, {})
    BY <1>2 DEF RingAdded
  <2> HIDE DEF w
  <2>2. [Returned(w, {}) EXCEPT !.new = new] = Returned(w, new)
    BY NewReturned
  <2>3. Returned(w, {}).value = w /\ Returned(w, {}).error = "" /\ Returned(w, new).value = w /\ Returned(w, new).error = ""
    BY ReturnedFields
  <2> QED BY <2>1, <2>2, <2>3
<1> QED BY <1>1, <1>2

\* A ring is added when there is no fault.
LEMMA RingOrFault ==
  ASSUME NEW poly, NEW ring, NEW fault, NEW r, r = RingAdded(poly, ring, fault), r.error = ""
  PROVE  fault = "" /\ r.value = With(poly, ring)
<1>1. fault = ""
  BY DEF RingAdded, Refused
<1>2. r.value = With(poly, ring)
  BY AddedRing
<1> QED BY <1>1, <1>2

\* A ring that is added has the dimensions of its polygon.
LEMMA PolygonRingValue ==
  ASSUME NEW poly, NEW ring, NEW dimcheck, NEW r, r = PolygonAddRing(poly, ring, dimcheck), r.error = ""
  PROVE  r.value = With(poly, ring) /\ NDims(Root(ring)) = NDims(Root(poly))
<1> DEFINE closed == IF dimcheck = "Z" THEN IsClosedZ(Root(ring)) ELSE IsClosed2d(Root(ring))
           a == NDims(Root(poly)) # NDims(Root(ring))
           b == Checked("MINPOINTS") /\ Len(Root(ring).pts) < 4
           c == Checked("CLOSURE") /\ ~ closed
           fault == FirstFault(<<<<a, "MIXDIMS">>, <<b, "MOREPOINTS">>, <<c, "UNCLOSED">>>>)
<1>1. r = RingAdded(poly, ring, fault)
  BY DEF PolygonAddRing
<1>2. (~ a => NDims(Root(ring)) = NDims(Root(poly))) /\ a \in BOOLEAN /\ b \in BOOLEAN /\ c \in BOOLEAN
  BY DEF Checked
<1> HIDE DEF a, b, c
<1>3. fault = "" => ~ a
  BY <1>2, NoFault3
<1> HIDE DEF fault
<1>4. fault = "" /\ r.value = With(poly, ring)
  BY <1>1, RingOrFault
<1> QED BY <1>2, <1>3, <1>4

\* The same for a curve polygon.
LEMMA CurveRingValue ==
  ASSUME NEW poly, NEW ring, NEW r, r = CurvepolygonAddRing(poly, ring), r.error = ""
  PROVE  r.value = With(poly, ring) /\ NDims(Root(ring)) = NDims(Root(poly))
<1> DEFINE a == NDims(Root(poly)) # NDims(Root(ring))
           b == Checked("MINPOINTS") /\ TooShort(ring)
           c == Checked("CLOSURE") /\ ~ CurveIsClosed(ring)
           fault == FirstFault(<<<<a, "MIXDIMS">>, <<b, "MOREPOINTS">>, <<c, "UNCLOSED">>>>)
<1>1. r = RingAdded(poly, ring, fault)
  BY DEF CurvepolygonAddRing
<1>2. (~ a => NDims(Root(ring)) = NDims(Root(poly))) /\ a \in BOOLEAN /\ b \in BOOLEAN /\ c \in BOOLEAN
  BY DEF Checked
<1> HIDE DEF a, b, c
<1>3. fault = "" => ~ a
  BY <1>2, NoFault3
<1> HIDE DEF fault
<1>4. fault = "" /\ r.value = With(poly, ring)
  BY <1>1, RingOrFault
<1> QED BY <1>2, <1>3, <1>4

\* A curve that is added joins up, with the same dimensions.
LEMMA CompoundValue ==
  ASSUME NEW col, NEW g, CompoundAddGeom(col, g).error = ""
  PROVE  CompoundAddGeom(col, g).value = With(col, g) /\ NDims(Root(g)) = NDims(Root(col))
         /\ Joined(Part(col, Root(col).parts), g, 2)
<1> DEFINE r == CompoundAddGeom(col, g)
           a == NDims(Root(col)) # NDims(Root(g))
           b == ~ JoinsUp(col, g)
           fault == CompoundFault(col, g)
<1>1. fault = FirstFault(<<<<a, "MIXDIMS">>, <<b, "INCONTINUOUS">>>>)
  BY DEF CompoundFault
<1>2. a \in BOOLEAN /\ b \in BOOLEAN
  BY DEF JoinsUp
<1>3. fault # "" => r = Refused(fault, {}, Blocks(col) \cup Blocks(g))
  BY DEF CompoundAddGeom
<1>4. fault = "" => r = Returned(With(col, g), {})
  BY DEF CompoundAddGeom, CollectionAddGeom
<1>5. (~ a => NDims(Root(g)) = NDims(Root(col))) /\ (~ b => Joined(Part(col, Root(col).parts), g, 2))
  BY DEF JoinsUp
<1>6. r.error = ""
  OBVIOUS
<1> HIDE DEF a, b, fault, r
<1>7. fault = ""
  <2>1. Refused(fault, {}, Blocks(col) \cup Blocks(g)).error = fault
    BY RefusedError
  <2> QED BY <1>3, <1>6, <2>1
<1>8. ~ a /\ ~ b
  BY <1>1, <1>2, <1>7, NoFault2
<1>9. r.value = With(col, g)
  <2>1. Returned(With(col, g), {}).value = With(col, g)
    BY ReturnedFields
  <2> QED BY <1>4, <1>7, <2>1
<1> QED BY <1>5, <1>8, <1>9 DEF r

\* A polygon and a curve polygon begin with a ring.
LEMMA FirstOfPolygon ==
  ASSUME NEW c \in Rings, NEW v
  PROVE  LET r == Addition(c, Nothing, v)
             s == PolygonAddRing(Built(Fresh, "POLYGON", Root(v)), v, Dimcheck(c))
         IN  r.error = s.error /\ r.value = s.value
<1> DEFINE b == Built(Fresh, "POLYGON", Root(v))
           s == PolygonAddRing(b, v, Dimcheck(c))
           r == Addition(c, Nothing, v)
           w == [s EXCEPT !.new = {Fresh}]
<1>1. r = w
  BY DEF Addition, FirstElement, PolygonNew, Rings, Single
<1>2. \E fault : s = RingAdded(b, v, fault)
  BY DEF PolygonAddRing
<1> HIDE DEF b, s
<1>3. w.error = s.error /\ w.value = s.value
  <2>1. PICK fault : s = RingAdded(b, v, fault)
    BY <1>2
  <2>2. LET q == [RingAdded(b, v, fault) EXCEPT !.new = {Fresh}]
        IN  q.error = RingAdded(b, v, fault).error /\ q.value = RingAdded(b, v, fault).value
    BY ONLY NewKept
  <2> QED BY ONLY <2>1, <2>2
<1> HIDE DEF w, r
<1>4. r.error = s.error /\ r.value = s.value
  BY <1>1, <1>3
<1> QED BY <1>4 DEF r, s, b

\* The same for a curve polygon.
LEMMA FirstOfCurvepolygon ==
  ASSUME NEW v
  PROVE  LET r == Addition("CURVEPOLYGON", Nothing, v)
             s == CurvepolygonAddRing(Built(Fresh, "CURVEPOLYGON", Root(v)), v)
         IN  r.error = s.error /\ r.value = s.value
<1> DEFINE b == Built(Fresh, "CURVEPOLYGON", Root(v))
           s == CurvepolygonAddRing(b, v)
           r == Addition("CURVEPOLYGON", Nothing, v)
           w == [s EXCEPT !.new = {Fresh}]
<1>1. r = w
  BY DEF Addition, FirstElement, CurvepolygonNew, Rings, Single
<1>2. \E fault : s = RingAdded(b, v, fault)
  BY DEF CurvepolygonAddRing
<1> HIDE DEF b, s
<1>3. w.error = s.error /\ w.value = s.value
  <2>1. PICK fault : s = RingAdded(b, v, fault)
    BY <1>2
  <2>2. LET q == [RingAdded(b, v, fault) EXCEPT !.new = {Fresh}]
        IN  q.error = RingAdded(b, v, fault).error /\ q.value = RingAdded(b, v, fault).value
    BY ONLY NewKept
  <2> QED BY ONLY <2>1, <2>2
<1> HIDE DEF w, r
<1>4. r.error = s.error /\ r.value = s.value
  BY <1>1, <1>3
<1> QED BY <1>4 DEF r, s, b

\* What one more element makes of the elements so far.
LEMMA AdditionValue ==
  ASSUME NEW c \in Constructs, c \notin Ptarrays, NEW acc, NEW v,
         c \in Single => acc = Nothing, Addition(c, acc, v).error = ""
  PROVE  LET u == Addition(c, acc, v).value
         IN  /\ c \in Triangles => u = v
             /\ c \notin Triangles /\ acc = Nothing => u = With(Built(Fresh, Seed(c), Root(v)), v)
             /\ c \notin Triangles /\ acc # Nothing =>
                  u = With(acc, v) /\ (c \notin Mixed => NDims(Root(v)) = NDims(Root(acc)))
             /\ c = "COMPOUNDCURVE" /\ acc # Nothing => Joined(Part(acc, Root(acc).parts), v, 2)
<1> DEFINE r == Addition(c, acc, v)
           u == r.value
           b == Built(Fresh, Seed(c), Root(v))
<1>0. c \in Single <=> c \in Triangles
  BY DEF Single, Triangles, Ptarrays
<1>1. CASE c \in Triangles
  <2>1. r = Returned(v, {})
    BY <1>0, <1>1 DEF Addition, FirstElement, Rings, Triangles
  <2>2. Returned(v, {}).value = v
    BY ReturnedFields
  <2>3. u = v
    BY <2>1, <2>2
  <2> QED BY <1>1, <2>3 DEF Triangles
<1>2. CASE c \in Rings /\ acc = Nothing
  <2> DEFINE s == PolygonAddRing(Built(Fresh, "POLYGON", Root(v)), v, Dimcheck(c))
  <2>1. r.error = s.error /\ r.value = s.value
    BY <1>2, FirstOfPolygon
  <2>2. s.value = With(Built(Fresh, "POLYGON", Root(v)), v)
    BY <2>1, PolygonRingValue
  <2>3. u = With(b, v)
    BY <1>2, <2>1, <2>2 DEF Seed
  <2> QED BY <1>2, <2>3 DEF Triangles, Rings
<1>3. CASE c = "CURVEPOLYGON" /\ acc = Nothing
  <2> DEFINE s == CurvepolygonAddRing(Built(Fresh, "CURVEPOLYGON", Root(v)), v)
  <2>1. r.error = s.error /\ r.value = s.value
    BY <1>3, FirstOfCurvepolygon
  <2>2. s.value = With(Built(Fresh, "CURVEPOLYGON", Root(v)), v)
    BY <2>1, CurveRingValue
  <2>3. u = With(b, v)
    <3>1. Seed(c) = "CURVEPOLYGON"
      BY <1>3 DEF Seed, Rings, Ptarrays
    <3> QED BY <2>1, <2>2, <3>1
  <2> QED BY <1>3, <2>3 DEF Triangles
<1>4. CASE c \notin Rings \cup Triangles \cup {"CURVEPOLYGON"} /\ acc = Nothing
  <2>1. b = Built(Fresh, "GEOMETRYCOLLECTION", Root(v))
    BY <1>4 DEF Seed
  <2> HIDE DEF b
  <2>2. r = Returned(With(b, v), {Fresh}) \/ r = Refused("INCONTINUOUS", {}, Blocks(v))
    <3>1. CASE c = "COMPOUNDCURVE"
      BY <1>4, <2>1, <3>1 DEF Addition, FirstElement, CompoundNew, CollectionNew, Rings, Single
    <3>2. CASE c # "COMPOUNDCURVE"
      BY <1>0, <1>4, <2>1, <3>2 DEF Addition, FirstElement, CollectionNew
    <3> QED BY <3>1, <3>2
  <2>3. Refused("INCONTINUOUS", {}, Blocks(v)).error # ""
    BY DEF Refused
  <2>4. Returned(With(b, v), {Fresh}).value = With(b, v)
    BY ReturnedFields
  <2>5. u = With(b, v)
    BY <2>2, <2>3, <2>4
  <2> QED BY <1>4, <2>5 DEF b
<1>5. CASE c \in Rings /\ acc # Nothing
  <2>1. r = PolygonAddRing(acc, v, Dimcheck(c))
    BY <1>5 DEF Addition, Rings
  <2>2. u = With(acc, v) /\ NDims(Root(v)) = NDims(Root(acc))
    BY <2>1, PolygonRingValue
  <2> QED BY <1>5, <2>2 DEF Triangles, Rings
<1>6. CASE c = "CURVEPOLYGON" /\ acc # Nothing
  <2>1. r = CurvepolygonAddRing(acc, v)
    BY <1>6 DEF Addition, Rings
  <2>2. u = With(acc, v) /\ NDims(Root(v)) = NDims(Root(acc))
    BY <2>1, CurveRingValue
  <2> QED BY <1>6, <2>2 DEF Triangles
<1>7. CASE c = "COMPOUNDCURVE" /\ acc # Nothing
  <2>1. r = CompoundAddGeom(acc, v)
    BY <1>7 DEF Addition, Rings
  <2>2. u = With(acc, v) /\ NDims(Root(v)) = NDims(Root(acc)) /\ Joined(Part(acc, Root(acc).parts), v, 2)
    BY <2>1, CompoundValue
  <2> QED BY <1>7, <2>2 DEF Triangles
<1>8. CASE c \notin Rings \cup Triangles \cup {"CURVEPOLYGON", "COMPOUNDCURVE"} /\ acc # Nothing
  <2>1. r = Returned(With(acc, v), {})
    BY <1>8 DEF Addition, CollectionAddGeom
  <2>2. Returned(With(acc, v), {}).value = With(acc, v)
    BY ReturnedFields
  <2>3. u = With(acc, v) /\ c \in Mixed
    <3>1. c \in Mixed
      BY <1>8, ConstructCases DEF Rings, Triangles, Ptarrays
    <3> QED BY <2>1, <2>2, <3>1
  <2> QED BY <1>8, <2>3
<1> QED BY <1>1, <1>2, <1>3, <1>4, <1>5, <1>6, <1>7, <1>8

\* What adds an element keeps the promises.
LEMMA AdditionFine ==
  ASSUME heap.made \in Nat, NEW c \in Constructs, c \notin Ptarrays, source.check = AllChecks,
         NEW acc, acc = Nothing \/ (Tree(acc) /\ Shape(c, acc) /\ Promised(c, acc)),
         NEW v, Tree(v), Fine(v), c \in Single => acc = Nothing, Addition(c, acc, v).error = ""
  PROVE  Promised(c, Addition(c, acc, v).value)
<1> DEFINE r == Addition(c, acc, v)
           u == r.value
<1>0. acc # Nothing => Tree(acc) /\ Shape(c, acc) /\ Fine(acc) /\ (c = "COMPOUNDCURVE" => Chain(acc))
  BY DEF Promised
<1>1. Fresh \in Nat /\ HasFlags(Root(v))
  <2>1. Fresh \in Nat
    BY ONLY heap.made \in Nat DEF Fresh
  <2> QED BY <2>1, TreeFlags
<1>2. /\ c \in Triangles => u = v
      /\ c \notin Triangles /\ acc = Nothing => u = With(Built(Fresh, Seed(c), Root(v)), v)
      /\ c \notin Triangles /\ acc # Nothing =>
           u = With(acc, v) /\ (c \notin Mixed => NDims(Root(v)) = NDims(Root(acc)))
      /\ c = "COMPOUNDCURVE" /\ acc # Nothing => Joined(Part(acc, Root(acc).parts), v, 2)
  BY AdditionValue
<1>3. CASE c \in Triangles
  BY <1>2, <1>3 DEF Promised, Triangles
<1>4. CASE c \in Rings
  <2>0. Seed(c) = "POLYGON" /\ c \notin Triangles /\ "POLYGON" \in Types /\ c # "COMPOUNDCURVE"
    BY <1>4 DEF Seed, Triangles, Rings, Types, Keywords
  <2>1. CASE acc = Nothing
    <3> DEFINE b == Built(Fresh, "POLYGON", Root(v))
               s == PolygonAddRing(b, v, Dimcheck(c))
    <3>1. r.error = s.error /\ r.value = s.value
      BY <1>4, <2>1, FirstOfPolygon
    <3>2. Tree(b) /\ Fine(b) /\ Root(b).type = "POLYGON"
      BY <1>1, <2>0, BuiltFine
    <3>3. r.error = ""
      OBVIOUS
    <3> HIDE DEF b, r
    <3>4. s.error = ""
      BY <3>1, <3>3
    <3>5. Fine(s.value)
      BY <3>2, <3>4, PolygonRingPromise
    <3>6. Fine(r.value)
      BY <3>1, <3>5
    <3> QED BY <2>0, <3>6 DEF Promised, r
  <2>2. CASE acc # Nothing
    <3>1. r = PolygonAddRing(acc, v, Dimcheck(c))
      BY <1>4, <2>2 DEF Addition, Rings
    <3>2. Root(acc).type = "POLYGON" /\ Tree(acc) /\ Fine(acc)
      BY <1>0, <2>0, <2>2 DEF Shape
    <3>3. r.error = ""
      OBVIOUS
    <3> HIDE DEF r
    <3>4. Fine(r.value)
      BY <3>1, <3>2, <3>3, PolygonRingPromise
    <3> QED BY <2>0, <3>4 DEF Promised, r
  <2> QED BY <2>1, <2>2
<1>5. CASE c = "CURVEPOLYGON"
  <2>0. Seed(c) = "CURVEPOLYGON" /\ c \notin Triangles /\ "CURVEPOLYGON" \in Types /\ c # "COMPOUNDCURVE"
    BY <1>5 DEF Seed, Triangles, Rings, Types, Keywords, Ptarrays
  <2>1. CASE acc = Nothing
    <3> DEFINE b == Built(Fresh, "CURVEPOLYGON", Root(v))
               s == CurvepolygonAddRing(b, v)
    <3>1. r.error = s.error /\ r.value = s.value
      BY <1>5, <2>1, FirstOfCurvepolygon
    <3>2. Tree(b) /\ Fine(b) /\ Root(b).type = "CURVEPOLYGON"
      BY <1>1, <2>0, BuiltFine
    <3>3. r.error = ""
      OBVIOUS
    <3> HIDE DEF b, r
    <3>4. s.error = ""
      BY <3>1, <3>3
    <3>5. Fine(s.value)
      BY <3>2, <3>4, CurveRingPromise
    <3>6. Fine(r.value)
      BY <3>1, <3>5
    <3> QED BY <2>0, <3>6 DEF Promised, r
  <2>2. CASE acc # Nothing
    <3>1. r = CurvepolygonAddRing(acc, v)
      BY <1>5, <2>2 DEF Addition, Rings
    <3>2. Root(acc).type = "CURVEPOLYGON" /\ Tree(acc) /\ Fine(acc)
      BY <1>0, <2>0, <2>2 DEF Shape
    <3>3. r.error = ""
      OBVIOUS
    <3> HIDE DEF r
    <3>4. Fine(r.value)
      BY <3>1, <3>2, <3>3, CurveRingPromise
    <3> QED BY <2>0, <3>4 DEF Promised, r
  <2> QED BY <2>1, <2>2
<1>6. CASE c \notin Rings \cup Triangles \cup {"CURVEPOLYGON"}
  <2>0. Seed(c) = "GEOMETRYCOLLECTION" /\ "GEOMETRYCOLLECTION" \in Types
    BY <1>6 DEF Seed, Types, Keywords
  <2>1. CASE acc = Nothing
    <3>1. u = With(Built(Fresh, "GEOMETRYCOLLECTION", Root(v)), v)
      BY <1>2, <1>6, <2>0, <2>1
    <3>2. LET s == CollectionNew(v)
          IN  s.value = With(Built(Fresh, "GEOMETRYCOLLECTION", Root(v)), v) /\ Fine(s.value) /\ Chain(s.value)
      <4>1. CollectionNew(v).value = With(Built(Fresh, "GEOMETRYCOLLECTION", Root(v)), v)
        BY ReturnedFields DEF CollectionNew
      <4> QED BY <4>1, FirstOfCollection
    <3> QED BY <3>1, <3>2 DEF Promised
  <2>2. CASE acc # Nothing
    <3>1. u = With(acc, v) /\ Tree(acc) /\ Root(acc).type = "GEOMETRYCOLLECTION" /\ Fine(acc)
      BY <1>0, <1>2, <1>6, <2>0, <2>2 DEF Shape
    <3>2. Extends(u, acc, v)
      BY <3>1, WithExtends
    <3> HIDE DEF u
    <3>3. Root(u).type = "GEOMETRYCOLLECTION"
      BY <3>1, <3>2 DEF Extends
    <3>4. Promise(u)
      BY <3>3, ListPromise DEF Mixed
    <3>5. Fine(u)
      BY <3>1, <3>4, FineWith
    <3>6. c = "COMPOUNDCURVE" => Chain(u)
      <4> SUFFICES ASSUME c = "COMPOUNDCURVE" PROVE Chain(u)
        OBVIOUS
      <4>1. Chain(acc) /\ Joined(Part(acc, Root(acc).parts), v, 2) /\ NDims(Root(v)) = NDims(Root(acc))
        BY <1>0, <1>2, <1>6, <2>2 DEF Mixed
      <4> QED BY <3>2, <4>1, ChainExtends
    <3> QED BY <3>5, <3>6 DEF Promised, u
  <2> QED BY <2>1, <2>2
<1> QED BY <1>3, <1>4, <1>5, <1>6

-----------------------------------------------------------------------------
(* One number of dimensions *)

\* A block with this number of dimensions.
Fit(block, n) == NDims(block) = n /\ \A i \in DOMAIN block.pts : Len(block.pts[i]) = n

\* One number of dimensions throughout, block by block.
LEMMA UniformFit ==
  ASSUME NEW v
  PROVE  Uniform(v) <=> \A p \in DOMAIN v : Fit(v[p], NDims(Root(v)))
BY DEF Uniform, Fit

\* Geometries without a point, and those that have points in their arrays only.
Bare(v) == \A p \in DOMAIN v : v[p].pts = <<>>
Plain(v) == \A p \in DOMAIN v : v[p].type # "array" => v[p].pts = <<>>

\* A geometry without arrays has no points.
LEMMA NoArraysBare ==
  ASSUME NEW v, Plain(v), IsEmptyGeom(v)
  PROVE  Bare(v)
BY DEF Plain, IsEmptyGeom, Bare

\* Every block of a tree with one more part is one of theirs.
LEMMA BlocksOfWith ==
  ASSUME NEW v, NEW w, Tree(v), Tree(w), NEW p \in DOMAIN With(v, w)
  PROVE  /\ p # <<>> => (\E q \in DOMAIN w : With(v, w)[p] = w[q]) \/ (p \in DOMAIN v /\ With(v, w)[p] = v[p])
         /\ p = <<>> => With(v, w)[p] = [Root(v) EXCEPT !.parts = Root(v).parts + 1] /\ <<>> \in DOMAIN v
<1> DEFINE u == With(v, w)
           k == Root(v).parts + 1
<1>1. /\ Root(u) = [Root(v) EXCEPT !.parts = k]
      /\ DOMAIN u = DOMAIN v \cup {<<k>> \o q : q \in DOMAIN w}
      /\ \A q \in DOMAIN v : q # <<>> => u[q] = v[q]
      /\ \A q \in DOMAIN w : u[<<k>> \o q] = w[q]
  <2>1. /\ Tree(u)
        /\ Root(u) = [Root(v) EXCEPT !.parts = k]
        /\ DOMAIN u = DOMAIN v \cup {<<k>> \o q : q \in DOMAIN w}
        /\ \A q \in DOMAIN v : q # <<>> => u[q] = v[q]
        /\ \A q \in DOMAIN w : u[<<k>> \o q] = w[q]
        /\ Blocks(u) = Blocks(v) \cup Blocks(w)
    BY ONLY WithFacts, Tree(v), Tree(w)
  <2> HIDE DEF u, k
  <2> QED BY ONLY <2>1
<1>2. <<>> \in DOMAIN v /\ Root(u) = u[<<>>]
  BY DEF Tree, Root
<1> HIDE DEF u, k
<1>3. p \in DOMAIN v \/ \E q \in DOMAIN w : p = <<k>> \o q
  BY <1>1 DEF u
<1>4. p # <<>> => (\E q \in DOMAIN w : u[p] = w[q]) \/ (p \in DOMAIN v /\ u[p] = v[p])
  BY <1>1, <1>3
<1>5. p = <<>> => u[p] = [Root(v) EXCEPT !.parts = k]
  BY <1>1, <1>2
<1> QED BY <1>2, <1>4, <1>5 DEF u, k

\* A part with the same dimensions keeps them even.
LEMMA UniformWith ==
  ASSUME NEW v, NEW w, Tree(v), Tree(w), Uniform(v), Uniform(w), NDims(Root(w)) = NDims(Root(v))
  PROVE  Uniform(With(v, w)) /\ NDims(Root(With(v, w))) = NDims(Root(v))
<1> DEFINE u == With(v, w)
           n == NDims(Root(v))
           k == Root(v).parts + 1
<1>1. /\ \A p \in DOMAIN v : Fit(v[p], n)
      /\ \A p \in DOMAIN w : Fit(w[p], n)
  BY UniformFit
<1>2. NDims(Root(u)) = n
  BY WithExtends DEF Extends
<1>3. Fit(Root(v), n) /\ Root(v) \in BlockRecords
  BY <1>1, TreeBranch DEF Root
<1>4. Fit([Root(v) EXCEPT !.parts = k], n)
  <2> DEFINE b == [Root(v) EXCEPT !.parts = k]
  <2>1. b.pts = Root(v).pts /\ b.z = Root(v).z /\ b.m = Root(v).m
    BY <1>3 DEF BlockRecords
  <2> HIDE DEF b, n
  <2>2. Fit(b, n)
    BY <1>3, <2>1 DEF Fit, NDims
  <2> QED BY <2>2 DEF b
<1>5. ASSUME NEW p \in DOMAIN u PROVE Fit(u[p], n)
  <2>1. /\ p # <<>> => (\E q \in DOMAIN w : u[p] = w[q]) \/ (p \in DOMAIN v /\ u[p] = v[p])
        /\ p = <<>> => u[p] = [Root(v) EXCEPT !.parts = k]
    BY BlocksOfWith
  <2> HIDE DEF u, n, k
  <2> QED BY <1>1, <1>4, <2>1
<1> HIDE DEF u
<1>6. Uniform(u)
  BY <1>2, <1>5, UniformFit
<1> QED BY <1>2, <1>6 DEF u

\* Points stay in arrays.
LEMMA PlainWith ==
  ASSUME NEW v, NEW w, Tree(v), Tree(w), Plain(v), Plain(w)
  PROVE  Plain(With(v, w))
<1> DEFINE u == With(v, w)
           k == Root(v).parts + 1
           b == [Root(v) EXCEPT !.parts = k]
<1>1. b.pts = Root(v).pts /\ b.type = Root(v).type
  BY TreeSet DEF BlockRecords
<1>2. <<>> \in DOMAIN v /\ Root(v) = v[<<>>]
  BY TreeBranch DEF Root
<1> HIDE DEF b
<1>3. b.type # "array" => b.pts = <<>>
  BY <1>1, <1>2 DEF Plain
<1>4. ASSUME NEW p \in DOMAIN u PROVE u[p].type # "array" => u[p].pts = <<>>
  <2>1. /\ p # <<>> => (\E q \in DOMAIN w : u[p] = w[q]) \/ (p \in DOMAIN v /\ u[p] = v[p])
        /\ p = <<>> => u[p] = b
    BY BlocksOfWith DEF b
  <2> HIDE DEF u
  <2> QED BY <1>3, <2>1 DEF Plain
<1> QED BY <1>4 DEF Plain

\* A block alone, without points.
LEMMA BuiltEven ==
  ASSUME NEW id \in Nat, NEW type \in Types, NEW flags, HasFlags(flags)
  PROVE  Uniform(Built(id, type, flags)) /\ Plain(Built(id, type, flags)) /\ Bare(Built(id, type, flags))
<1> DEFINE b == Built(id, type, flags)
<1>1. DOMAIN b = {<<>>} /\ b[<<>>].pts = <<>> /\ Root(b) = b[<<>>]
  BY DEF Built, Leaf, Block, Root
<1> HIDE DEF b
<1>2. Uniform(b)
  BY <1>1 DEF Uniform
<1>3. Plain(b) /\ Bare(b)
  BY <1>1 DEF Plain, Bare
<1> QED BY <1>2, <1>3 DEF b

\* Naming the dimensions that there are, or those of no point, keeps them even.
LEMMA SetDimsEven ==
  ASSUME NEW v, Branch(v), <<>> \in DOMAIN v, NEW flags, HasFlags(flags),
         Bare(v) \/ (Uniform(v) /\ NDims(flags) = NDims(Root(v)))
  PROVE  Uniform(SetDims(v, flags))
<1> DEFINE u == SetDims(v, flags)
           n == NDims(flags)
<1>1. DOMAIN u = DOMAIN v /\ \A p \in DOMAIN v : u[p] = Flagged(v[p], flags)
  BY DEF SetDims
<1>2. \A p \in DOMAIN v : u[p].pts = v[p].pts /\ NDims(u[p]) = n
  BY <1>1, FlaggedFacts DEF Branch
<1>3. Root(u) = u[<<>>]
  BY DEF Root
<1> HIDE DEF u, n
<1>4. NDims(Root(u)) = n
  BY <1>2, <1>3
<1>5. ASSUME NEW p \in DOMAIN u PROVE Fit(u[p], n)
  <2>1. CASE Bare(v)
    <3>1. u[p].pts = <<>>
      BY <1>1, <1>2, <2>1 DEF Bare
    <3> QED BY <1>1, <1>2, <3>1 DEF Fit
  <2>2. CASE Uniform(v) /\ n = NDims(Root(v))
    <3>1. Fit(v[p], n)
      BY <1>1, <2>2, UniformFit
    <3> QED BY <1>1, <1>2, <3>1 DEF Fit
  <2> QED BY <2>1, <2>2 DEF n
<1>6. Uniform(u)
  BY <1>4, <1>5, UniformFit
<1> QED BY <1>6 DEF u

\* It moves no point.
LEMMA SetDimsPlain ==
  ASSUME NEW v, Branch(v), NEW flags, HasFlags(flags), Plain(v)
  PROVE  Plain(SetDims(v, flags))
<1> DEFINE u == SetDims(v, flags)
<1>1. DOMAIN u = DOMAIN v /\ \A p \in DOMAIN v : u[p] = Flagged(v[p], flags)
  BY DEF SetDims
<1>2. \A p \in DOMAIN v : u[p].pts = v[p].pts /\ u[p].type = v[p].type
  BY <1>1, FlaggedFacts DEF Branch
<1> HIDE DEF u
<1>3. Plain(u)
  BY <1>1, <1>2 DEF Plain
<1> QED BY <1>3 DEF u

\* Letters that fit change nothing about that.
LEMMA HarmonizedEven ==
  ASSUME NEW v, Tree(v), Uniform(v), Plain(v), NEW flags, HasFlags(flags), ~ Mismatch(v, flags)
  PROVE  Uniform(Harmonized(v, flags)) /\ Plain(Harmonized(v, flags))
<1>1. CASE NDims(flags) > 2
  <2>1. NDims(flags) = NDims(Root(v))
    BY <1>1 DEF Mismatch
  <2>2. Branch(v) /\ <<>> \in DOMAIN v
    BY TreeBranch
  <2>3. Uniform(SetDims(v, flags)) /\ Plain(SetDims(v, flags))
    BY <2>1, <2>2, SetDimsEven, SetDimsPlain
  <2> QED BY <1>1, <2>3 DEF Harmonized
<1>2. CASE ~ (NDims(flags) > 2)
  BY <1>2 DEF Harmonized
<1> QED BY <1>1, <1>2

\* Nor do letters.
LEMMA HarmonizedPlain ==
  ASSUME NEW v, Tree(v), Plain(v), NEW flags, HasFlags(flags)
  PROVE  Plain(Harmonized(v, flags))
<1>1. Plain(SetDims(v, flags))
  BY TreeBranch, SetDimsPlain
<1> QED BY <1>1 DEF Harmonized

\* A coordinate has as many ordinates as it says.
Coordinated(c) == HasFlags(c) /\ c.point \in Seq(Int) /\ Len(c.point) = NDims(c)

\* An array with its first point.
LEMMA FirstPoint ==
  ASSUME heap.made \in Nat, NEW c, Coordinated(c)
  PROVE  LET v == PtarrayNew(c).value
         IN  /\ Tree(v) /\ Uniform(v) /\ Plain(v) /\ Root(v).type = "array" /\ Root(v).parts = 0
             /\ NDims(Root(v)) = NDims(c) /\ Len(Root(v).pts) = 1
<1> DEFINE block == Block(Fresh, "array", c, <<c.point>>)
           v == Leaf(block)
<1>1. PtarrayNew(c).value = v
  BY ReturnedFields DEF PtarrayNew
<1>2. block \in BlockRecords /\ block.parts = 0 /\ block.type = "array" /\ block.pts = <<c.point>>
      /\ NDims(block) = NDims(c)
  <2>1. Fresh \in Nat
    BY DEF Fresh
  <2>2. "array" \in Types
    BY DEF Types
  <2>3. HasFlags(c)
    BY DEF Coordinated
  <2> DEFINE pts == <<c.point>>
  <2>3a. pts \in Seq(Seq(Int))
    <3>1. c.point \in Seq(Int)
      BY DEF Coordinated
    <3> QED BY <3>1
  <2>4. block.z = c.z /\ block.m = c.m /\ block.pts = <<c.point>>
    BY DEF Block
  <2>5. block \in BlockRecords /\ block.parts = 0 /\ block.type = "array"
    <3> HIDE DEF pts
    <3>1. Block(Fresh, "array", c, pts) \in BlockRecords
      BY <2>1, <2>2, <2>3, <2>3a DEF Block, BlockRecords, HasFlags
    <3>2. Block(Fresh, "array", c, pts).parts = 0 /\ Block(Fresh, "array", c, pts).type = "array"
      BY DEF Block
    <3> QED BY <3>1, <3>2 DEF pts
  <2> HIDE DEF block
  <2>6. NDims(block) = NDims(c)
    BY <2>4 DEF NDims
  <2> QED BY <2>4, <2>5, <2>6
<1> HIDE DEF block
<1>3. Tree(v) /\ Root(v) = block /\ DOMAIN v = {<<>>} /\ v[<<>>] = block
  BY <1>2, LeafFacts DEF Leaf
<1>4. Fit(block, NDims(c))
  <2>1. \A i \in DOMAIN <<c.point>> : <<c.point>>[i] = c.point
    OBVIOUS
  <2> QED BY <1>2, <2>1 DEF Fit, Coordinated
<1> HIDE DEF v
<1>5. \A p \in DOMAIN v : Fit(v[p], NDims(Root(v)))
  BY <1>2, <1>3, <1>4
<1>6. Uniform(v)
  BY <1>5, UniformFit
<1>7. Plain(v)
  BY <1>2, <1>3 DEF Plain
<1>8. Len(Root(v).pts) = 1
  <2>1. Root(v).pts = <<c.point>>
    BY <1>2, <1>3
  <2>2. Len(<<c.point>>) = 1
    OBVIOUS
  <2> QED BY ONLY <2>1, <2>2
<1> QED BY <1>1, <1>2, <1>3, <1>6, <1>7, <1>8

\* An array with one more point of as many dimensions.
LEMMA NextPoint ==
  ASSUME NEW array, Tree(array), Uniform(array), Plain(array), Root(array).type = "array",
         NEW c, Coordinated(c), NEW r, r = PtarrayAddCoord(array, c), r.error = ""
  PROVE  /\ Tree(r.value) /\ Uniform(r.value) /\ Plain(r.value)
         /\ Root(r.value).type = "array"
<1> DEFINE block == [Root(array) EXCEPT !.pts = Append(@, c.point)]
           u == WithRoot(array, block)
           n == NDims(Root(array))
<1>1. r = IF n # NDims(c) THEN Refused("MIXDIMS", {}, Blocks(array)) ELSE Returned(u, {})
  BY DEF PtarrayAddCoord
<1>2. Refused("MIXDIMS", {}, Blocks(array)).error # ""
  BY DEF Refused
<1>3. Root(array) \in BlockRecords /\ Root(array).pts \in Seq(Seq(Int)) /\ c.point \in Seq(Int)
  BY TreeSet, PointsCount DEF Coordinated
<1>4. Append(Root(array).pts, c.point) \in Seq(Seq(Int))
  BY <1>3, AppendProperties
<1>5. /\ block \in BlockRecords /\ block.parts = Root(array).parts /\ block.id = Root(array).id
      /\ block.type = "array" /\ block.pts = Append(Root(array).pts, c.point)
      /\ NDims(block) = n
  BY <1>3, <1>4 DEF BlockRecords, NDims
<1> HIDE DEF block
<1>6. Tree(u) /\ DOMAIN u = DOMAIN array /\ Root(u) = block /\ u[<<>>] = block /\ <<>> \in DOMAIN u
      /\ \A p \in DOMAIN array : p # <<>> => u[p] = array[p]
  BY <1>5, WithRootFacts, TreeBranch DEF Root
<1> HIDE DEF u
<1>7. n = NDims(c) /\ r.value = u
  <2>1. Returned(u, {}).value = u
    BY ReturnedFields
  <2> QED BY <1>1, <1>2, <2>1
<1> HIDE DEF n
<1>8. Fit(block, n)
  <2> DEFINE a == Root(array).pts
             x == c.point
  <2>1. \A i \in DOMAIN a : Len(a[i]) = n
    BY UniformFit, TreeBranch DEF Fit, Root, n
  <2>2. Len(x) = n
    BY <1>7 DEF Coordinated
  <2>3. a \in Seq(Seq(Int)) /\ x \in Seq(Int)
    BY <1>3
  <2> HIDE DEF a, x
  <2>4. \A i \in DOMAIN Append(a, x) : Len(Append(a, x)[i]) = n
    <3> DEFINE k == Len(a)
               b == Append(a, x)
    <3>1. k \in Nat /\ DOMAIN a = 1 .. k
      BY <2>3, LenProperties
    <3>2. /\ b \in Seq(Seq(Int)) /\ Len(b) = k + 1
          /\ \A i \in 1 .. k : b[i] = a[i]
          /\ b[k + 1] = x
      <4>1. ASSUME NEW T, NEW w \in Seq(T), NEW y \in T
            PROVE  /\ Append(w, y) \in Seq(T) /\ Len(Append(w, y)) = Len(w) + 1
                   /\ \A i \in 1 .. Len(w) : Append(w, y)[i] = w[i]
                   /\ Append(w, y)[Len(w) + 1] = y
        BY ONLY w \in Seq(T), y \in T, AppendProperties
      <4> QED BY <2>3, <4>1
    <3>3. DOMAIN b = 1 .. k + 1
      BY <3>2, LenProperties
    <3> HIDE DEF k, b
    <3>4. \A i \in 1 .. k + 1 : i \in 1 .. k \/ i = k + 1
      BY ONLY <3>1
    <3>5. \A i \in 1 .. k : Len(b[i]) = n
      BY <2>1, <3>1, <3>2
    <3>6. Len(b[k + 1]) = n
      BY <2>2, <3>2
    <3>7. \A i \in DOMAIN b : Len(b[i]) = n
      BY ONLY <3>3, <3>4, <3>5, <3>6
    <3> QED BY ONLY <3>7 DEF b
  <2> QED BY <1>5, <2>4 DEF Fit, a, x
<1>9. \A p \in DOMAIN array : Fit(array[p], n)
  BY UniformFit DEF n
<1>10. \A p \in DOMAIN u : Fit(u[p], NDims(Root(u)))
  BY <1>5, <1>6, <1>8, <1>9
<1>11. Uniform(u)
  BY <1>10, UniformFit
<1>12. Plain(u)
  BY <1>5, <1>6 DEF Plain
<1> QED BY <1>5, <1>6, <1>7, <1>11, <1>12

\* A geometry around an array has its dimensions.
LEMMA AroundEven ==
  ASSUME heap.made \in Nat, NEW type \in Types, NEW flags, HasFlags(flags), NEW faults,
         NEW array, Tree(array), Uniform(array), Plain(array),
         AroundArray(type, array, flags, faults).error = ""
  PROVE  LET v == AroundArray(type, array, flags, faults).value
         IN  Uniform(v) /\ Plain(v) /\ Root(v).type = type
<1> DEFINE whole == Harmonized(array, flags)
           b == Built(After(array), type, Root(whole))
           v == With(b, whole)
<1>1. array # Nothing
  BY TreeSet
<1>2. AroundArray(type, array, flags, faults).value = v /\ ~ Mismatch(array, flags)
  BY <1>1, MadeAround
<1>3. Tree(whole) /\ Uniform(whole) /\ Plain(whole)
  BY <1>2, HarmonizedFacts, HarmonizedEven
<1>4. HasFlags(Root(whole))
  BY <1>3, TreeFlags
<1>5. After(array) \in Nat
  <2>1. Root(array) \in BlockRecords
    BY TreeSet
  <2>2. Root(array).id \in Nat
    BY <2>1 DEF BlockRecords
  <2> QED BY ONLY <2>2, heap.made \in Nat DEF After, Fresh
<1> HIDE DEF whole
<1>6. Tree(b) /\ Root(b).type = type /\ NDims(Root(b)) = NDims(Root(whole)) /\ Uniform(b) /\ Plain(b)
  <2>1. Tree(b) /\ Root(b).type = type /\ NDims(Root(b)) = NDims(Root(whole))
    BY <1>4, <1>5, BuiltFine
  <2> QED BY <1>4, <1>5, <2>1, BuiltEven
<1> HIDE DEF b
<1>7. Uniform(v) /\ Plain(v) /\ Root(v).type = type
  <2>1. Extends(v, b, whole)
    BY <1>3, <1>6, WithExtends
  <2> QED BY <1>3, <1>6, <2>1, UniformWith, PlainWith DEF Extends
<1> QED BY <1>2, <1>7

-----------------------------------------------------------------------------
(* Even dimensions, function by function *)

\* The members of a list are each of one number of dimensions, unless they are lists themselves.
MembersEven(v) ==
  \A i \in 1 .. Root(v).parts : Root(Part(v, i)).type \notin Mixed => Uniform(Part(v, i))
Even(v) == IF Root(v).type \in Mixed THEN MembersEven(v) ELSE Uniform(v)
EvenElements(c, acc) == IF c \in Mixed THEN MembersEven(acc) ELSE Uniform(acc)

\* The parts have their points in arrays too.
LEMMA PartPlain ==
  ASSUME NEW v, Tree(v), Plain(v), NEW i \in 1 .. Root(v).parts
  PROVE  Plain(Part(v, i))
<1>1. HasPaths(v) /\ <<i>> \in Seq(Nat)
  BY TreeBranch
<1>2. /\ DOMAIN Part(v, i) = {r \in Seq(Nat) : <<i>> \o r \in DOMAIN v}
      /\ \A r \in DOMAIN Part(v, i) : Part(v, i)[r] = v[<<i>> \o r]
  BY <1>1, SubtreeFacts DEF Part
<1> QED BY <1>2 DEF Plain

\* A list of nothing but empty members has no points.
LEMMA EmptyMembersBare ==
  ASSUME NEW v, Tree(v), Plain(v), Root(v).type # "array",
         \A i \in 1 .. Root(v).parts : IsEmptyGeom(Part(v, i))
  PROVE  Bare(v)
<1>1. ASSUME NEW p \in DOMAIN v PROVE v[p].pts = <<>>
  <2>1. CASE p = <<>>
    BY <2>1 DEF Plain, Root
  <2>2. CASE p # <<>>
    <3>1. p \in Seq(Nat) /\ HasPaths(v)
      BY TreeBranch DEF HasPaths
    <3> DEFINE i == p[1]
               r == Tail(p)
    <3>2. i \in 1 .. Root(v).parts
      BY <2>2 DEF Tree
    <3>3. r \in Seq(Nat) /\ p = <<i>> \o r
      BY <2>2, <3>1, FirstStep
    <3>4. <<i>> \in Seq(Nat)
      BY <3>2, TreeBranch
    <3> HIDE DEF i, r
    <3>5. /\ DOMAIN Part(v, i) = {q \in Seq(Nat) : <<i>> \o q \in DOMAIN v}
          /\ \A q \in DOMAIN Part(v, i) : Part(v, i)[q] = v[<<i>> \o q]
      BY <3>1, <3>4, SubtreeFacts DEF Part
    <3>6. r \in DOMAIN Part(v, i) /\ Part(v, i)[r] = v[p]
      BY <3>3, <3>5
    <3>7. Bare(Part(v, i))
      BY <3>2, PartPlain, NoArraysBare
    <3> QED BY <3>6, <3>7 DEF Bare
  <2> QED BY <2>1, <2>2
<1> QED BY <1>1 DEF Bare

\* An empty geometry is even.
LEMMA EmptyEven ==
  ASSUME heap.made \in Nat, NEW type \in Types, NEW flags, HasFlags(flags)
  PROVE  LET v == EmptyNew(type, flags).value
         IN  Uniform(v) /\ Plain(v) /\ Even(v) /\ Root(v).type = type
<1> DEFINE b == Built(Fresh, type, flags)
<1>1. EmptyNew(type, flags).value = b
  BY ReturnedFields DEF EmptyNew
<1>2. Fresh \in Nat
  BY ONLY heap.made \in Nat DEF Fresh
<1>3. Uniform(b) /\ Plain(b) /\ Root(b).type = type /\ Root(b).parts = 0
  BY <1>2, BuiltEven, BuiltFine
<1> HIDE DEF b
<1>4. Even(b)
  BY <1>3 DEF Even, MembersEven
<1> QED BY <1>1, <1>3, <1>4

\* What a reduction leaves: the dimensions are even, and what is not called a list is none.
Left(c, v) == Even(v) /\ Plain(v) /\ (c \notin Mixed => Root(v).type \notin Mixed)

\* A geometry that is no list is even when it has one number of dimensions.
LEMMA LeftUniform ==
  ASSUME NEW c, NEW v, Uniform(v), Plain(v), Root(v).type \notin Mixed
  PROVE  Left(c, v)
BY DEF Left, Even

\* A constructor around an array that returned.
Around(r, type) == r.error = "" => Uniform(r.value) /\ Plain(r.value) /\ Root(r.value).type = type

\* A constructor around one array leaves an even geometry of its type.
LEMMA AroundIs ==
  ASSUME heap.made \in Nat, NEW type \in Types, NEW flags, HasFlags(flags), NEW faults,
         NEW array, array = Nothing \/ (Tree(array) /\ Uniform(array) /\ Plain(array))
  PROVE  Around(AroundArray(type, array, flags, faults), type)
<1> DEFINE r == AroundArray(type, array, flags, faults)
<1>1. CASE array = Nothing
  <2>1. r = EmptyNew(type, flags)
    BY <1>1, AroundNothing
  <2> QED BY <2>1, EmptyEven DEF Around
<1>2. CASE array # Nothing
  <2>1. r.error = "" => Uniform(r.value) /\ Plain(r.value) /\ Root(r.value).type = type
    BY <1>2, AroundEven
  <2> QED BY <2>1 DEF Around
<1> QED BY <1>1, <1>2

\* So do the reductions that call one.
LEMMA AroundLeft ==
  ASSUME heap.made \in Nat, NEW c \in Constructs, NEW flags, HasFlags(flags),
         NEW acc, acc = Nothing \/ (Tree(acc) /\ Uniform(acc) /\ Plain(acc)),
         c \in {"POINT", "point_untagged", "LINESTRING", "linestring_untagged", "CIRCULARSTRING",
                "TRIANGLE", "triangle_untagged"},
         Reduction(c, acc, flags).error = ""
  PROVE  Left(c, Reduction(c, acc, flags).value)
<1> DEFINE r == Reduction(c, acc, flags)
<1>0. {"POINT", "LINESTRING", "CIRCULARSTRING", "TRIANGLE"} \subseteq Types
  BY DEF Types, Keywords
<1>1. /\ Around(PointNew(acc, flags), "POINT") /\ Around(LinestringNew(acc, flags), "LINESTRING")
      /\ Around(CircularstringNew(acc, flags), "CIRCULARSTRING") /\ Around(TriangleNew(acc, flags), "TRIANGLE")
  <2>1. \A type \in Types : \A faults : Around(AroundArray(type, acc, flags, faults), type)
    BY AroundIs
  <2> QED BY <1>0, <2>1 DEF PointNew, LinestringNew, CircularstringNew, TriangleNew
<1>2. r \in {PointNew(acc, flags), LinestringNew(acc, flags), CircularstringNew(acc, flags), TriangleNew(acc, flags)}
  BY DEF Reduction
<1> HIDE DEF r
<1>3. \E type \in {"POINT", "LINESTRING", "CIRCULARSTRING", "TRIANGLE"} : Around(r, type)
  BY <1>1, <1>2
<1>4. r.error = ""
  BY DEF r
<1>5. Uniform(r.value) /\ Plain(r.value) /\ Root(r.value).type \in {"POINT", "LINESTRING", "CIRCULARSTRING", "TRIANGLE"}
  BY <1>3, <1>4 DEF Around
<1>6. Root(r.value).type \notin Mixed
  BY <1>5 DEF Mixed
<1>7. Left(c, r.value)
  BY <1>5, <1>6, LeftUniform
<1> QED BY <1>7 DEF r

\* wkt_parser_polygon_finalize, wkt_parser_curvepolygon_finalize
LEMMA PolygonFinalizeLeft ==
  ASSUME heap.made \in Nat, NEW c \in {"POLYGON", "CURVEPOLYGON"}, NEW flags, HasFlags(flags),
         NEW acc, acc = Nothing \/ (Tree(acc) /\ Uniform(acc) /\ Plain(acc) /\ Root(acc).type \notin Mixed),
         PolygonFinalize(c, acc, flags).error = ""
  PROVE  Left(c, PolygonFinalize(c, acc, flags).value)
<1> DEFINE r == PolygonFinalize(c, acc, flags)
<1>0. c \in Types /\ c \notin Mixed
  BY DEF Types, Keywords, Mixed
<1>1. CASE acc = Nothing
  <2>1. r = EmptyNew(c, flags)
    BY <1>1 DEF PolygonFinalize
  <2>2. Uniform(r.value) /\ Plain(r.value) /\ Root(r.value).type = c
    BY <1>0, <2>1, EmptyEven
  <2> QED BY <1>0, <2>2, LeftUniform
<1>2. CASE acc # Nothing
  <2>1. Mismatch(acc, flags) => r = Refused("MIXDIMS", {}, Blocks(acc))
    BY <1>2 DEF PolygonFinalize
  <2>2. ~ Mismatch(acc, flags) => r = Returned(Harmonized(acc, flags), {})
    BY <1>2 DEF PolygonFinalize
  <2>3. Refused("MIXDIMS", {}, Blocks(acc)).error # ""
    BY DEF Refused
  <2> HIDE DEF r
  <2>4. r.error = ""
    BY DEF r
  <2>5. r = Returned(Harmonized(acc, flags), {}) /\ ~ Mismatch(acc, flags)
    BY <2>1, <2>2, <2>3, <2>4
  <2>6. r.value = Harmonized(acc, flags)
    BY <2>5, ReturnedFields
  <2>7. Uniform(r.value) /\ Plain(r.value)
    BY <1>2, <2>5, <2>6, HarmonizedEven
  <2>8. Root(r.value).type = Root(acc).type
    <3>1. CASE NDims(flags) > 2
      <4>1. Relabelled(SetDims(acc, flags), acc, flags)
        BY <1>2, TreeBranch, RelabelledSetDims
      <4> QED BY <2>6, <3>1, <4>1 DEF Harmonized, Relabelled
    <3>2. CASE ~ (NDims(flags) > 2)
      BY <2>6, <3>2 DEF Harmonized
    <3> QED BY <3>1, <3>2
  <2>9. Left(c, r.value)
    BY <1>2, <2>7, <2>8, LeftUniform
  <2> QED BY <2>9 DEF r
<1> QED BY <1>1, <1>2

\* Naming the dimensions of a list keeps it even where they fit its members.
Fits(flags, part) == IsEmptyGeom(part) \/ NDims(flags) = NDims(Root(part))

\* The members of a list stay even under letters that fit them.
LEMMA MembersSetDims ==
  ASSUME NEW v, Tree(v), Plain(v), MembersEven(v), NEW flags, HasFlags(flags),
         \A i \in 1 .. Root(v).parts : Fits(flags, Part(v, i))
  PROVE  MembersEven(SetDims(v, flags))
<1> DEFINE u == SetDims(v, flags)
<1>1. Root(u).parts = Root(v).parts
  BY TreeBranch, RelabelledSetDims DEF Relabelled
<1>2. ASSUME NEW i \in 1 .. Root(v).parts, Root(Part(u, i)).type \notin Mixed
      PROVE  Uniform(Part(u, i))
  <2> DEFINE w == Part(v, i)
  <2>1. Relabelled(Part(u, i), w, flags) /\ Part(u, i) = SetDims(w, flags) /\ Branch(w) /\ <<>> \in DOMAIN w
    BY PartsOfSetDims
  <2>2. Plain(w) /\ Fits(flags, w)
    BY PartPlain
  <2>3. Root(w).type \notin Mixed => Uniform(w)
    BY DEF MembersEven
  <2> HIDE DEF w, u
  <2>4. Uniform(w)
    BY <1>2, <2>1, <2>3 DEF Relabelled
  <2>5. Bare(w) \/ NDims(flags) = NDims(Root(w))
    BY <2>2, NoArraysBare DEF Fits
  <2> QED BY <2>1, <2>4, <2>5, SetDimsEven
<1> HIDE DEF u
<1>3. MembersEven(u)
  BY <1>1, <1>2 DEF MembersEven
<1> QED BY <1>3 DEF u

\* A compound curve stays even under letters that fit its curves.
LEMMA UniformSetDims ==
  ASSUME NEW v, Tree(v), Plain(v), Uniform(v), NEW flags, HasFlags(flags), Root(v).type # "array",
         \A i \in 1 .. Root(v).parts : Fits(flags, Part(v, i)) /\ NDims(Root(Part(v, i))) = NDims(Root(v))
  PROVE  Uniform(SetDims(v, flags))
<1>1. CASE \A i \in 1 .. Root(v).parts : IsEmptyGeom(Part(v, i))
  <2>1. Bare(v)
    BY <1>1, EmptyMembersBare
  <2> QED BY <2>1, TreeBranch, SetDimsEven
<1>2. CASE \E i \in 1 .. Root(v).parts : ~ IsEmptyGeom(Part(v, i))
  <2>1. NDims(flags) = NDims(Root(v))
    BY <1>2 DEF Fits
  <2> QED BY <2>1, TreeBranch, SetDimsEven
<1> QED BY <1>1, <1>2

\* In a geometry with one number of dimensions every part has it.
LEMMA UniformParts ==
  ASSUME NEW v, Tree(v), Uniform(v), NEW i \in 1 .. Root(v).parts
  PROVE  NDims(Root(Part(v, i))) = NDims(Root(v))
<1>1. HasPaths(v) /\ <<i>> \in DOMAIN v
  BY TreeBranch
<1>2. Root(Part(v, i)) = v[<<i>>]
  BY <1>1, SubtreeRoot DEF Part
<1> QED BY <1>1, <1>2 DEF Uniform

\* A collection that takes another name stays even.
LEMMA TypedRoot ==
  ASSUME NEW v, Tree(v), NEW type \in Types
  PROVE  LET block == [Root(v) EXCEPT !.type = type]
             u == WithRoot(v, block)
         IN  /\ Root(u).type = type /\ Root(u).parts = Root(v).parts
             /\ Uniform(v) => Uniform(u)
             /\ Plain(v) /\ Root(v).type # "array" => Plain(u)
             /\ MembersEven(v) => MembersEven(u)
<1> DEFINE block == [Root(v) EXCEPT !.type = type]
           u == WithRoot(v, block)
<1>1. Root(v) \in BlockRecords /\ <<>> \in DOMAIN v /\ HasPaths(v)
  BY TreeBranch
<1>2. /\ block \in BlockRecords /\ block.parts = Root(v).parts /\ block.id = Root(v).id
      /\ block.type = type /\ block.pts = Root(v).pts /\ NDims(block) = NDims(Root(v))
  BY <1>1 DEF BlockRecords, NDims
<1> HIDE DEF block
<1>3. Tree(u) /\ DOMAIN u = DOMAIN v /\ Root(u) = block /\ \A p \in DOMAIN v : p # <<>> => u[p] = v[p]
  BY <1>2, WithRootFacts
<1>4. \A i \in 1 .. Root(v).parts : Part(u, i) = Part(v, i)
  <2>1. ASSUME NEW i \in 1 .. Root(v).parts PROVE Part(u, i) = Part(v, i)
    <3>1. <<i>> \in Seq(Nat) /\ <<i>> # <<>>
      BY TreeBranch, StepPath
    <3> QED BY <1>1, <3>1, SubtreeOfWithRoot DEF Part
  <2> QED BY <2>1
<1>5. u[<<>>] = block /\ v[<<>>] = Root(v)
  BY <1>3 DEF Root
<1> HIDE DEF u
<1>6. ASSUME Uniform(v) PROVE Uniform(u)
  <2>1. \A p \in DOMAIN v : Fit(v[p], NDims(Root(v)))
    BY <1>6, UniformFit
  <2>2. Fit(block, NDims(Root(v)))
    BY <1>1, <1>2, <1>5, <2>1 DEF Fit
  <2>3. \A p \in DOMAIN u : Fit(u[p], NDims(Root(u)))
    BY <1>2, <1>3, <1>5, <2>1, <2>2
  <2> QED BY <2>3, UniformFit
<1>7. ASSUME Plain(v), Root(v).type # "array" PROVE Plain(u)
  <2>1. block.pts = <<>>
    BY <1>1, <1>2, <1>5, <1>7 DEF Plain
  <2> QED BY <1>3, <1>5, <1>7, <2>1 DEF Plain
<1>8. ASSUME MembersEven(v) PROVE MembersEven(u)
  BY <1>2, <1>3, <1>4, <1>8 DEF MembersEven
<1> QED BY <1>2, <1>3, <1>6, <1>7, <1>8 DEF u, block

\* wkt_parser_collection_finalize
LEMMA CollectionFinalizeLeft ==
  ASSUME heap.made \in Nat, NEW c \in Mixed \cup {"COMPOUNDCURVE"}, NEW flags, HasFlags(flags),
         NEW acc, acc = Nothing \/ (/\ Tree(acc) /\ EvenElements(c, acc) /\ Plain(acc)
                                    /\ Root(acc).type = "GEOMETRYCOLLECTION"),
         CollectionFinalize(c, acc, flags).error = ""
  PROVE  Left(c, CollectionFinalize(c, acc, flags).value)
<1> DEFINE r == CollectionFinalize(c, acc, flags)
<1>0. c \in Types /\ "COMPOUNDCURVE" \notin Mixed
  BY DEF Types, Keywords, Mixed
<1>1. CASE acc = Nothing
  <2>1. r = EmptyNew(c, flags)
    BY <1>1 DEF CollectionFinalize
  <2>2. Even(r.value) /\ Plain(r.value) /\ Root(r.value).type = c
    BY <1>0, <2>1, EmptyEven
  <2> QED BY <2>2 DEF Left
<1>2. CASE acc # Nothing
  <2> DEFINE whole == Harmonized(acc, flags)
             block == [Root(whole) EXCEPT !.type = c]
             u == WithRoot(whole, block)
             odd(part) == /\ ~ IsEmptyGeom(part)
                          /\ \/ NDims(flags) # NDims(Root(part))
                             \/ /\ c = "GEOMETRYCOLLECTION"
                                /\ flags.z # Root(part).z \/ flags.m # Root(part).m
             bad == NDims(flags) > 2 /\ \E i \in 1 .. Root(acc).parts : odd(Part(acc, i))
  <2>1. r = IF bad THEN Refused("MIXDIMS", {}, Blocks(acc)) ELSE Returned(u, {})
    BY <1>2 DEF CollectionFinalize
  <2>2. Refused("MIXDIMS", {}, Blocks(acc)).error # ""
    BY DEF Refused
  <2>3. ~ bad => (NDims(flags) > 2 => \A i \in 1 .. Root(acc).parts : Fits(flags, Part(acc, i)))
    BY DEF Fits
  <2>4. r.error = ""
    OBVIOUS
  <2> HIDE DEF r, bad, u, whole
  <2>5. ~ bad /\ r.value = u
    <3>1. Returned(u, {}).value = u
      BY ReturnedFields
    <3> QED BY <2>1, <2>2, <2>4, <3>1
  <2>6. /\ Tree(acc) /\ EvenElements(c, acc) /\ Plain(acc) /\ Root(acc).type = "GEOMETRYCOLLECTION"
    BY <1>2
  <2>7. Tree(whole) /\ Plain(whole)
    BY <2>6, HarmonizedFacts, HarmonizedPlain DEF whole
  <2>8. Root(whole).type # "array"
    <3>1. Root(SetDims(acc, flags)).type = Root(acc).type
      BY <2>6, TreeBranch, RelabelledSetDims DEF Relabelled
    <3> QED BY <2>6, <3>1 DEF whole, Harmonized
  <2>9. /\ c \in Mixed => MembersEven(whole)
        /\ c \notin Mixed => Uniform(whole)
    <3>1. CASE NDims(flags) > 2
      <4>1. whole = SetDims(acc, flags) /\ \A i \in 1 .. Root(acc).parts : Fits(flags, Part(acc, i))
        BY <2>3, <2>5, <3>1 DEF whole, Harmonized
      <4>2. c \in Mixed => MembersEven(whole)
        BY <2>6, <4>1, MembersSetDims DEF EvenElements
      <4>3. c \notin Mixed => Uniform(whole)
        BY <2>6, <4>1, UniformSetDims, UniformParts DEF EvenElements
      <4> QED BY <4>2, <4>3
    <3>2. CASE ~ (NDims(flags) > 2)
      BY <2>6, <3>2 DEF whole, Harmonized, EvenElements
    <3> QED BY <3>1, <3>2
  <2>10. /\ Root(u).type = c
         /\ Uniform(whole) => Uniform(u)
         /\ Plain(u)
         /\ MembersEven(whole) => MembersEven(u)
    BY <1>0, <2>7, <2>8, TypedRoot DEF u
  <2>11. Even(u)
    BY <2>9, <2>10 DEF Even
  <2>12. Left(c, r.value)
    BY <2>5, <2>10, <2>11 DEF Left
  <2> QED BY <2>12 DEF r
<1> QED BY <1>1, <1>2

\* The elements of a construct, or what is between its brackets so far.
Assembled(c, acc) == Tree(acc) /\ Shape(c, acc) /\ EvenElements(c, acc) /\ Plain(acc)

\* What closes a construct keeps the dimensions even.
LEMMA ReductionLeft ==
  ASSUME heap.made \in Nat, NEW c \in Constructs, NEW flags, HasFlags(flags),
         NEW acc, acc = Nothing \/ Assembled(c, acc), c = "ring" => acc # Nothing,
         Reduction(c, acc, flags).error = ""
  PROVE  Left(c, Reduction(c, acc, flags).value)
<1> DEFINE r == Reduction(c, acc, flags)
<1>1. acc = Nothing \/ (Tree(acc) /\ Shape(c, acc) /\ EvenElements(c, acc) /\ Plain(acc))
  BY DEF Assembled
<1>2. CASE c \in {"POINT", "point_untagged", "LINESTRING", "linestring_untagged", "CIRCULARSTRING",
                  "TRIANGLE", "triangle_untagged"}
  <2>1. c \notin Mixed
    BY <1>2 DEF Mixed
  <2>2. acc = Nothing \/ (Tree(acc) /\ Uniform(acc) /\ Plain(acc))
    BY <1>1, <2>1 DEF EvenElements
  <2> QED BY <1>2, <2>2, AroundLeft
<1>3. CASE c = "ring"
  <2>1. r = Returned(acc, {})
    BY <1>3 DEF Reduction
  <2>2. r.value = acc
    BY <2>1, ReturnedFields
  <2>3. Uniform(acc) /\ Plain(acc) /\ Root(acc).type = "array"
    BY <1>1, <1>3 DEF EvenElements, Shape, Seed, Ptarrays, Triangles, Mixed
  <2>4. Root(acc).type \notin Mixed
    BY <2>3 DEF Mixed
  <2> HIDE DEF r
  <2>5. Left(c, r.value)
    BY <2>2, <2>3, <2>4, LeftUniform
  <2> QED BY <2>5 DEF r
<1>4. CASE c \in {"polygon_untagged", "patch"}
  <2>1. r = IF acc = Nothing THEN EmptyNew("POLYGON", flags) ELSE Returned(acc, {})
    BY <1>4 DEF Reduction
  <2>2. "POLYGON" \in Types /\ "POLYGON" \notin Mixed /\ c \notin Mixed
    BY <1>4 DEF Types, Keywords, Mixed
  <2>3. Returned(acc, {}).value = acc
    BY ReturnedFields
  <2>4. acc # Nothing => Uniform(acc) /\ Plain(acc) /\ Root(acc).type = "POLYGON"
    BY <1>1, <1>4, <2>2 DEF EvenElements, Shape, Seed, Ptarrays, Triangles, Rings
  <2>5. LET v == EmptyNew("POLYGON", flags).value
        IN  Uniform(v) /\ Plain(v) /\ Even(v) /\ Root(v).type = "POLYGON"
    BY <2>2, EmptyEven
  <2>6. acc = Nothing => r = EmptyNew("POLYGON", flags)
    BY <2>1
  <2>7. acc # Nothing => r = Returned(acc, {})
    BY <2>1
  <2> HIDE DEF r
  <2>8. Uniform(r.value) /\ Plain(r.value) /\ Root(r.value).type = "POLYGON"
    BY <2>3, <2>4, <2>5, <2>6, <2>7
  <2>9. Left(c, r.value)
    BY <2>2, <2>8, LeftUniform
  <2> QED BY <2>9 DEF r
<1>5. CASE c \in {"POLYGON", "CURVEPOLYGON"}
  <2>1. r = PolygonFinalize(c, acc, flags)
    BY <1>5 DEF Reduction
  <2>2. c \notin Mixed /\ {"POLYGON", "CURVEPOLYGON"} \cap Mixed = {} /\ Seed(c) = c /\ c \notin Triangles
    BY <1>5 DEF Mixed, Seed, Ptarrays, Triangles, Rings
  <2>3. acc = Nothing \/ (Tree(acc) /\ Uniform(acc) /\ Plain(acc) /\ Root(acc).type \notin Mixed)
    BY <1>1, <1>5, <2>2 DEF EvenElements, Shape
  <2> QED BY <1>5, <2>1, <2>3, PolygonFinalizeLeft
<1>6. CASE c \in Mixed \cup {"COMPOUNDCURVE"}
  <2>1. r = CollectionFinalize(c, acc, flags)
    BY <1>6 DEF Reduction, Mixed
  <2>2. Seed(c) = "GEOMETRYCOLLECTION" /\ c \notin Triangles
    BY <1>6 DEF Mixed, Seed, Ptarrays, Triangles, Rings
  <2>3. acc = Nothing \/ (/\ Tree(acc) /\ EvenElements(c, acc) /\ Plain(acc)
                          /\ Root(acc).type = "GEOMETRYCOLLECTION")
    BY <1>1, <2>2 DEF Shape
  <2> QED BY <1>6, <2>1, <2>3, CollectionFinalizeLeft
<1> QED BY <1>2, <1>3, <1>4, <1>5, <1>6, ConstructCases

\* What one more element leaves is of the same shape.
LEMMA AdditionShape ==
  ASSUME heap.made \in Nat, NEW c \in Constructs, c \notin Ptarrays,
         NEW acc, acc = Nothing \/ (Tree(acc) /\ Shape(c, acc)),
         NEW v, Tree(v), c \notin Mixed => Root(v).type \notin Mixed,
         c \in Single => acc = Nothing, Addition(c, acc, v).error = ""
  PROVE  Shape(c, Addition(c, acc, v).value)
<1> DEFINE u == Addition(c, acc, v).value
           b == Built(Fresh, Seed(c), Root(v))
<1>1. /\ c \in Triangles => u = v
      /\ c \notin Triangles /\ acc = Nothing => u = With(b, v)
      /\ c \notin Triangles /\ acc # Nothing =>
           u = With(acc, v) /\ (c \notin Mixed => NDims(Root(v)) = NDims(Root(acc)))
      /\ c = "COMPOUNDCURVE" /\ acc # Nothing => Joined(Part(acc, Root(acc).parts), v, 2)
  BY AdditionValue
<1>2. c \in Triangles => c \notin Mixed
  BY DEF Triangles, Mixed
<1>3. Fresh \in Nat /\ HasFlags(Root(v)) /\ Seed(c) \in Types
  <2>1. Fresh \in Nat
    BY ONLY heap.made \in Nat DEF Fresh
  <2>2. Seed(c) \in Types
    BY DEF Seed, Types, Keywords
  <2> QED BY <2>1, <2>2, TreeFlags
<1>4. Tree(b) /\ Root(b).type = Seed(c)
  BY <1>3, BuiltFine
<1> HIDE DEF u, b
<1>5. Shape(c, u)
  <2>1. CASE c \in Triangles
    BY <1>1, <1>2, <2>1 DEF Shape
  <2>2. CASE c \notin Triangles /\ acc = Nothing
    <3>1. Extends(u, b, v)
      BY <1>1, <1>4, <2>2, WithExtends
    <3> QED BY <1>4, <2>2, <3>1 DEF Shape, Extends
  <2>3. CASE c \notin Triangles /\ acc # Nothing
    <3>1. Extends(u, acc, v)
      BY <1>1, <2>3, WithExtends
    <3> QED BY <2>3, <3>1 DEF Shape, Extends
  <2> QED BY <2>1, <2>2, <2>3
<1> QED BY <1>5 DEF u

\* A list without members.
LEMMA NoMembers ==
  ASSUME NEW v, Root(v).parts = 0
  PROVE  MembersEven(v)
<1>1. 1 .. 0 = {}
  OBVIOUS
<1> QED BY <1>1 DEF MembersEven

\* A list with one more even member.
LEMMA MembersWith ==
  ASSUME NEW v, NEW w, Tree(v), Tree(w), MembersEven(v), Root(w).type \notin Mixed => Uniform(w)
  PROVE  MembersEven(With(v, w))
<1> DEFINE u == With(v, w)
           n == Root(v).parts
<1>1. Extends(u, v, w)
  BY WithExtends
<1>2. /\ n \in Nat /\ Root(u).parts = n + 1
      /\ \A i \in 1 .. n : Part(u, i) = Part(v, i)
      /\ Part(u, n + 1) = w
  BY <1>1 DEF Extends
<1> HIDE DEF u, n
<1>3. ASSUME NEW i \in 1 .. n + 1, Root(Part(u, i)).type \notin Mixed PROVE Uniform(Part(u, i))
  <2>1. i \in 1 .. n \/ i = n + 1
    BY <1>2
  <2> QED BY <1>2, <1>3, <2>1 DEF MembersEven, n
<1>4. MembersEven(u)
  BY <1>2, <1>3 DEF MembersEven
<1> QED BY <1>4 DEF u

\* What adds an element keeps the dimensions even.
LEMMA AdditionAssembled ==
  ASSUME heap.made \in Nat, NEW c \in Constructs, c \notin Ptarrays,
         NEW acc, acc = Nothing \/ Assembled(c, acc),
         NEW v, Tree(v), Even(v), Plain(v), c \notin Mixed => Root(v).type \notin Mixed,
         c \in Single => acc = Nothing, Addition(c, acc, v).error = ""
  PROVE  Assembled(c, Addition(c, acc, v).value)
<1> DEFINE u == Addition(c, acc, v).value
           b == Built(Fresh, Seed(c), Root(v))
<1>0. acc = Nothing \/ (Tree(acc) /\ Shape(c, acc) /\ EvenElements(c, acc) /\ Plain(acc))
  BY DEF Assembled
<1>1. /\ c \in Triangles => u = v
      /\ c \notin Triangles /\ acc = Nothing => u = With(b, v)
      /\ c \notin Triangles /\ acc # Nothing =>
           u = With(acc, v) /\ (c \notin Mixed => NDims(Root(v)) = NDims(Root(acc)))
      /\ c = "COMPOUNDCURVE" /\ acc # Nothing => Joined(Part(acc, Root(acc).parts), v, 2)
  BY AdditionValue
<1>2. Shape(c, u)
  BY <1>0, AdditionShape
<1>3. Fresh \in Nat /\ HasFlags(Root(v)) /\ Seed(c) \in Types
  <2>1. Fresh \in Nat
    BY ONLY heap.made \in Nat DEF Fresh
  <2>2. Seed(c) \in Types
    BY DEF Seed, Types, Keywords
  <2> QED BY <2>1, <2>2, TreeFlags
<1>4. Tree(b) /\ Root(b).parts = 0 /\ NDims(Root(b)) = NDims(Root(v)) /\ Uniform(b) /\ Plain(b)
  BY <1>3, BuiltFine, BuiltEven
<1> HIDE DEF b
<1>5. MembersEven(b)
  <2> QED BY ONLY <1>4, NoMembers
<1>6. c \in Triangles => c \notin Mixed
  BY DEF Triangles, Mixed
<1> HIDE DEF u, b
<1>7. Root(v).type \notin Mixed => Uniform(v)
  BY DEF Even
<1>8. Tree(u) /\ EvenElements(c, u) /\ Plain(u)
  <2>1. CASE c \in Triangles
    BY <1>1, <1>6, <1>7, <2>1 DEF EvenElements
  <2>2. CASE c \notin Triangles /\ acc = Nothing
    <3>1. u = With(b, v)
      BY <1>1, <2>2
    <3>2. Tree(u) /\ Plain(u)
      BY <1>4, <3>1, WithTree, PlainWith
    <3>3. c \in Mixed => MembersEven(u)
      BY <1>4, <1>5, <1>7, <3>1, MembersWith
    <3>4. c \notin Mixed => Uniform(u)
      BY <1>4, <1>7, <3>1, UniformWith
    <3> QED BY <3>2, <3>3, <3>4 DEF EvenElements
  <2>3. CASE c \notin Triangles /\ acc # Nothing
    <3>1. u = With(acc, v) /\ Tree(acc) /\ Plain(acc) /\ EvenElements(c, acc)
      BY <1>0, <1>1, <2>3
    <3>2. Tree(u) /\ Plain(u)
      BY <3>1, WithTree, PlainWith
    <3>3. c \in Mixed => MembersEven(u)
      BY <1>7, <3>1, MembersWith DEF EvenElements
    <3>4. c \notin Mixed => Uniform(u)
      BY <1>1, <1>7, <2>3, <3>1, UniformWith DEF EvenElements
    <3> QED BY <3>2, <3>3, <3>4 DEF EvenElements
  <2> QED BY <2>1, <2>2, <2>3
<1>9. Assembled(c, u)
  BY <1>2, <1>8 DEF Assembled
<1> QED BY <1>9 DEF u

\* An array promises nothing.
LEMMA ArrayFine ==
  ASSUME NEW v, Tree(v), Root(v).type = "array", Root(v).parts = 0
  PROVE  Fine(v)
<1>1. ASSUME NEW p \in DOMAIN v PROVE p = <<>>
  <2>1. 1 .. 0 = {}
    OBVIOUS
  <2> QED BY <1>1, <2>1 DEF Tree
<1>2. Subtree(v, <<>>) = v
  BY TreeBranch
<1>3. Promise(v)
  BY ListPromise
<1> QED BY <1>1, <1>2, <1>3 DEF Fine, Good

\* Nor does it with one more point.
LEMMA NextPointFine ==
  ASSUME NEW array, Tree(array), Fine(array), Root(array).type = "array",
         NEW c, Coordinated(c), NEW r, r = PtarrayAddCoord(array, c), r.error = ""
  PROVE  Fine(r.value)
<1> DEFINE block == [Root(array) EXCEPT !.pts = Append(@, c.point)]
           u == WithRoot(array, block)
           n == NDims(Root(array))
<1>1. r = IF n # NDims(c) THEN Refused("MIXDIMS", {}, Blocks(array)) ELSE Returned(u, {})
  BY DEF PtarrayAddCoord
<1>2. Refused("MIXDIMS", {}, Blocks(array)).error # ""
  BY DEF Refused
<1>3. Root(array) \in BlockRecords /\ Root(array).pts \in Seq(Seq(Int)) /\ c.point \in Seq(Int)
  BY TreeSet, PointsCount DEF Coordinated
<1>4. Append(Root(array).pts, c.point) \in Seq(Seq(Int))
  BY <1>3, AppendProperties
<1>5. /\ block \in BlockRecords /\ block.parts = Root(array).parts /\ block.id = Root(array).id
      /\ block.type = "array"
  BY <1>3, <1>4 DEF BlockRecords
<1> HIDE DEF block
<1>6. Root(u) = block
  BY <1>5, WithRootFacts
<1>7. Promise(u)
  BY <1>5, <1>6, ListPromise
<1>8. Fine(u)
  BY <1>5, <1>7, FineWithRoot
<1> HIDE DEF u, n
<1>9. r.value = u
  <2>1. Returned(u, {}).value = u
    BY ReturnedFields
  <2> QED BY <1>1, <1>2, <2>1
<1> QED BY <1>8, <1>9

\* The elements of a line are one array.
LEMMA ArrayAssembled ==
  ASSUME NEW k \in Ptarrays, NEW v, Tree(v), Uniform(v), Plain(v), Root(v).type = "array"
  PROVE  Assembled(k, v)
<1>1. Seed(k) = "array" /\ k \notin Triangles /\ k \notin Mixed
  BY DEF Seed, Ptarrays, Triangles, Mixed
<1> QED BY <1>1 DEF Assembled, Shape, EvenElements

\* And nothing else is.
LEMMA AssembledArray ==
  ASSUME NEW k \in Ptarrays, NEW v, Assembled(k, v)
  PROVE  Tree(v) /\ Uniform(v) /\ Plain(v) /\ Root(v).type = "array"
<1>1. Seed(k) = "array" /\ k \notin Triangles /\ k \notin Mixed
  BY DEF Seed, Ptarrays, Triangles, Mixed
<1> QED BY <1>1 DEF Assembled, Shape, EvenElements

\* The array a coordinate begins.
LEMMA FirstCoordinate ==
  ASSUME heap.made \in Nat, NEW k \in Ptarrays, NEW c, Coordinated(c)
  PROVE  LET v == PtarrayNew(c).value IN Assembled(k, v) /\ Promised(k, v)
<1> DEFINE v == PtarrayNew(c).value
<1>1. Tree(v) /\ Uniform(v) /\ Plain(v) /\ Root(v).type = "array" /\ Root(v).parts = 0
  BY FirstPoint
<1> HIDE DEF v
<1>2. Assembled(k, v) /\ Fine(v)
  BY <1>1, ArrayAssembled, ArrayFine
<1>3. k # "COMPOUNDCURVE"
  BY DEF Ptarrays
<1>4. Assembled(k, v) /\ Promised(k, v)
  BY <1>2, <1>3 DEF Promised
<1> QED BY <1>4 DEF v

\* One more coordinate.
LEMMA NextCoordinate ==
  ASSUME NEW k \in Ptarrays, NEW array, Assembled(k, array), NEW c, Coordinated(c),
         NEW r, r = PtarrayAddCoord(array, c), r.error = ""
  PROVE  Assembled(k, r.value) /\ (Promised(k, array) => Promised(k, r.value))
<1>1. Tree(array) /\ Uniform(array) /\ Plain(array) /\ Root(array).type = "array"
  BY AssembledArray
<1>2. Tree(r.value) /\ Uniform(r.value) /\ Plain(r.value) /\ Root(r.value).type = "array"
  BY <1>1, NextPoint
<1>3. Assembled(k, r.value)
  BY <1>2, ArrayAssembled
<1>4. k # "COMPOUNDCURVE"
  BY DEF Ptarrays
<1>5. Fine(array) => Fine(r.value)
  BY <1>1, NextPointFine
<1> QED BY <1>3, <1>4, <1>5 DEF Promised

\* The fields of a refusal.
LEMMA RefusedFields ==
  ASSUME NEW new, NEW error, NEW freed
  PROVE  Refused(error, new, freed).value = Nothing /\ Refused(error, new, freed).error = error
BY DEF Refused

\* The point of a multipoint's coordinate.
LEMMA CoordinatePointLeft ==
  ASSUME heap.made \in Nat, NEW c, Coordinated(c),
         NEW r, r = Then(PtarrayNew(c), LAMBDA array : PointNew(array, FlatFlags)), r.error = ""
  PROVE  Fine(r.value) /\ Even(r.value) /\ Plain(r.value)
<1> DEFINE v == PtarrayNew(c).value
           s == PointNew(v, FlatFlags)
           new == s.new \cup PtarrayNew(c).new
<1>1. r = [s EXCEPT !.new = new]
  BY DEF Then
<1>2. Tree(v) /\ Uniform(v) /\ Plain(v) /\ Root(v).type = "array" /\ Root(v).parts = 0 /\ Len(Root(v).pts) = 1
  BY FirstPoint
<1>3. Fine(v)
  BY <1>2, ArrayFine
<1>4. HasFlags(FlatFlags) /\ v # Nothing /\ "POINT" \in Types
  BY <1>2, TreeSet DEF HasFlags, FlatFlags, Types, Keywords
<1>5. Made(s, "POINT")
  BY <1>2, <1>3, <1>4, PointMade
<1>6. Around(s, "POINT")
  <2>1. \A faults : Around(AroundArray("POINT", v, FlatFlags, faults), "POINT")
    BY <1>2, <1>4, AroundIs
  <2> QED BY <2>1 DEF PointNew
<1>7. (\E w, n : s = Returned(w, n)) \/ (\E e, n, f : s = Refused(e, n, f))
  BY DEF PointNew, AroundArray, EmptyNew
<1> HIDE DEF v, s, new
<1>8. r.error = s.error /\ r.value = s.value
  <2>1. CASE \E w, n : s = Returned(w, n)
    <3>1. PICK w, n : s = Returned(w, n)
      BY <2>1
    <3>2. r = Returned(w, new)
      BY <1>1, <3>1, NewReturned
    <3>3. /\ Returned(w, n).value = w /\ Returned(w, n).error = ""
          /\ Returned(w, new).value = w /\ Returned(w, new).error = ""
      BY ReturnedFields
    <3> QED BY ONLY <3>1, <3>2, <3>3
  <2>2. CASE \E e, n, f : s = Refused(e, n, f)
    <3>1. PICK e, n, f : s = Refused(e, n, f)
      BY <2>2
    <3>2. r = Refused(e, new, f)
      BY <1>1, <3>1, NewRefused
    <3>3. /\ Refused(e, n, f).value = Nothing /\ Refused(e, n, f).error = e
          /\ Refused(e, new, f).value = Nothing /\ Refused(e, new, f).error = e
      BY ONLY RefusedFields
    <3> QED BY ONLY <3>1, <3>2, <3>3
  <2> QED BY <1>7, <2>1, <2>2
<1>9. Fine(s.value) /\ Uniform(s.value) /\ Plain(s.value) /\ Root(s.value).type = "POINT"
  BY <1>5, <1>6, <1>8 DEF Made, Around
<1>10. Even(s.value)
  BY <1>9 DEF Even, Mixed
<1> QED BY <1>8, <1>9, <1>10

-----------------------------------------------------------------------------
(* What the open constructs have in common *)

\* A construct, or a geometry of this type, that may be an element of another.
FitsIn(inner, outer) == outer \notin Ptarrays /\ (outer \notin Mixed => inner \notin Mixed)

\* all: the caller asked for all checks.
ItemSound(all, item) ==
  item.acc = Nothing \/ (Assembled(item.construct, item.acc) /\ (all => Promised(item.construct, item.acc)))

\* A geometry that waits or is finished.
ValueSound(all, v) == v = Nothing \/ (Even(v) /\ Plain(v) /\ (all => Fine(v)))

\* The open constructs, each in one it fits in.
StackSound(all, symbols) ==
  /\ \A i \in DOMAIN symbols : ItemSound(all, symbols[i])
  /\ \A i \in 1 .. Len(symbols) - 1 : FitsIn(symbols[i + 1].construct, symbols[i].construct)

\* Nothing is open, and nothing waits.
LEMMA EmptySound ==
  ASSUME NEW all
  PROVE  StackSound(all, <<>>) /\ ValueSound(all, Nothing)
BY DEF StackSound, ValueSound

\* One more construct that fits in the innermost one.
LEMMA AppendSound ==
  ASSUME NEW all, NEW st \in Seq(Items), StackSound(all, st), NEW item \in Items, ItemSound(all, item),
         st # <<>> => FitsIn(item.construct, st[Len(st)].construct)
  PROVE  StackSound(all, Append(st, item))
<1> DEFINE s == Append(st, item)
<1>1. /\ s \in Seq(Items) /\ Len(s) = Len(st) + 1 /\ Len(st) \in Nat
      /\ \A i \in 1 .. Len(st) : s[i] = st[i]
      /\ s[Len(st) + 1] = item
  BY AppendProperties, LenProperties
<1>2. DOMAIN st = 1 .. Len(st) /\ DOMAIN s = 1 .. Len(st) + 1
  BY <1>1, LenProperties
<1>3. st # <<>> <=> Len(st) # 0
  BY EmptySeq
<1> HIDE DEF s
<1>4. \A i \in DOMAIN s : ItemSound(all, s[i])
  <2>1. \A i \in DOMAIN st : ItemSound(all, st[i])
    BY DEF StackSound
  <2>2. \A i \in 1 .. Len(st) + 1 : i \in 1 .. Len(st) \/ i = Len(st) + 1
    BY <1>1
  <2> QED BY <1>1, <1>2, <2>1, <2>2
<1>5. ASSUME NEW i \in 1 .. Len(s) - 1 PROVE FitsIn(s[i + 1].construct, s[i].construct)
  <2>1. i \in 1 .. Len(st) /\ s[i] = st[i]
    BY <1>1
  <2>2. CASE i = Len(st)
    <3>1. s[i + 1] = item /\ st # <<>>
      BY <1>1, <1>3, <2>1, <2>2
    <3> QED BY <2>1, <2>2, <3>1
  <2>3. CASE i # Len(st)
    <3>1. i \in 1 .. Len(st) - 1 /\ i + 1 \in 1 .. Len(st)
      BY <1>1, <2>1, <2>3
    <3>2. s[i + 1] = st[i + 1]
      BY <1>1, <3>1
    <3> QED BY <2>1, <3>1, <3>2 DEF StackSound
  <2> QED BY <2>2, <2>3
<1>6. StackSound(all, s)
  BY <1>4, <1>5 DEF StackSound
<1> QED BY <1>6 DEF s

\* The innermost construct fits in the one around it.
LEMMA FrontSound ==
  ASSUME NEW all, NEW st \in Seq(Items), StackSound(all, st), st # <<>>
  PROVE  /\ StackSound(all, Front(st)) /\ ItemSound(all, st[Len(st)])
         /\ Front(st) \in Seq(Items)
         /\ Front(st) # <<>> => FitsIn(st[Len(st)].construct, Front(st)[Len(Front(st))].construct)
<1> DEFINE s == Front(st)
<1>1. Len(st) \in Nat /\ Len(st) # 0 /\ DOMAIN st = 1 .. Len(st)
  BY EmptySeq, LenProperties
<1>2. /\ s = [i \in 1 .. Len(st) - 1 |-> st[i]]
      /\ \A i \in 1 .. Len(st) - 1 : st[i] \in Items
  <2>1. \A i \in 1 .. Len(st) : st[i] \in Items
    BY <1>1, ElementOfSeq
  <2>2. s = SubSeq(st, 1, Len(st) - 1)
    BY DEF Front
  <2>3. SubSeq(st, 1, Len(st) - 1) = [i \in 1 .. Len(st) - 1 |-> st[i]]
    <3>1. Len(st) - 1 \in Nat
      BY <1>1
    <3> QED BY <1>1, <3>1
  <2> QED BY <2>1, <2>2, <2>3, <1>1
<1>3. Len(st) - 1 \in Nat
  BY <1>1
<1>4. s \in Seq(Items) /\ Len(s) = Len(st) - 1 /\ DOMAIN s = 1 .. Len(st) - 1
  BY <1>2, <1>3, IsASeq
<1>5. \A i \in 1 .. Len(st) - 1 : s[i] = st[i] /\ i \in DOMAIN st
  BY <1>1, <1>2
<1> HIDE DEF s
<1>6. StackSound(all, s)
  <2>1. \A i \in DOMAIN s : ItemSound(all, s[i])
    BY <1>4, <1>5 DEF StackSound
  <2>2. ASSUME NEW i \in 1 .. Len(s) - 1 PROVE FitsIn(s[i + 1].construct, s[i].construct)
    <3>1. i \in 1 .. Len(st) - 1 /\ i + 1 \in 1 .. Len(st) - 1
      BY <1>1, <1>4
    <3> QED BY <1>5, <3>1 DEF StackSound
  <2> QED BY <2>1, <2>2 DEF StackSound
<1>7. ItemSound(all, st[Len(st)])
  <2>1. Len(st) \in DOMAIN st
    BY <1>1
  <2> QED BY <2>1 DEF StackSound
<1>8. s # <<>> => FitsIn(st[Len(st)].construct, s[Len(s)].construct)
  <2> SUFFICES ASSUME s # <<>> PROVE FitsIn(st[Len(st)].construct, s[Len(s)].construct)
    OBVIOUS
  <2>1. Len(s) # 0
    BY <1>4, EmptySeq
  <2>2. Len(s) \in 1 .. Len(st) - 1 /\ Len(s) + 1 = Len(st)
    BY <1>1, <1>4, <2>1
  <2>3. s[Len(s)] = st[Len(s)]
    BY <1>5, <2>2
  <2>4. FitsIn(st[Len(s) + 1].construct, st[Len(s)].construct)
    BY <2>2 DEF StackSound
  <2> QED BY <2>2, <2>3, <2>4
<1> QED BY <1>4, <1>6, <1>7, <1>8 DEF s

\* What the grammar puts into a construct fits in it.
LEMMA GrammarFits ==
  ASSUME NEW c \in Constructs
  PROVE  /\ \A name \in Grammar[c].names : FitsIn(name, c)
         /\ Grammar[c].bare # "none" => FitsIn(Grammar[c].bare, c)
         /\ Grammar[c].coordinates => c = "MULTIPOINT" \/ c \in Ptarrays
<1> USE DEF FitsIn, Ptarrays, Mixed, Grammar, Rule, Keywords, GeometryList, SurfaceList, TriangleList,
            PolygonList, PatchList, RingList, CurveringList, CompoundList, CurveList, LinestringList,
            PointList, Ptarray
<1>1. CASE c \in {"POINT", "point_untagged", "LINESTRING", "linestring_untagged", "CIRCULARSTRING", "ring"}
  BY <1>1
<1>2. CASE c \in {"TRIANGLE", "triangle_untagged", "polygon_untagged", "patch", "POLYGON"}
  BY <1>2
<1>3. CASE c \in {"CURVEPOLYGON", "COMPOUNDCURVE"}
  BY <1>3
<1>4. CASE c \in Mixed
  BY <1>4
<1> QED BY <1>1, <1>2, <1>3, <1>4, ConstructCases

\* wkt_parser_coord_2, wkt_parser_coord_3, wkt_parser_coord_4
LEMMA CoordinateCoordinated ==
  ASSUME NEW ordinates \in Seq(Int), Len(ordinates) \in 2 .. 4
  PROVE  Coordinated(Coordinate(ordinates))
<1> DEFINE c == Coordinate(ordinates)
           n == Len(ordinates)
<1>1. /\ c.z \in BOOLEAN /\ c.m \in BOOLEAN /\ c.point = ordinates
      /\ (c.z <=> n > 2) /\ (c.m <=> n > 3)
  <2>1. HasFlags(c) /\ c.point = ordinates
    BY CoordinateFacts
  <2>2. c.z = (n > 2)
    BY Zenon DEF Coordinate
  <2>3. c.m = (n > 3)
    BY Zenon DEF Coordinate
  <2>4. c.z \in BOOLEAN /\ c.m \in BOOLEAN
    BY <2>1 DEF HasFlags
  <2> HIDE DEF c, n
  <2> QED BY <2>1, <2>2, <2>3, <2>4
<1> HIDE DEF c, n
<1>2. NDims(c) = n
  <2>1. n \in {2, 3, 4}
    BY DEF n
  <2> QED BY <1>1, <2>1 DEF NDims
<1>3. Coordinated(c)
  BY <1>1, <1>2 DEF Coordinated, HasFlags, n
<1> QED BY <1>3 DEF c

\* Two to four numbers are read.
LEMMA OrdinatesCount ==
  ASSUME Inv, Numbers > 1
  PROVE  LET ordinates == [k \in 1 .. Numbers |-> text[at + k - 1].v]
         IN  ordinates \in Seq(Int) /\ Len(ordinates) \in 2 .. 4
<1> DEFINE n == Numbers
           ordinates == [k \in 1 .. n |-> text[at + k - 1].v]
<1>1. n \in 2 .. 4
  <2>1. n \in 0 .. 4 /\ n > 1
    BY NumbersFacts
  <2> QED BY ONLY <2>1
<1>2. ordinates \in Seq(Int)
  BY OrdinatesFacts
<1>3. DOMAIN ordinates = 1 .. n
  OBVIOUS
<1> HIDE DEF ordinates, n
<1>4. Len(ordinates) = n
  BY <1>1, <1>2, <1>3, LenProperties
<1> QED BY <1>1, <1>2, <1>4 DEF ordinates, n

-----------------------------------------------------------------------------
(* The steps of the parser, once more *)

\* The caller asked for all checks.
AllAsked(s) == s.check = AllChecks

\* What is open, what waits and what is finished has even dimensions, and keeps the promises
\* of the checks if all were asked for.
AllSound ==
  LET all == AllAsked(source)
  IN  /\ StackSound(all, stack)
      /\ ValueSound(all, value) /\ ValueSound(all, result.geom)
      /\ value # Nothing /\ stack # <<>> => FitsIn(Root(value).type, Top.construct)

\* Nothing is left.
LEMMA GoneSound ==
  ASSUME stack' = <<>>, value' = Nothing, result'.geom = Nothing
  PROVE  AllSound'
<1> DEFINE all == AllAsked(source')
<1>1. StackSound(all, <<>>) /\ ValueSound(all, Nothing)
  BY EmptySound
<1> QED BY <1>1 DEF AllSound

\* After an error nothing is left.
LEMMA GiveUpSound ==
  ASSUME NEW error, NEW r, NEW symbols, GiveUp(error, r, symbols)
  PROVE  AllSound'
<1>1. stack' = <<>> /\ value' = Nothing /\ result' = [geom |-> Nothing, error |-> error]
  BY DEF GiveUp
<1>2. result'.geom = Nothing
  BY <1>1
<1> QED BY <1>1, <1>2, GoneSound

\* A geometry waits to be added.
LEMMA AsValueSound ==
  ASSUME AllSound, source' = source, result' = result, NEW v, value' = v,
         NEW symbols, stack' = symbols, StackSound(AllAsked(source), symbols),
         ValueSound(AllAsked(source), v),
         symbols # <<>> => FitsIn(Root(v).type, symbols[Len(symbols)].construct)
  PROVE  AllSound'
<1> DEFINE all == AllAsked(source)
<1>1. AllAsked(source') = all
  OBVIOUS
<1>2. ValueSound(all, result.geom)
  BY DEF AllSound
<1> HIDE DEF all
<1> QED BY <1>1, <1>2 DEF AllSound, Top, all

\* The open constructs change.
LEMMA AsStackSound ==
  ASSUME AllSound, source' = source, result' = result, value' = Nothing,
         NEW symbols, stack' = symbols, StackSound(AllAsked(source), symbols)
  PROVE  AllSound'
<1>1. ValueSound(AllAsked(source), result.geom)
  BY DEF AllSound
<1>2. ValueSound(AllAsked(source), Nothing)
  BY EmptySound
<1> QED BY <1>1, <1>2 DEF AllSound

\* The innermost construct and what is around it.
LEMMA InnermostSound ==
  ASSUME Inv, AllSound, stack # <<>>
  PROVE  LET all == AllAsked(source)
         IN  /\ StackSound(all, Below) /\ Below \in Seq(Items) /\ stack \in Seq(Items)
             /\ Top \in Items /\ ItemOK(Top) /\ ItemSound(all, Top) /\ Top.construct \in Constructs
             /\ Below # <<>> => FitsIn(Top.construct, Below[Len(Below)].construct)
<1> DEFINE all == AllAsked(source)
<1>1. stack \in Seq(Items) /\ StackSound(all, stack) /\ Stacked(stack)
  BY DEF Inv, Stacked, AllSound
<1>2. Top \in Items /\ ItemOK(Top)
  BY <1>1, FrontStacked DEF Top
<1>3. Top.construct \in Constructs
  BY <1>2 DEF Items
<1> HIDE DEF all
<1>4. /\ StackSound(all, Below) /\ ItemSound(all, Top) /\ Below \in Seq(Items)
      /\ Below # <<>> => FitsIn(Top.construct, Below[Len(Below)].construct)
  BY <1>1, FrontSound DEF Below, Top
<1> QED BY <1>1, <1>2, <1>3, <1>4 DEF all

\* The innermost construct changes.
LEMMA TopSound ==
  ASSUME Inv, AllSound, stack # <<>>, NEW item \in Items, item.construct = Top.construct,
         ItemSound(AllAsked(source), item)
  PROVE  StackSound(AllAsked(source), Append(Below, item))
<1> DEFINE all == AllAsked(source)
<1>1. /\ StackSound(all, Below) /\ Below \in Seq(Items)
      /\ Below # <<>> => FitsIn(Top.construct, Below[Len(Below)].construct)
  BY InnermostSound
<1> HIDE DEF all
<1>2. StackSound(all, Append(Below, item))
  BY <1>1, AppendSound DEF all
<1> QED BY <1>2 DEF all

\* A construct begins.
LEMMA OpenedSound ==
  ASSUME Inv, AllSound, NEW construct \in Constructs, NEW state \in States,
         stack # <<>> => FitsIn(construct, Top.construct)
  PROVE  StackSound(AllAsked(source), Append(stack, Opened(construct, state)))
<1> DEFINE all == AllAsked(source)
           item == Opened(construct, state)
<1>1. stack \in Seq(Items) /\ StackSound(all, stack)
  BY DEF Inv, Stacked, AllSound
<1>2. item \in Items /\ item.construct = construct /\ item.acc = Nothing
  BY DEF Opened, Items
<1>3. ItemSound(all, item)
  BY <1>2 DEF ItemSound
<1> HIDE DEF item, all
<1>4. StackSound(all, Append(stack, item))
  BY <1>1, <1>2, <1>3, AppendSound DEF Top
<1> QED BY <1>4 DEF all, item

\* A name begins a construct that fits where it stands.
LEMMA NameSound ==
  ASSUME Inv, AllSound, Name PROVE AllSound'
<1> DEFINE symbols == Append(stack, Opened(Token.t, "named"))
<1>1. value = Nothing /\ Token.t \in Expected /\ Token.t \in Keywords /\ Shift(1, symbols)
  BY SeesFacts DEF Name
<1>2. Token.t \in Constructs /\ "named" \in States
  BY <1>1 DEF Constructs, States
<1>3. stack # <<>> => FitsIn(Token.t, Top.construct)
  <2> SUFFICES ASSUME stack # <<>> PROVE FitsIn(Token.t, Top.construct)
    OBVIOUS
  <2>1. Token.t \in Grammar[Top.construct].names
    BY <1>1, ExpectedFacts
  <2>2. Top.construct \in Constructs
    BY InnermostSound
  <2> QED BY <2>1, <2>2, GrammarFits
<1>4. StackSound(AllAsked(source), symbols)
  BY <1>2, <1>3, OpenedSound
<1>5. source' = source /\ result' = result /\ value' = Nothing /\ stack' = symbols
  BY <1>1 DEF Shift
<1> HIDE DEF symbols
<1> QED BY <1>4, <1>5, AsStackSound

\* So does a bracket.
LEMMA OpenBareSound ==
  ASSUME Inv, AllSound, OpenBare PROVE AllSound'
<1> DEFINE bare == Grammar[Top.construct].bare
           symbols == Append(stack, Opened(bare, "element"))
<1>1. value = Nothing /\ Token.t \in Expected /\ Token.t = "(" /\ Top.state = "element" /\ Shift(1, symbols)
  BY SeesFacts DEF OpenBare
<1>2. stack # <<>> /\ bare # "none" /\ "element" \in States
  BY <1>1, ExpectedFacts DEF States
<1>3. Top.construct \in Constructs
  BY <1>2, InnermostSound
<1>4. bare \in Constructs /\ FitsIn(bare, Top.construct)
  BY <1>2, <1>3, GrammarFacts, GrammarFits
<1>5. source' = source /\ result' = result /\ value' = Nothing /\ stack' = symbols
  BY <1>1 DEF Shift
<1>6. StackSound(AllAsked(source), symbols)
  <2> HIDE DEF bare
  <2> QED BY <1>2, <1>4, OpenedSound
<1> HIDE DEF symbols, bare
<1> QED BY <1>5, <1>6, AsStackSound

\* The state of the innermost construct changes, and its elements stay.
LEMMA MovedSound ==
  ASSUME Inv, AllSound, value = Nothing, stack # <<>>, NEW item \in Items, item.construct = Top.construct,
         item.acc = Top.acc, Shift(1, Append(Below, item))
  PROVE  AllSound'
<1>1. ItemSound(AllAsked(source), Top)
  BY InnermostSound
<1>2. ItemSound(AllAsked(source), item)
  BY <1>1 DEF ItemSound
<1>3. StackSound(AllAsked(source), Append(Below, item))
  BY <1>2, TopSound
<1>4. source' = source /\ result' = result /\ value' = Nothing /\ stack' = Append(Below, item)
  BY DEF Shift
<1> QED BY <1>3, <1>4, AsStackSound

\* The letters of the dimensions.
LEMMA NameDimensionsSound ==
  ASSUME Inv, AllSound, NameDimensions PROVE AllSound'
<1> DEFINE item == [Top EXCEPT !.dim = at, !.state = "letters"]
<1>1. value = Nothing /\ Token.t \in Expected /\ Token.t = "DIMENSIONALITY" /\ Shift(1, Append(Below, item))
  BY SeesFacts DEF NameDimensions
<1>2. stack # <<>>
  BY <1>1, ExpectedFacts
<1>3. Top \in Items /\ at \in Nat
  BY <1>2, InnermostSound DEF Inv, TypeOK
<1>4. item \in Items /\ item.acc = Top.acc /\ item.construct = Top.construct
  BY <1>3 DEF Items, States
<1> HIDE DEF item
<1> QED BY <1>1, <1>2, <1>4, MovedSound

\* An element is waited for.
LEMMA WaitsSound ==
  ASSUME Inv, AllSound, value = Nothing, stack # <<>>,
         Shift(1, Append(Below, [Top EXCEPT !.state = "element"]))
  PROVE  AllSound'
<1> DEFINE item == [Top EXCEPT !.state = "element"]
<1>1. Top \in Items
  BY InnermostSound
<1>2. item \in Items /\ item.acc = Top.acc /\ item.construct = Top.construct
  BY <1>1 DEF Items, States
<1>3. Shift(1, Append(Below, item))
  OBVIOUS
<1> HIDE DEF item
<1> QED BY <1>2, <1>3, MovedSound

\* A bracket after a name, or a comma.
LEMMA OpenSound ==
  ASSUME Inv, AllSound, Open \/ NextElement PROVE AllSound'
<1>1. CASE Open
  <2>1. /\ value = Nothing /\ Token.t \in Expected /\ Token.t = "("
        /\ Shift(1, Append(Below, [Top EXCEPT !.state = "element"]))
    BY <1>1, SeesFacts DEF Open
  <2>2. stack # <<>>
    BY <2>1, ExpectedFacts
  <2> QED BY <2>1, <2>2, WaitsSound
<1>2. CASE NextElement
  <2>1. Sees({","}) /\ Shift(1, Append(Below, [Top EXCEPT !.state = "element"]))
    BY <1>2 DEF NextElement
  <2>2. value = Nothing /\ Token.t \in Expected /\ Token.t \in {","}
    BY <2>1, SeesFacts
  <2>3. stack # <<>>
    BY <2>2, ExpectedFacts
  <2> QED BY <2>1, <2>2, <2>3, WaitsSound
<1> QED BY <1>1, <1>2

\* What closes a construct leaves what is promised.
LEMMA ReductionSound ==
  ASSUME heap.made \in Nat, NEW c \in Constructs, NEW flags, HasFlags(flags),
         NEW acc, acc = Nothing \/ (Assembled(c, acc) /\ (AllAsked(source) => Promised(c, acc))),
         c = "ring" => acc # Nothing, Reduction(c, acc, flags).error = ""
  PROVE  LET v == Reduction(c, acc, flags).value
         IN  ValueSound(AllAsked(source), v) /\ (c \notin Mixed => Root(v).type \notin Mixed)
<1> DEFINE v == Reduction(c, acc, flags).value
<1>1. Even(v) /\ Plain(v) /\ (c \notin Mixed => Root(v).type \notin Mixed)
  <2>1. Left(c, v)
    BY ReductionLeft
  <2> HIDE DEF v
  <2> QED BY <2>1 DEF Left
<1>2. ASSUME AllAsked(source) PROVE Fine(v)
  <2>1. source.check = AllChecks
    BY <1>2 DEF AllAsked
  <2>2. acc = Nothing \/ (Tree(acc) /\ Promised(c, acc))
    BY <1>2 DEF Assembled
  <2> QED BY <2>1, <2>2, ReductionFine
<1> HIDE DEF v
<1>3. ValueSound(AllAsked(source), v)
  BY <1>1, <1>2 DEF ValueSound
<1> QED BY <1>1, <1>3 DEF v

\* So does what adds an element.
LEMMA AdditionSound ==
  ASSUME heap.made \in Nat, NEW c \in Constructs,
         NEW acc, acc = Nothing \/ (Assembled(c, acc) /\ (AllAsked(source) => Promised(c, acc))),
         NEW v, Tree(v), ValueSound(AllAsked(source), v), FitsIn(Root(v).type, c),
         c \in Single => acc = Nothing, Addition(c, acc, v).error = ""
  PROVE  LET u == Addition(c, acc, v).value
         IN  Assembled(c, u) /\ (AllAsked(source) => Promised(c, u))
<1> DEFINE u == Addition(c, acc, v).value
<1>1. v # Nothing
  BY TreeSet
<1>2. Even(v) /\ Plain(v) /\ (AllAsked(source) => Fine(v))
  BY <1>1 DEF ValueSound
<1>3. c \notin Ptarrays /\ (c \notin Mixed => Root(v).type \notin Mixed)
  BY DEF FitsIn
<1>4. Assembled(c, u)
  BY <1>2, <1>3, AdditionAssembled
<1>5. ASSUME AllAsked(source) PROVE Promised(c, u)
  <2>1. source.check = AllChecks
    BY <1>5 DEF AllAsked
  <2>2. acc = Nothing \/ (Tree(acc) /\ Shape(c, acc) /\ Promised(c, acc))
    BY <1>5 DEF Assembled
  <2> QED BY <1>2, <1>3, <1>5, <2>1, <2>2, AdditionFine
<1> HIDE DEF u
<1> QED BY <1>4, <1>5 DEF u

\* A construct becomes a geometry.
LEMMA ClosedSound ==
  ASSUME Inv, AllSound, value = Nothing, stack # <<>>,
         Top.construct = "ring" => Top.acc # Nothing,
         Reduce(Reduction(Top.construct, Top.acc, Dimensionality(Top.dim)), Below,
                LAMBDA v : value' = v /\ stack' = Below)
  PROVE  AllSound'
<1> DEFINE all == AllAsked(source)
           c == Top.construct
           acc == Top.acc
           r == Reduction(c, acc, Dimensionality(Top.dim))
<1>1. /\ StackSound(all, Below) /\ ItemSound(all, Top) /\ c \in Constructs
      /\ Below # <<>> => FitsIn(c, Below[Len(Below)].construct)
  BY InnermostSound
<1>2. heap.made \in Nat /\ HasFlags(Dimensionality(Top.dim))
  BY InvHeap, DimensionalityFacts
<1>3. acc = Nothing \/ (Assembled(c, acc) /\ (all => Promised(c, acc)))
  BY <1>1 DEF ItemSound
<1>4. IF r.error # "" THEN GiveUp(r.error, r, Below)
      ELSE /\ Freed(r.new, <<r.freed>>)
           /\ value' = r.value /\ stack' = Below
           /\ UNCHANGED <<source, text, result, srid, phase>>
  BY DEF Reduce
<1>5. r.error = "" => ValueSound(all, r.value) /\ (c \notin Mixed => Root(r.value).type \notin Mixed)
  BY <1>1, <1>2, <1>3, ReductionSound
<1> HIDE DEF r
<1>6. CASE r.error # ""
  BY <1>4, <1>6, GiveUpSound
<1>7. CASE r.error = ""
  <2> DEFINE v == r.value
             symbols == Below
  <2>1. source' = source /\ result' = result /\ value' = v /\ stack' = symbols
    BY <1>4, <1>7
  <2>2. ValueSound(all, v) /\ StackSound(all, symbols)
    BY <1>1, <1>5, <1>7
  <2>3. symbols # <<>> => FitsIn(Root(v).type, symbols[Len(symbols)].construct)
    BY <1>1, <1>5, <1>7 DEF FitsIn
  <2> HIDE DEF v, symbols
  <2> QED BY <2>1, <2>2, <2>3, AsValueSound
<1> QED BY <1>6, <1>7

\* The closing bracket.
LEMMA CloseSound ==
  ASSUME Inv, AllSound, Close PROVE AllSound'
<1>1. /\ value = Nothing /\ Token.t \in Expected /\ Token.t = ")"
      /\ Reduce(Reduction(Top.construct, Top.acc, Dimensionality(Top.dim)), Below,
                LAMBDA v : value' = v /\ stack' = Below)
  BY SeesFacts DEF Close
<1>2. stack # <<>> /\ Top.state = "after"
  BY <1>1, ExpectedFacts
<1>3. Top.acc # Nothing
  BY <1>2, InnermostSound DEF ItemOK
<1> QED BY <1>1, <1>2, <1>3, ClosedSound

\* EMPTY after a name.
LEMMA EmptyReadSound ==
  ASSUME Inv, AllSound, Empty PROVE AllSound'
<1>1. /\ value = Nothing /\ Token.t \in Expected /\ Token.t = "EMPTY" /\ Top.state # "element"
      /\ Reduce(Reduction(Top.construct, Nothing, Dimensionality(Top.dim)), Below,
                LAMBDA v : value' = v /\ stack' = Below)
  BY SeesFacts DEF Empty
<1>2. stack # <<>> /\ Top.state \in {"named", "letters", "element"}
  BY <1>1, ExpectedFacts
<1>3. Top.acc = Nothing /\ Top.construct # "ring"
  <2>1. Top.acc = Nothing /\ Top.construct \in Keywords
    BY <1>1, <1>2, InnermostSound DEF ItemOK
  <2> QED BY <2>1 DEF Keywords
<1>4. Reduce(Reduction(Top.construct, Top.acc, Dimensionality(Top.dim)), Below,
             LAMBDA v : value' = v /\ stack' = Below)
  BY <1>1, <1>3
<1> QED BY <1>1, <1>2, <1>3, <1>4, ClosedSound

\* A value stands where an element is waited for.
LEMMA WaitingSound ==
  ASSUME Inv, AllSound, stack # <<>>, NEW r,
         r.error = "" => ValueSound(AllAsked(source), r.value) /\ FitsIn(Root(r.value).type, Top.construct),
         IF r.error # "" THEN GiveUp(r.error, r, stack)
         ELSE /\ Freed(r.new, <<r.freed>>)
              /\ value' = r.value /\ stack' = stack
              /\ UNCHANGED <<source, text, result, srid, phase>>
  PROVE  AllSound'
<1>1. CASE r.error # ""
  BY <1>1, GiveUpSound
<1>2. CASE r.error = ""
  <2> DEFINE v == r.value
             symbols == stack
  <2>1. source' = source /\ result' = result /\ value' = v /\ stack' = symbols
    BY <1>2
  <2>2. ValueSound(AllAsked(source), v) /\ StackSound(AllAsked(source), symbols)
    BY <1>2 DEF AllSound
  <2>3. symbols # <<>> => FitsIn(Root(v).type, symbols[Len(symbols)].construct)
    BY <1>2 DEF Top
  <2> HIDE DEF v, symbols
  <2> QED BY <2>1, <2>2, <2>3, AsValueSound
<1> QED BY <1>1, <1>2

\* EMPTY for an element.
LEMMA EmptyBareSound ==
  ASSUME Inv, AllSound, EmptyBare PROVE AllSound'
<1> DEFINE bare == Grammar[Top.construct].bare
           r == Reduction(bare, Nothing, FlatFlags)
<1>1. /\ value = Nothing /\ Token.t \in Expected /\ Token.t = "EMPTY" /\ Top.state = "element"
      /\ Reduce(r, stack, LAMBDA v : value' = v /\ UNCHANGED stack)
  BY SeesFacts DEF EmptyBare
<1>2. stack # <<>> /\ bare # "none" /\ bare \notin NeverEmpty
  BY <1>1, ExpectedFacts
<1>3. Top.construct \in Constructs
  BY <1>2, InnermostSound
<1>4. bare \in Constructs /\ bare # "ring" /\ FitsIn(bare, Top.construct)
  BY <1>2, <1>3, GrammarFacts, GrammarFits DEF NeverEmpty
<1>5. IF r.error # "" THEN GiveUp(r.error, r, stack)
      ELSE /\ Freed(r.new, <<r.freed>>)
           /\ value' = r.value /\ stack' = stack
           /\ UNCHANGED <<source, text, result, srid, phase>>
  BY <1>1 DEF Reduce
<1> HIDE DEF bare
<1>6. r.error = "" => ValueSound(AllAsked(source), r.value) /\ (bare \notin Mixed => Root(r.value).type \notin Mixed)
  <2>1. heap.made \in Nat /\ HasFlags(FlatFlags)
    BY InvHeap, DimensionalityFacts
  <2> QED BY <1>4, <2>1, ReductionSound
<1> HIDE DEF r
<1>7. r.error = "" => ValueSound(AllAsked(source), r.value) /\ FitsIn(Root(r.value).type, Top.construct)
  BY <1>4, <1>6 DEF FitsIn
<1> QED BY <1>2, <1>5, <1>7, WaitingSound

\* The elements so far are replaced by what a function makes of them.
LEMMA ReplacedSound ==
  ASSUME Inv, AllSound, stack # <<>>, NEW r,
         r.error = "" => /\ Assembled(Top.construct, r.value)
                         /\ AllAsked(source) => Promised(Top.construct, r.value),
         IF r.error # "" THEN GiveUp(r.error, r, Below)
         ELSE /\ Freed(r.new, <<r.freed>>)
              /\ stack' = Append(Below, [Top EXCEPT !.acc = r.value, !.state = "after"])
              /\ value' = Nothing
              /\ UNCHANGED <<source, text, result, srid, phase>>
  PROVE  AllSound'
<1>1. CASE r.error # ""
  BY <1>1, GiveUpSound
<1>2. CASE r.error = ""
  <2> DEFINE v == r.value
             item == [Top EXCEPT !.acc = v, !.state = "after"]
             symbols == Append(Below, item)
  <2>1. source' = source /\ result' = result /\ value' = Nothing /\ stack' = symbols
    BY <1>2
  <2>2. Assembled(Top.construct, v) /\ (AllAsked(source) => Promised(Top.construct, v))
    BY <1>2
  <2> HIDE DEF v
  <2>3. Top \in Items /\ v \in Trees
    BY <2>2, InnermostSound, TreeSet DEF Assembled
  <2>4. item \in Items /\ item.acc = v /\ item.construct = Top.construct
    BY <2>3 DEF Items, States
  <2> HIDE DEF item
  <2>5. ItemSound(AllAsked(source), item)
    BY <2>2, <2>4 DEF ItemSound
  <2>6. StackSound(AllAsked(source), symbols)
    BY <2>4, <2>5, TopSound
  <2> HIDE DEF symbols
  <2> QED BY <2>1, <2>6, AsStackSound
<1> QED BY <1>1, <1>2

\* An element is added.
LEMMA AddSound ==
  ASSUME Inv, AllSound, Add PROVE AllSound'
<1> DEFINE c == Top.construct
           acc == Top.acc
           r == Addition(c, acc, value)
<1>1. value # Nothing /\ stack # <<>> /\ phase = "parsing"
  BY DEF Add
<1>2. Top.state = "element"
  BY <1>1 DEF Inv, Nested
<1>3. ItemSound(AllAsked(source), Top) /\ ItemOK(Top) /\ c \in Constructs
  BY <1>1, InnermostSound
<1>4. c \in Single => acc = Nothing
  BY <1>2, <1>3 DEF ItemOK
<1>5. acc = Nothing \/ (Assembled(c, acc) /\ (AllAsked(source) => Promised(c, acc)))
  BY <1>3 DEF ItemSound
<1>6. Tree(value) /\ ValueSound(AllAsked(source), value) /\ FitsIn(Root(value).type, c) /\ heap.made \in Nat
  BY <1>1, InvHeap DEF Inv, TypeOK, Elements, AllSound
<1>7. r.error = "" => Assembled(c, r.value) /\ (AllAsked(source) => Promised(c, r.value))
  BY <1>3, <1>4, <1>5, <1>6, AdditionSound
<1>8. IF r.error # "" THEN GiveUp(r.error, r, Below)
      ELSE /\ Freed(r.new, <<r.freed>>)
           /\ stack' = Append(Below, [Top EXCEPT !.acc = r.value, !.state = "after"])
           /\ value' = Nothing
           /\ UNCHANGED <<source, text, result, srid, phase>>
  BY DEF Add, Reduce
<1> HIDE DEF r
<1> QED BY <1>1, <1>7, <1>8, ReplacedSound

\* A coordinate.
LEMMA ReadCoordinateSound ==
  ASSUME Inv, AllSound, ReadCoordinate PROVE AllSound'
<1> DEFINE ordinates == [k \in 1 .. Numbers |-> text[at + k - 1].v]
           c == Coordinate(ordinates)
           grown == IF Top.acc = Nothing THEN PtarrayNew(c) ELSE PtarrayAddCoord(Top.acc, c)
           point == Then(PtarrayNew(c), LAMBDA array : PointNew(array, FlatFlags))
           construct == Top.construct
           all == AllAsked(source)
<1>1. /\ value = Nothing /\ Token.t \in Expected /\ Token.t = "DOUBLE" /\ Numbers > 1
  BY SeesFacts DEF ReadCoordinate
<1>2. stack # <<>> /\ Grammar[construct].coordinates
  BY <1>1, ExpectedFacts
<1>3. ordinates \in Seq(Int) /\ Len(ordinates) \in 2 .. 4
  BY <1>1, OrdinatesCount
<1>4. Coordinated(c)
  <2> HIDE DEF ordinates
  <2> QED BY <1>3, CoordinateCoordinated
<1>5. heap.made \in Nat /\ construct \in Constructs /\ ItemSound(all, Top)
  BY <1>2, InvHeap, InnermostSound
<1>6. construct = "MULTIPOINT" \/ construct \in Ptarrays
  BY <1>2, <1>5, GrammarFits
<1>7. IF construct = "MULTIPOINT" THEN Reduce(point, stack, LAMBDA v : value' = v /\ UNCHANGED stack)
      ELSE Reduce(grown, Below, LAMBDA v : /\ stack' = Append(Below, [Top EXCEPT !.acc = v, !.state = "after"])
                                           /\ UNCHANGED value)
  BY DEF ReadCoordinate
<1> HIDE DEF c
<1>8. CASE construct = "MULTIPOINT"
  <2>1. Reduce(point, stack, LAMBDA v : value' = v /\ UNCHANGED stack)
    BY <1>7, <1>8
  <2>2. IF point.error # "" THEN GiveUp(point.error, point, stack)
        ELSE /\ Freed(point.new, <<point.freed>>)
             /\ value' = point.value /\ stack' = stack
             /\ UNCHANGED <<source, text, result, srid, phase>>
    BY <2>1 DEF Reduce
  <2>3. point.error = "" => Fine(point.value) /\ Even(point.value) /\ Plain(point.value)
    BY <1>4, <1>5, CoordinatePointLeft
  <2> HIDE DEF point
  <2>4. point.error = "" => ValueSound(all, point.value)
    BY <2>3 DEF ValueSound
  <2>5. \A inner : FitsIn(inner, construct)
    BY <1>8 DEF FitsIn, Ptarrays, Mixed
  <2> QED BY <1>2, <2>2, <2>4, <2>5, WaitingSound
<1>9. CASE construct # "MULTIPOINT"
  <2>1. Reduce(grown, Below, LAMBDA v : /\ stack' = Append(Below, [Top EXCEPT !.acc = v, !.state = "after"])
                                        /\ UNCHANGED value)
    BY <1>7, <1>9
  <2>2. IF grown.error # "" THEN GiveUp(grown.error, grown, Below)
        ELSE /\ Freed(grown.new, <<grown.freed>>)
             /\ stack' = Append(Below, [Top EXCEPT !.acc = grown.value, !.state = "after"])
             /\ value' = Nothing
             /\ UNCHANGED <<source, text, result, srid, phase>>
    BY <1>1, <2>1 DEF Reduce
  <2>3. construct \in Ptarrays
    BY <1>6, <1>9
  <2>4. grown.error = "" => Assembled(construct, grown.value) /\ (all => Promised(construct, grown.value))
    <3>1. CASE Top.acc = Nothing
      <4>1. grown = PtarrayNew(c)
        BY <3>1
      <4>2. LET v == PtarrayNew(c).value IN Assembled(construct, v) /\ Promised(construct, v)
        BY <1>4, <1>5, <2>3, FirstCoordinate
      <4> QED BY <4>1, <4>2
    <3>2. CASE Top.acc # Nothing
      <4>1. grown = PtarrayAddCoord(Top.acc, c)
        BY <3>2
      <4>2. Assembled(construct, Top.acc) /\ (all => Promised(construct, Top.acc))
        BY <1>5, <3>2 DEF ItemSound
      <4> HIDE DEF grown, all, construct
      <4> QED BY <1>4, <2>3, <4>1, <4>2, NextCoordinate
    <3> QED BY <3>1, <3>2
  <2> HIDE DEF grown
  <2> QED BY <1>2, <2>2, <2>4, ReplacedSound
<1> QED BY <1>8, <1>9

\* The steps that touch no construct.
LEMMA OtherStepsSound ==
  ASSUME Inv, AllSound,
         ReadSrid \/ Accept \/ Return \/ GeometryNew \/ SyntaxError \/ (\E s \in Sources : ParseWkt(s))
           \/ UNCHANGED vars
  PROVE  AllSound'
<1>1. CASE ReadSrid \/ Accept \/ UNCHANGED vars
  <2>1. source' = source /\ stack' = stack /\ value' = value /\ result' = result
    BY <1>1 DEF ReadSrid, Accept, vars
  <2> QED BY <2>1 DEF AllSound, Top
<1>2. CASE Return
  <2>1. /\ phase = "returned" /\ result' = [result EXCEPT !.geom = Nothing]
        /\ stack' = stack /\ value' = value
    BY <1>2 DEF Return
  <2>2. stack = <<>> /\ value = Nothing /\ result = [geom |-> result.geom, error |-> result.error]
    BY <2>1 DEF Inv, Nested, TypeOK
  <2>3. result' = [geom |-> Nothing, error |-> result.error]
    BY <2>1, <2>2
  <2>4. result'.geom = Nothing
    BY <2>3
  <2> QED BY <2>1, <2>2, <2>4, GoneSound
<1>3. CASE GeometryNew
  <2>1. /\ value # Nothing /\ stack = <<>> /\ result' = [result EXCEPT !.geom = value]
        /\ value' = Nothing /\ stack' = <<>> /\ source' = source
    BY <1>3 DEF GeometryNew
  <2>2. result = [geom |-> result.geom, error |-> result.error]
    BY DEF Inv, TypeOK
  <2>3. result' = [geom |-> value, error |-> result.error]
    BY <2>1, <2>2
  <2>4. result'.geom = value
    BY <2>3
  <2> DEFINE all == AllAsked(source)
  <2>5. StackSound(all, <<>>) /\ ValueSound(all, Nothing) /\ ValueSound(all, value)
    BY EmptySound DEF AllSound
  <2>6. AllAsked(source') = all
    BY <2>1
  <2> HIDE DEF all
  <2> QED BY <2>1, <2>4, <2>5, <2>6 DEF AllSound
<1>4. CASE SyntaxError
  <2>1. GiveUp(IF result.error = "" THEN "OTHER" ELSE result.error, Returned(Nothing, {}), stack)
    BY <1>4 DEF SyntaxError
  <2> QED BY <2>1, GiveUpSound
<1>5. CASE \E s \in Sources : ParseWkt(s)
  <2>1. stack' = <<>> /\ value' = Nothing /\ result' = [geom |-> Nothing, error |-> ""]
    BY <1>5 DEF ParseWkt
  <2>2. result'.geom = Nothing
    BY <2>1
  <2> QED BY <2>1, <2>2, GoneSound
<1> QED BY <1>1, <1>2, <1>3, <1>4, <1>5

\* Before the first call.
LEMMA InitSound ==
  ASSUME Init PROVE AllSound
<1>1. stack = <<>> /\ value = Nothing /\ result = [geom |-> Nothing, error |-> ""]
  BY DEF Init
<1>2. result.geom = Nothing
  BY <1>1
<1>3. StackSound(AllAsked(source), <<>>) /\ ValueSound(AllAsked(source), Nothing)
  BY EmptySound
<1> QED BY <1>1, <1>2, <1>3 DEF AllSound

\* What is open, what waits and what is finished keeps the promises in every state.
THEOREM WktSound == Spec => []AllSound
<1>1. Inv /\ AllSound /\ [Next]_vars => AllSound'
  <2> SUFFICES ASSUME Inv, AllSound, [Next]_vars PROVE AllSound'
    OBVIOUS
  <2>1. CASE ReadSrid \/ Accept \/ Return \/ GeometryNew \/ SyntaxError \/ (\E s \in Sources : ParseWkt(s))
               \/ UNCHANGED vars
    BY <2>1, OtherStepsSound
  <2>2. CASE Name \/ NameDimensions \/ Open \/ OpenBare \/ NextElement
    BY <2>2, NameSound, NameDimensionsSound, OpenSound, OpenBareSound
  <2>3. CASE Empty \/ EmptyBare \/ ReadCoordinate \/ Close \/ Add
    BY <2>3, EmptyReadSound, EmptyBareSound, ReadCoordinateSound, CloseSound, AddSound
  <2> QED BY <2>1, <2>2, <2>3 DEF Next, Parse
<1> QED BY <1>1, WktInvariant, InitSound, PTL DEF Spec

\* What is read with all checks keeps their promises in every part, however the text is hurt.
THEOREM ChecksKeptCorrect == Spec => []ChecksKept
<1>1. AllSound => ChecksKept
  <2> SUFFICES ASSUME AllSound, result.geom # Nothing, source.check = AllChecks
               PROVE  Sound(result.geom)
    BY DEF ChecksKept
  <2>1. Fine(result.geom)
    BY DEF AllSound, AllAsked, ValueSound
  <2>2. \A p \in DOMAIN result.geom : Promise(Subtree(result.geom, p))
    BY <2>1 DEF Fine, Good
  <2> QED BY <2>2 DEF Sound
<1> QED BY <1>1, WktSound, PTL

\* Whatever was asked for, the points of a geometry have the ordinates its flags tell of, and
\* so have those of the members of a list.
THEOREM DimensionsKeptCorrect == Spec => []DimensionsKept
<1>1. AllSound => DimensionsKept
  <2> SUFFICES ASSUME AllSound, result.geom # Nothing
               PROVE  LET geom == result.geom
                          members == IF Root(geom).type \in Mixed
                                     THEN {Part(geom, i) : i \in 1 .. Root(geom).parts} ELSE {geom}
                      IN  \A part \in members : Root(part).type \notin Mixed => Uniform(part)
    BY DEF DimensionsKept
  <2> DEFINE geom == result.geom
  <2>1. Even(geom)
    BY DEF AllSound, ValueSound
  <2> HIDE DEF geom
  <2> SUFFICES LET members == IF Root(geom).type \in Mixed
                              THEN {Part(geom, i) : i \in 1 .. Root(geom).parts} ELSE {geom}
               IN  \A part \in members : Root(part).type \notin Mixed => Uniform(part)
    BY DEF geom
  <2>2. CASE Root(geom).type \in Mixed
    BY <2>1, <2>2 DEF Even, MembersEven
  <2>3. CASE Root(geom).type \notin Mixed
    BY <2>1, <2>3 DEF Even
  <2> QED BY <2>2, <2>3
<1> QED BY <1>1, WktSound, PTL

=============================================================================
