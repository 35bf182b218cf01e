----------------------------- MODULE LargeGGMProofs ----------------------------
(***************************************************************************)
(* Proofs about the large tree and its traversals, for every number of     *)
(* executions, leaves and revealed seeds (TreeAssumption), all builds of   *)
(* LargeGGMPair and all batch widths of LargeGGMBfs.  The two              *)
(* specifications share the layout of the tree and no variable.            *)
(***************************************************************************)
EXTENDS LargeGGMPair, LargeGGMBfs, WellFoundedInduction, FiniteSetTheorems, TLAPS

-----------------------------------------------------------------------------
(***************************************************************************)
(* Arithmetic and sequences.                                               *)
(***************************************************************************)

\* The order of the natural numbers.
LEMMA NatWellFounded == IsWellFoundedOn({p \in Nat \X Nat : p[1] < p[2]}, Nat)
BY NatLessThanWellFounded DEF OpToRel

\* A set of natural numbers with an element has a smallest one.
LEMMA Smallest ==
  ASSUME NEW S, S \subseteq Nat, S # {}
  PROVE  \E x \in S : \A z \in S : x <= z
<1> DEFINE R == {p \in Nat \X Nat : p[1] < p[2]}
<1>1. IsWellFoundedOn(R, Nat)
  BY NatWellFounded
<1> HIDE DEF R
<1>2. PICK x \in S : \A z \in S : <<z, x>> \notin R
  BY <1>1, WFMin
<1>3. ASSUME NEW z \in S PROVE x <= z
  <2>1. <<z, x>> \notin R
    BY <1>2
  <2> QED
    BY <2>1 DEF R
<1> QED
  BY <1>3

\* Quotient and remainder.
LEMMA DivMod ==
  ASSUME NEW a \in Nat, NEW d \in Nat \ {0}
  PROVE  a \div d \in Nat /\ a % d \in 0 .. d - 1 /\ a = d * (a \div d) + (a % d)
OBVIOUS

\* They are the only ones.
LEMMA DivModUnique ==
  ASSUME NEW d \in Nat \ {0}, NEW a, NEW q \in Nat, NEW r \in 0 .. d - 1, a = q * d + r
  PROVE  a \div d = q /\ a % d = r
OBVIOUS

\* Quotients of the same divisor grow with what is divided.
LEMMA DivMonotone ==
  ASSUME NEW a \in Nat, NEW b \in Nat, NEW d \in Nat \ {0}, a <= b
  PROVE  a \div d <= b \div d
OBVIOUS

\* The whole of a product and its halves.
LEMMA Products ==
  ASSUME NEW t \in Nat, NEW u \in {0, 1}, NEW p \in Nat \ {0}, NEW r \in 0 .. p - 1
  PROVE  /\ (2 * t + u) * p = t * (2 * p) + u * p
         /\ u * p + r \in 0 .. 2 * p - 1 /\ 2 * p \in Nat \ {0}
<1>1. CASE u = 0
  BY <1>1
<1>2. CASE u = 1
  BY <1>2
<1> QED
  BY <1>1, <1>2

\* Dividing by twice as much is halving what was divided.
LEMMA Halve ==
  ASSUME NEW a \in Nat, NEW p \in Nat \ {0}
  PROVE  (a \div p) \div 2 = a \div (2 * p)
<1> DEFINE q == a \div p
           r == a % p
           t == q \div 2
           u == q % 2
<1>1. q \in Nat /\ r \in 0 .. p - 1 /\ a = p * q + r
  BY DivMod
<1> HIDE DEF q, r
<1>2. t \in Nat /\ u \in {0, 1} /\ q = 2 * t + u
  BY <1>1
<1> HIDE DEF t, u
<1>3. /\ q * p = t * (2 * p) + u * p
      /\ u * p + r \in 0 .. 2 * p - 1 /\ 2 * p \in Nat \ {0}
  BY <1>1, <1>2, Products
<1>4. p * q = q * p
  BY <1>1
<1>5. a = t * (2 * p) + (u * p + r)
  <2> DEFINE x == q * p
             y == t * (2 * p)
             z == u * p
  <2>1. x \in Nat /\ y \in Nat /\ z \in Nat
    BY <1>1, <1>2
  <2>2. a = x + r /\ x = y + z
    BY <1>1, <1>3, <1>4
  <2> HIDE DEF x, y, z
  <2>3. a = y + (z + r)
    BY <1>1, <2>1, <2>2
  <2> QED
    BY <2>3 DEF y, z
<1>6. a \div (2 * p) = t
  BY <1>2, <1>3, <1>5, DivModUnique
<1> QED
  BY <1>6 DEF q, t

\* The last element of a sequence and those before it.
LEMMA FrontLast ==
  ASSUME NEW S, NEW s \in Seq(S), s # <<>>
  PROVE  /\ Len(s) \in Nat \ {0}
         /\ Front(s) \in Seq(S) /\ Len(Front(s)) = Len(s) - 1
         /\ \A i \in 1 .. Len(s) - 1 : Front(s)[i] = s[i]
         /\ Last(s) \in S /\ Last(s) = s[Len(s)]
<1>1. Len(s) \in Nat \ {0} /\ DOMAIN s = 1 .. Len(s) /\ \A i \in 1 .. Len(s) : s[i] \in S
  OBVIOUS
<1>2. \A i \in 1 .. Len(s) - 1 : s[i] \in S
  BY <1>1
<1>3. /\ SubSeq(s, 1, Len(s) - 1) \in Seq(S)
      /\ Len(SubSeq(s, 1, Len(s) - 1)) = Len(s) - 1
      /\ \A i \in 1 .. Len(s) - 1 : SubSeq(s, 1, Len(s) - 1)[i] = s[i]
  BY <1>1, <1>2
<1> QED
  BY <1>1, <1>3 DEF Front, Last

-----------------------------------------------------------------------------
(***************************************************************************)
(* Powers of two.                                                          *)
(***************************************************************************)

\* The powers of two up to n, as a function with the equation of Pow2.
IsPowers(f, n) == f = [k \in 0..n |-> IF k = 0 THEN 1 ELSE 2 * f[k - 1]]

\* There are such functions: the recursion of Pow2 is well founded.
LEMMA PowersExist == \E f : IsPowers(f, H)
<1> DEFINE Bad == {n \in Nat : ~ \E f : IsPowers(f, n)}
<1>1. ASSUME Bad # {} PROVE FALSE
  <2>1. Bad \subseteq Nat
    OBVIOUS
  <2> HIDE DEF Bad
  <2>2. PICK n \in Bad : \A m \in Bad : n <= m
    BY <1>1, <2>1, Smallest
  <2>3. n \in Nat /\ ~ \E f : IsPowers(f, n)
    BY <2>2 DEF Bad
  <2>4. CASE n = 0
    <3> DEFINE g == [k \in 0..0 |-> 1]
    <3>1. IsPowers(g, 0)
      BY DEF IsPowers
    <3> QED
      BY <2>3, <2>4, <3>1
  <2>5. CASE n # 0
    <3>1. n - 1 \in Nat /\ n - 1 \notin Bad
      BY <2>2, <2>3, <2>5
    <3>2. PICK f : IsPowers(f, n - 1)
      BY <3>1 DEF Bad
    <3> DEFINE g == [k \in 0..n |-> IF k = n THEN 2 * f[n - 1] ELSE f[k]]
    <3>3. ASSUME NEW k \in 0..n PROVE g[k] = IF k = 0 THEN 1 ELSE 2 * g[k - 1]
      <4>1. CASE k = n
        <5>1. g[n - 1] = f[n - 1]
          BY <2>3, <2>5
        <5> QED
          BY <2>5, <4>1, <5>1
      <4>2. CASE k # n
        <5>1. k \in 0..(n - 1) /\ (k # 0 => k - 1 \in 0..n /\ k - 1 # n)
          BY <2>3, <4>2
        <5>2. f[k] = IF k = 0 THEN 1 ELSE 2 * f[k - 1]
          BY <3>2, <5>1 DEF IsPowers
        <5> QED
          BY <4>2, <5>1, <5>2
      <4> QED
        BY <4>1, <4>2
    <3>4. IsPowers(g, n)
      BY <3>3 DEF IsPowers
    <3> QED
      BY <2>3, <3>4
  <2> QED
    BY <2>4, <2>5
<1>2. H \in Nat /\ H \notin Bad
  BY <1>1, TreeAssumption
<1> QED
  BY <1>2

\* What the recursion gives: powers of two are positive and double.
LEMMA Powers ==
  /\ Pow2[0] = 1
  /\ \A k \in 1..H : Pow2[k] = 2 * Pow2[k - 1]
  /\ \A k \in 0..H : Pow2[k] \in Nat \ {0}
<1>0. H \in Nat \ {0}
  BY TreeAssumption
<1>1. \E f : f = [k \in 0..H |-> IF k = 0 THEN 1 ELSE 2 * f[k - 1]]
  BY PowersExist DEF IsPowers
<1>2. Pow2 = [k \in 0..H |-> IF k = 0 THEN 1 ELSE 2 * Pow2[k - 1]]
  BY <1>1 DEF Pow2
<1>3. Pow2[0] = 1 /\ \A k \in 1..H : Pow2[k] = 2 * Pow2[k - 1]
  BY <1>0, <1>2
<1> DEFINE Bad == {k \in 0..H : Pow2[k] \notin Nat \ {0}}
<1>4. ASSUME Bad # {} PROVE FALSE
  <2>1. Bad \subseteq Nat
    OBVIOUS
  <2> HIDE DEF Bad
  <2>2. PICK k \in Bad : \A m \in Bad : k <= m
    BY <1>4, <2>1, Smallest
  <2>3. k \in 0..H /\ Pow2[k] \notin Nat \ {0}
    BY <2>2 DEF Bad
  <2>4. k # 0
    BY <1>3, <2>3
  <2>5. k - 1 \in 0..H /\ k \in 1..H
    BY <1>0, <2>3, <2>4
  <2>6. Pow2[k - 1] \in Nat \ {0}
    BY <2>2, <2>3, <2>5 DEF Bad
  <2> QED
    BY <1>3, <2>3, <2>5, <2>6
<1> QED
  BY <1>3, <1>4

\* A greater power is at least twice a smaller one.
LEMMA PowersGrow ==
  ASSUME NEW d \in 0..H, NEW e \in 0..H, d < e
  PROVE  2 * Pow2[d] <= Pow2[e]
<1>0. H \in Nat \ {0}
  BY TreeAssumption
<1> DEFINE Bad == {k \in d+1..H : ~(2 * Pow2[d] <= Pow2[k])}
<1>1. ASSUME Bad # {} PROVE FALSE
  <2>1. Bad \subseteq Nat
    BY <1>0
  <2> HIDE DEF Bad
  <2>2. PICK k \in Bad : \A m \in Bad : k <= m
    BY <1>1, <2>1, Smallest
  <2>3. k \in d+1..H /\ ~(2 * Pow2[d] <= Pow2[k]) /\ k \in 1..H /\ k - 1 \in 0..H
    BY <1>0, <2>2 DEF Bad
  <2>4. Pow2[k] = 2 * Pow2[k - 1] /\ Pow2[d] \in Nat /\ Pow2[k - 1] \in Nat
    BY <2>3, Powers
  <2>5. k # d + 1
    BY <2>3, <2>4
  <2>6. k - 1 \in d+1..H /\ k - 1 \notin Bad
    BY <1>0, <2>2, <2>3, <2>5
  <2>7. 2 * Pow2[d] <= Pow2[k - 1]
    BY <2>6 DEF Bad
  <2> QED
    BY <2>3, <2>4, <2>7
<1>2. e \in d+1..H
  BY <1>0
<1> QED
  BY <1>1, <1>2

\* The sizes of the tree: its leaves are at two depths, M - 1 nodes have children.
LEMMA Sizes ==
  /\ TAU \in Nat \ {0} /\ N \in Nat \ {0} /\ H \in Nat \ {0} /\ T_OPEN \in Nat
  /\ M \in Nat \ {0} /\ M = TAU * N /\ TAU <= M /\ T_OPEN <= M - TAU
  /\ TwoH \in Nat \ {0} /\ TwoH = 2 * Pow2[H - 1] /\ M <= TwoH /\ Pow2[H - 1] < M
  /\ Pow2[H - 1] \in Nat \ {0} /\ Pow2[H] = TwoH
  /\ NB_DEEP_LEAVES = 2 * M - TwoH /\ NB_DEEP_LEAVES \in 2..M
<1>1. TAU \in Nat \ {0} /\ N \in Nat \ {0} /\ H \in Nat \ {0} /\ T_OPEN \in Nat
  BY TreeAssumption
<1>2. M \in Nat \ {0} /\ M = TAU * N /\ TAU <= M
  BY <1>1 DEF M
<1>3. /\ TwoH \in Nat \ {0} /\ TwoH = 2 * Pow2[H - 1]
      /\ Pow2[H - 1] \in Nat \ {0} /\ Pow2[H] = TwoH
  <2>1. H \in 1..H /\ H \in 0..H /\ H - 1 \in 0..H
    BY <1>1
  <2> QED
    BY <2>1, Powers DEF TwoH
<1>4. TwoH \div 2 < M /\ M <= TwoH /\ T_OPEN <= M - TAU
  BY TreeAssumption
<1>5. TwoH \div 2 = Pow2[H - 1]
  BY <1>3
<1> QED
  BY <1>1, <1>2, <1>3, <1>4, <1>5 DEF NB_DEEP_LEAVES

-----------------------------------------------------------------------------
(***************************************************************************)
(* Nodes: their levels, and the subtree a node is in.                      *)
(***************************************************************************)

\* Level d of the heap.
InLevel(k, d) == Pow2[d] <= k /\ k < 2 * Pow2[d]

\* Node k is in the subtree of node g.
Under(k, g) == g \in Ancestors(k)

\* The leaves of the subtree of k come before those of the subtree of g.
LeavesBefore(k, g) ==
  \A i, l \in Leaves : Under(LeafPosition(i), k) /\ Under(LeafPosition(l), g) => i < l

\* The tree has fewer nodes than level H ends with.
LEMMA NodesSmall ==
  /\ Nodes \subseteq Nat \ {0} /\ \A k \in Nodes : k < 2 * TwoH
  /\ \A k \in Nodes : k > 1 => k \div 2 \in Nodes
  /\ \A k \in Nodes : ~IsLeaf(k) => 2 * k \in Nodes /\ 2 * k + 1 \in Nodes
  /\ 1 \in Nodes
BY Sizes DEF Nodes, IsLeaf

\* One more level up.
LEMMA AncestorStep ==
  ASSUME NEW k \in Nat, NEW j \in 0..H
  PROVE  /\ k \div Pow2[0] = k /\ k \div Pow2[j] \in Nat
         /\ j < H => k \div Pow2[j + 1] = (k \div Pow2[j]) \div 2
<1>1. Pow2[j] \in Nat \ {0} /\ Pow2[0] = 1
  BY Powers
<1>2. k \div Pow2[j] \in Nat
  BY <1>1, DivMod
<1>3. ASSUME j < H PROVE k \div Pow2[j + 1] = (k \div Pow2[j]) \div 2
  <2>1. j + 1 \in 1..H /\ (j + 1) - 1 = j
    BY <1>3, Sizes
  <2>2. Pow2[j + 1] = 2 * Pow2[j]
    BY <2>1, Powers
  <2> QED
    BY <1>1, <2>2, Halve
<1> QED
  BY <1>1, <1>2, <1>3

\* What it is to be in a subtree.
LEMMA UnderFacts ==
  ASSUME NEW k \in Nodes, NEW g
  PROVE  Under(k, g) <=> g # 0 /\ \E j \in 0..H : g = k \div Pow2[j]
BY DEF Under, Ancestors

\* A node is in its own subtree.
LEMMA UnderSelf == ASSUME NEW k \in Nodes PROVE Under(k, k)
<1>1. k \in Nat \ {0} /\ 0 \in 0..H
  BY NodesSmall, Sizes
<1>2. k = k \div Pow2[0]
  BY <1>1, AncestorStep
<1> QED
  BY <1>1, <1>2, UnderFacts

\* The numbers of the ancestors are not greater.
LEMMA UnderLess ==
  ASSUME NEW k \in Nodes, NEW g, Under(k, g)
  PROVE  g \in Nodes /\ g <= k
<1>1. k \in Nat \ {0}
  BY NodesSmall
<1>2. PICK j \in 0..H : g = k \div Pow2[j]
  BY UnderFacts
<1>3. g # 0 /\ Pow2[j] \in Nat \ {0}
  BY UnderFacts, Powers
<1>4. g \in Nat /\ k % Pow2[j] \in 0 .. Pow2[j] - 1 /\ k = Pow2[j] * g + (k % Pow2[j])
  BY <1>1, <1>2, <1>3, DivMod
<1>5. g <= Pow2[j] * g
  BY <1>3, <1>4
<1> DEFINE x == Pow2[j] * g
<1>6. x \in Nat
  BY <1>3, <1>4
<1> HIDE DEF x
<1>7. g <= k
  BY <1>1, <1>3, <1>4, <1>5, <1>6 DEF x
<1> QED
  BY <1>3, <1>4, <1>7, <1>1, NodesSmall, Sizes DEF Nodes

\* Whatever has a node in its subtree, so has its parent.
LEMMA UnderParent ==
  ASSUME NEW k \in Nodes, NEW g, Under(k, g), g # 1
  PROVE  Under(k, g \div 2)
<1>1. k \in Nat \ {0} /\ k < 2 * TwoH /\ g \in Nat \ {0}
  BY UnderLess, NodesSmall
<1>2. PICK j \in 0..H : g = k \div Pow2[j]
  BY UnderFacts
<1>3. j # H
  <2>1. SUFFICES ASSUME j = H PROVE FALSE
    OBVIOUS
  <2>2. g = k \div TwoH /\ TwoH \in Nat \ {0}
    BY <1>2, <2>1, Sizes
  <2>3. g <= 1
    BY <1>1, <2>2
  <2> QED
    BY <1>1, <2>3
<1>4. k \div Pow2[j + 1] = g \div 2 /\ j + 1 \in 0..H
  BY <1>1, <1>2, <1>3, AncestorStep, Sizes
<1>5. g \div 2 # 0
  BY <1>1
<1> QED
  BY <1>4, <1>5, UnderFacts

\* A node of a subtree is its root or in the subtree of one of the root's children.
LEMMA UnderChild ==
  ASSUME NEW k \in Nodes, NEW g, Under(k, g), k # g
  PROVE  (Under(k, 2 * g) \/ Under(k, 2 * g + 1)) /\ ~IsLeaf(g)
<1>1. k \in Nat \ {0} /\ g \in Nat \ {0}
  BY UnderLess, NodesSmall
<1>2. PICK j \in 0..H : g = k \div Pow2[j]
  BY UnderFacts
<1>3. j # 0
  BY <1>1, <1>2, AncestorStep, Sizes
<1> DEFINE c == k \div Pow2[j - 1]
<1>4. j - 1 \in 0..H /\ (j - 1) + 1 = j /\ j - 1 < H
  BY <1>3, Sizes
<1>5. c \in Nat /\ g = c \div 2
  BY <1>1, <1>2, <1>4, AncestorStep
<1>6. Under(k, c)
  BY <1>1, <1>4, <1>5, UnderFacts
<1>7. c \in Nodes
  BY <1>6, UnderLess
<1> HIDE DEF c
<1>8. c = 2 * g \/ c = 2 * g + 1
  BY <1>5
<1> QED
  BY <1>1, <1>6, <1>7, <1>8, Sizes DEF Nodes, IsLeaf

\* A set that has, with a node, the parent of the node has all its ancestors.
LEMMA ClosedUpwards ==
  ASSUME NEW S, S \subseteq Nat, \A c \in S : c > 1 => c \div 2 \in S,
         NEW k \in Nodes, k \in S, NEW g, Under(k, g)
  PROVE  g \in S
<1>0. H \in Nat \ {0} /\ k \in Nat \ {0} /\ g # 0
  BY Sizes, NodesSmall, UnderFacts
<1> DEFINE Bad == {j \in 0..H : k \div Pow2[j] # 0 /\ k \div Pow2[j] \notin S}
<1>1. ASSUME Bad # {} PROVE FALSE
  <2>1. Bad \subseteq Nat
    BY <1>0
  <2> HIDE DEF Bad
  <2>2. PICK j \in Bad : \A m \in Bad : j <= m
    BY <1>1, <2>1, Smallest
  <2>3. j \in 0..H /\ k \div Pow2[j] # 0 /\ k \div Pow2[j] \notin S
    BY <2>2 DEF Bad
  <2>4. j # 0
    BY <1>0, <2>3, AncestorStep
  <2>5. j - 1 \in 0..H /\ j - 1 < H /\ (j - 1) + 1 = j /\ j - 1 \notin Bad
    BY <1>0, <2>2, <2>3, <2>4
  <2> DEFINE c == k \div Pow2[j - 1]
  <2>6. c \in Nat /\ k \div Pow2[j] = c \div 2
    <3>1. c \in Nat /\ k \div Pow2[(j - 1) + 1] = c \div 2
      BY <1>0, <2>5, AncestorStep
    <3> QED
      BY <2>5, <3>1
  <2>7. c = 0 \/ c \in S
    BY <2>5 DEF Bad
  <2> HIDE DEF c
  <2> QED
    BY <2>3, <2>6, <2>7
<1>2. PICK j \in 0..H : g = k \div Pow2[j]
  BY UnderFacts
<1> QED
  BY <1>0, <1>1, <1>2

\* Being in a subtree is transitive.
LEMMA UnderTransitive ==
  ASSUME NEW k \in Nodes, NEW g, NEW f, Under(k, g), Under(g, f)
  PROVE  Under(k, f)
<1> DEFINE S == {c \in Nodes : Under(k, c)}
<1>1. S \subseteq Nat
  BY NodesSmall
<1>2. ASSUME NEW c \in S, c > 1 PROVE c \div 2 \in S
  <2>1. c \in Nodes /\ Under(k, c) /\ c \div 2 \in Nodes
    BY <1>2, NodesSmall
  <2> QED
    BY <1>2, <2>1, UnderParent
<1>3. g \in Nodes /\ g \in S
  BY UnderLess
<1> HIDE DEF S
<1>4. f \in S
  BY <1>1, <1>2, <1>3, ClosedUpwards
<1> QED
  BY <1>4 DEF S

\* What is in a subtree without being its root has its parent there.
LEMMA UnderOfParent ==
  ASSUME NEW k \in Nodes, NEW g, Under(k, g), k # g
  PROVE  k > 1 /\ k \div 2 \in Nodes /\ Under(k \div 2, g)
<1>0. k \in Nat \ {0} /\ g \in Nodes /\ g <= k
  BY UnderLess, NodesSmall
<1>1. g \in Nat \ {0} /\ k > 1 /\ k \div 2 \in Nodes
  BY <1>0, NodesSmall
<1> DEFINE S == {k} \cup {c \in Nodes : Under(k \div 2, c)}
<1>2. S \subseteq Nat
  BY <1>1, NodesSmall
<1>3. ASSUME NEW c \in S, c > 1 PROVE c \div 2 \in S
  <2>1. CASE c = k
    BY <1>1, <2>1, UnderSelf
  <2>2. CASE c # k
    <3>1. c \in Nodes /\ Under(k \div 2, c) /\ c # 1 /\ c \div 2 \in Nodes
      BY <1>3, <2>2, NodesSmall
    <3>2. Under(k \div 2, c \div 2)
      BY <1>1, <3>1, UnderParent
    <3> QED
      BY <3>1, <3>2
  <2> QED
    BY <2>1, <2>2
<1>4. k \in S
  OBVIOUS
<1> HIDE DEF S
<1>5. g \in S
  BY <1>2, <1>3, <1>4, ClosedUpwards
<1> QED
  BY <1>1, <1>5 DEF S

-----------------------------------------------------------------------------
(***************************************************************************)
(* Leaves: their positions, and the order of two subtrees.                 *)
(***************************************************************************)

\* LeafPosition and FromLeafPosition are inverse to each other: every leaf has one
\* of the nodes without children, at its depth (ggm_tree_large.h).
LEMMA Positions ==
  /\ \A i \in Leaves :
       /\ LeafPosition(i) \in M..2*M-1 /\ LeafPosition(i) \in Nodes /\ IsLeaf(LeafPosition(i))
       /\ FromLeafPosition(LeafPosition(i)) = i
       /\ LeafDepth(i) \in {H - 1, H} /\ LeafDepth(i) \in 0..H
       /\ InLevel(LeafPosition(i), LeafDepth(i))
  /\ \A k \in Nodes :
       IsLeaf(k) => FromLeafPosition(k) \in Leaves /\ LeafPosition(FromLeafPosition(k)) = k
<1>1. ASSUME NEW i \in Leaves
      PROVE  /\ LeafPosition(i) \in M..2*M-1 /\ LeafPosition(i) \in Nodes /\ IsLeaf(LeafPosition(i))
             /\ FromLeafPosition(LeafPosition(i)) = i
             /\ LeafDepth(i) \in {H - 1, H} /\ LeafDepth(i) \in 0..H
             /\ InLevel(LeafPosition(i), LeafDepth(i))
  <2>1. i \in 0..M-1
    BY DEF Leaves
  <2>2. CASE i < NB_DEEP_LEAVES
    BY <2>1, <2>2, Sizes DEF LeafPosition, FromLeafPosition, LeafDepth, InLevel, Nodes, IsLeaf
  <2>3. CASE ~(i < NB_DEEP_LEAVES)
    <3>1. LeafPosition(i) = TwoH + i - M /\ LeafDepth(i) = H - 1
      BY <2>3 DEF LeafPosition, LeafDepth
    <3>2. LeafPosition(i) \in M..TwoH-1
      BY <2>1, <2>3, <3>1, Sizes
    <3> QED
      BY <2>1, <3>1, <3>2, Sizes DEF FromLeafPosition, InLevel, Nodes, IsLeaf
  <2> QED
    BY <2>2, <2>3
<1>2. ASSUME NEW k \in Nodes, IsLeaf(k)
      PROVE  FromLeafPosition(k) \in Leaves /\ LeafPosition(FromLeafPosition(k)) = k
  <2>1. k \in M..2*M-1
    BY <1>2, Sizes DEF Nodes, IsLeaf
  <2>2. CASE k < TwoH
    BY <2>1, <2>2, Sizes DEF LeafPosition, FromLeafPosition, Leaves
  <2>3. CASE ~(k < TwoH)
    BY <2>1, <2>3, Sizes DEF LeafPosition, FromLeafPosition, Leaves
  <2> QED
    BY <2>2, <2>3
<1> QED
  BY <1>1, <1>2

\* The ancestor j levels up is j levels up.
LEMMA LevelUp ==
  ASSUME NEW k \in Nat, NEW d \in 0..H, InLevel(k, d),
         NEW j \in 0..H, k \div Pow2[j] # 0
  PROVE  j <= d /\ InLevel(k \div Pow2[j], d - j)
<1>0. H \in Nat \ {0}
  BY Sizes
<1> DEFINE Bad == {m \in 0..H : k \div Pow2[m] # 0 /\ ~(m <= d /\ InLevel(k \div Pow2[m], d - m))}
<1>1. ASSUME Bad # {} PROVE FALSE
  <2>1. Bad \subseteq Nat
    BY <1>0
  <2> HIDE DEF Bad
  <2>2. PICK m \in Bad : \A n \in Bad : m <= n
    BY <1>1, <2>1, Smallest
  <2>3. m \in 0..H /\ k \div Pow2[m] # 0 /\ ~(m <= d /\ InLevel(k \div Pow2[m], d - m))
    BY <2>2 DEF Bad
  <2>4. m # 0
    <3>1. SUFFICES ASSUME m = 0 PROVE FALSE
      OBVIOUS
    <3>2. k \div Pow2[m] = k /\ d - m = d
      BY <1>0, <3>1, AncestorStep
    <3> QED
      BY <2>3, <3>1, <3>2
  <2>5. m - 1 \in 0..H /\ m - 1 < H /\ (m - 1) + 1 = m /\ m - 1 \notin Bad
    BY <1>0, <2>2, <2>3, <2>4
  <2> DEFINE c == k \div Pow2[m - 1]
  <2>6. c \in Nat /\ k \div Pow2[m] = c \div 2
    <3>1. c \in Nat /\ k \div Pow2[(m - 1) + 1] = c \div 2
      BY <2>5, AncestorStep
    <3> QED
      BY <2>5, <3>1
  <2>7. c \div 2 # 0 /\ c # 0 /\ c >= 2
    BY <2>3, <2>6
  <2>8. m - 1 <= d /\ InLevel(c, d - (m - 1))
    BY <2>5, <2>7 DEF Bad
  <2> HIDE DEF c
  <2>9. d - (m - 1) # 0
    <3>1. SUFFICES ASSUME d - (m - 1) = 0 PROVE FALSE
      OBVIOUS
    <3>2. InLevel(c, 0)
      BY <2>8, <3>1
    <3> QED
      BY <2>6, <2>7, <3>2, Powers DEF InLevel
  <2>10. d - m \in 0..H /\ d - (m - 1) \in 1..H /\ (d - (m - 1)) - 1 = d - m /\ m <= d
    <3>1. m \in 0..H /\ d \in 0..H /\ m - 1 <= d
      BY <2>3, <2>8
    <3> QED
      BY <1>0, <2>4, <2>9, <3>1
  <2>11. Pow2[d - (m - 1)] = 2 * Pow2[d - m] /\ Pow2[d - m] \in Nat \ {0}
    BY <2>10, Powers
  <2>12. InLevel(c \div 2, d - m)
    BY <2>6, <2>8, <2>11 DEF InLevel
  <2> QED
    BY <2>3, <2>6, <2>10, <2>12
<1> QED
  BY <1>1

\* A node is on one level only.
LEMMA LevelUnique ==
  ASSUME NEW k \in Nat, NEW d \in 0..H, NEW e \in 0..H, InLevel(k, d), InLevel(k, e)
  PROVE  d = e
<1>1. /\ d < e => 2 * Pow2[d] <= Pow2[e]
      /\ e < d => 2 * Pow2[e] <= Pow2[d]
  BY PowersGrow
<1>2. Pow2[d] \in Nat /\ Pow2[e] \in Nat
  BY Powers
<1> QED
  BY <1>1, <1>2, Sizes DEF InLevel

\* Siblings are on the same level.
LEMMA LevelSibling ==
  ASSUME NEW g \in Nat \ {0}, NEW e \in 0..H, InLevel(2 * g, e)
  PROVE  InLevel(2 * g + 1, e)
<1>1. e # 0
  BY Powers DEF InLevel
<1>2. e \in 1..H /\ e - 1 \in 0..H
  BY <1>1, Sizes
<1>3. Pow2[e] = 2 * Pow2[e - 1] /\ Pow2[e - 1] \in Nat
  BY <1>2, Powers
<1> QED
  BY <1>3 DEF InLevel

\* Doubling both sides of a quotient.
LEMMA DoubleDiv ==
  ASSUME NEW a \in Nat, NEW p \in Nat \ {0}
  PROVE  (2 * a) \div (2 * p) = a \div p
<1> DEFINE q == a \div p
           r == a % p
           z == p * q
<1>1. q \in Nat /\ r \in 0 .. p - 1 /\ a = p * q + r
  BY DivMod
<1> HIDE DEF q, r
<1>2. z \in Nat /\ a = z + r
  BY <1>1
<1>3. 2 * z = q * (2 * p)
  BY <1>1
<1> HIDE DEF z
<1>4. 2 * r \in 0 .. 2 * p - 1 /\ 2 * p \in Nat \ {0} /\ 2 * a = 2 * z + 2 * r
  BY <1>1, <1>2
<1>5. 2 * a = q * (2 * p) + 2 * r
  BY <1>3, <1>4
<1>6. (2 * a) \div (2 * p) = q
  BY <1>1, <1>4, <1>5, DivModUnique
<1> QED
  BY <1>6 DEF q

\* Along a level, the subtrees come in the order of their leaves: a traversal that
\* goes left first meets the leaves in logical order, the deep ones first
\* (ggm_tree_large_incr.c).
LEMMA LevelOrder ==
  ASSUME NEW u \in Nat \ {0}, NEW v \in Nat \ {0}, NEW f \in 0..H,
         InLevel(u, f), InLevel(v, f), u < v
  PROVE  LeavesBefore(u, v)
<1> SUFFICES ASSUME NEW i \in Leaves, NEW l \in Leaves,
                    Under(LeafPosition(i), u), Under(LeafPosition(l), v)
             PROVE  i < l
  BY DEF LeavesBefore
<1> DEFINE a == LeafPosition(i)
           b == LeafPosition(l)
           d == LeafDepth(i)
           e == LeafDepth(l)
<1>1. /\ a \in M..2*M-1 /\ a \in Nodes /\ InLevel(a, d) /\ d \in {H - 1, H} /\ d \in 0..H
      /\ b \in M..2*M-1 /\ b \in Nodes /\ InLevel(b, e) /\ e \in {H - 1, H} /\ e \in 0..H
      /\ i \in 0..M-1 /\ l \in 0..M-1 /\ M \in Nat \ {0}
  BY Positions, Sizes DEF Leaves
<1>2. PICK j \in 0..H : u = a \div Pow2[j]
  BY <1>1, UnderFacts
<1>3. PICK m \in 0..H : v = b \div Pow2[m]
  BY <1>1, UnderFacts
<1>4. /\ i < NB_DEEP_LEAVES => a = TwoH + i /\ d = H
      /\ ~(i < NB_DEEP_LEAVES) => a = TwoH + i - M /\ d = H - 1
      /\ l < NB_DEEP_LEAVES => b = TwoH + l /\ e = H
      /\ ~(l < NB_DEEP_LEAVES) => b = TwoH + l - M /\ e = H - 1
  BY DEF LeafPosition, LeafDepth
<1> HIDE DEF a, b, d, e
<1>5. a \in Nat /\ b \in Nat /\ Pow2[j] \in Nat \ {0} /\ Pow2[m] \in Nat \ {0}
  BY <1>1, Powers
<1>6. j <= d /\ d - j = f
  <2>1. j <= d /\ InLevel(u, d - j)
    BY <1>1, <1>2, <1>5, LevelUp
  <2> QED
    BY <1>1, <2>1, Sizes, LevelUnique
<1>7. m <= e /\ e - m = f
  <2>1. m <= e /\ InLevel(v, e - m)
    BY <1>1, <1>3, <1>5, LevelUp
  <2> QED
    BY <1>1, <2>1, Sizes, LevelUnique
<1>8. CASE d = e
  <2>1. j = m
    BY <1>1, <1>6, <1>7, <1>8, Sizes
  <2>2. a < b
    BY <1>2, <1>3, <1>5, <2>1, DivMonotone
  <2> QED
    BY <1>1, <1>4, <1>8, <2>2, Sizes
<1>9. CASE d # e
  <2>1. CASE d = H
    BY <1>1, <1>4, <1>9, <2>1, Sizes
  <2>2. CASE d = H - 1
    <3>1. e = H /\ m = j + 1 /\ m \in 1..H /\ m - 1 = j
      BY <1>1, <1>6, <1>7, <1>9, <2>2, Sizes
    <3>2. Pow2[m] = 2 * Pow2[j]
      BY <3>1, Powers
    <3>3. (2 * a) \div Pow2[m] = u
      BY <1>2, <1>5, <3>2, DoubleDiv
    <3>4. 2 * a < b
      <4>1. 2 * a \in Nat
        BY <1>5
      <4>2. b <= 2 * a => v <= u
        BY <1>3, <1>5, <3>3, <4>1, DivMonotone
      <4> QED
        BY <1>5, <4>2
    <3> QED
      BY <1>1, <3>4
  <2> QED
    BY <1>1, <2>1, <2>2
<1> QED
  BY <1>8, <1>9

\* Every node is on a level.
LEMMA SomeLevel == ASSUME NEW k \in Nodes PROVE \E d \in 0..H : InLevel(k, d)
<1>0. H \in Nat \ {0} /\ k \in Nat \ {0} /\ k < 2 * Pow2[H]
  BY Sizes, NodesSmall
<1> DEFINE Big == {d \in 0..H : k < 2 * Pow2[d]}
<1>1. H \in Big /\ Big \subseteq Nat
  BY <1>0
<1> HIDE DEF Big
<1>2. PICK d \in Big : \A m \in Big : d <= m
  BY <1>1, Smallest
<1>3. d \in 0..H /\ k < 2 * Pow2[d]
  BY <1>2 DEF Big
<1>4. Pow2[d] <= k
  <2>1. CASE d = 0
    BY <1>0, <2>1, Powers
  <2>2. CASE d # 0
    <3>1. d - 1 \in 0..H /\ d \in 1..H /\ d - 1 \notin Big
      BY <1>0, <1>2, <1>3, <2>2
    <3>2. ~(k < 2 * Pow2[d - 1]) /\ Pow2[d] = 2 * Pow2[d - 1] /\ Pow2[d - 1] \in Nat
      BY <3>1, Powers DEF Big
    <3> QED
      BY <1>0, <3>2
  <2> QED
    BY <2>1, <2>2
<1> QED
  BY <1>3, <1>4 DEF InLevel

\* The leaves of a left child come before those of the right one.
LEMMA SiblingOrder ==
  ASSUME NEW g \in Nodes, ~IsLeaf(g)
  PROVE  LeavesBefore(2 * g, 2 * g + 1)
<1>1. g \in Nat \ {0} /\ 2 * g \in Nodes
  BY NodesSmall
<1>2. PICK f \in 0..H : InLevel(2 * g, f)
  BY <1>1, SomeLevel
<1>3. InLevel(2 * g + 1, f)
  BY <1>1, <1>2, LevelSibling
<1> QED
  BY <1>1, <1>2, <1>3, LevelOrder

\* Every subtree has a leaf.
LEMMA HasLeaf ==
  ASSUME NEW k \in Nodes
  PROVE  \E i \in Leaves : Under(LeafPosition(i), k)
<1>0. M \in Nat \ {0}
  BY Sizes
<1> DEFINE Bad == {c \in Nat : 2 * M - 1 - c \in Nodes
                                /\ ~ \E i \in Leaves : Under(LeafPosition(i), 2 * M - 1 - c)}
<1>1. ASSUME Bad # {} PROVE FALSE
  <2>1. Bad \subseteq Nat
    OBVIOUS
  <2> HIDE DEF Bad
  <2>2. PICK c \in Bad : \A m \in Bad : c <= m
    BY <1>1, <2>1, Smallest
  <2> DEFINE g == 2 * M - 1 - c
  <2>3. c \in Nat /\ g \in Nodes /\ ~ \E i \in Leaves : Under(LeafPosition(i), g)
    BY <2>2 DEF Bad
  <2>4. ~IsLeaf(g)
    <3>1. SUFFICES ASSUME IsLeaf(g) PROVE FALSE
      OBVIOUS
    <3>2. FromLeafPosition(g) \in Leaves /\ LeafPosition(FromLeafPosition(g)) = g
      BY <2>3, <3>1, Positions
    <3>3. Under(g, g)
      BY <2>3, UnderSelf
    <3> QED
      BY <2>3, <3>2, <3>3
  <2>5. 2 * g \in Nodes /\ g \in Nat \ {0}
    BY <2>3, <2>4, NodesSmall
  <2> DEFINE e == 2 * M - 1 - 2 * g
  <2>6. e \in Nat /\ e < c /\ 2 * M - 1 - e = 2 * g
    BY <1>0, <2>3, <2>5 DEF Nodes
  <2>7. e \notin Bad
    BY <2>2, <2>3, <2>6
  <2>8. PICK i \in Leaves : Under(LeafPosition(i), 2 * g)
    BY <2>5, <2>6, <2>7 DEF Bad
  <2> HIDE DEF g, e
  <2>9. (2 * g) \div 2 = g /\ 2 * g # 1
    BY <2>5
  <2>10. Under(LeafPosition(i), g)
    BY <2>8, <2>9, Positions, UnderParent
  <2> QED
    BY <2>3, <2>10
<1>2. 2 * M - 1 - k \in Nat /\ 2 * M - 1 - (2 * M - 1 - k) = k
  BY <1>0 DEF Nodes
<1> QED
  BY <1>1, <1>2

-----------------------------------------------------------------------------
(***************************************************************************)
(* The nodes on the hidden paths.                                          *)
(***************************************************************************)

\* A set of natural numbers with an element and a bound has a largest one.
LEMMA Largest ==
  ASSUME NEW S, S \subseteq Nat, S # {}, NEW b \in Nat, \A z \in S : z <= b
  PROVE  \E x \in S : \A z \in S : z <= x
<1> DEFINE T == {b - z : z \in S}
<1>0. \A z \in S : b - z \in Nat
  OBVIOUS
<1>1. T \subseteq Nat /\ T # {}
  BY <1>0
<1>2. \A z \in S : b - z \in T
  OBVIOUS
<1>3. \A y \in T : \E z \in S : y = b - z
  OBVIOUS
<1> HIDE DEF T
<1>4. PICK y \in T : \A t \in T : y <= t
  BY <1>1, Smallest
<1>5. PICK x \in S : y = b - x
  BY <1>3
<1>6. ASSUME NEW z \in S PROVE z <= x
  BY <1>2, <1>4, <1>5, <1>6
<1> QED
  BY <1>6

\* The elements of a sequence without repetitions.
Distinct(s) == \A x, y \in 1..Len(s) : s[x] = s[y] => x = y

\* What joining two sequences does to their elements.
LEMMA Joined ==
  ASSUME NEW S, NEW s \in Seq(S), NEW t \in Seq(S)
  PROVE  /\ s \o t \in Seq(S) /\ Len(s \o t) = Len(s) + Len(t)
         /\ Len(s) \in Nat /\ Len(t) \in Nat
         /\ \A x \in 1..Len(s) : (s \o t)[x] = s[x]
         /\ \A x \in 1..Len(t) : (s \o t)[Len(s) + x] = t[x]
         /\ ToSet(s) = {s[x] : x \in 1..Len(s)} /\ ToSet(t) = {t[x] : x \in 1..Len(t)}
         /\ ToSet(s) \subseteq S
         /\ ToSet(s \o t) = ToSet(s) \cup ToSet(t)
         /\ Distinct(s) /\ Distinct(t) /\ ToSet(s) \cap ToSet(t) = {} => Distinct(s \o t)
<1> DEFINE u == s \o t
<1>1. /\ u \in Seq(S) /\ Len(u) = Len(s) + Len(t)
      /\ Len(s) \in Nat /\ Len(t) \in Nat
      /\ \A x \in 1..Len(s) : u[x] = s[x]
      /\ \A x \in 1..Len(t) : u[Len(s) + x] = t[x]
  OBVIOUS
<1>2. /\ ToSet(s) = {s[x] : x \in 1..Len(s)} /\ ToSet(t) = {t[x] : x \in 1..Len(t)}
      /\ ToSet(u) = {u[x] : x \in 1..Len(u)} /\ ToSet(s) \subseteq S
  <2>1. DOMAIN s = 1..Len(s) /\ DOMAIN t = 1..Len(t) /\ DOMAIN u = 1..Len(u)
    BY <1>1
  <2> QED
    BY <2>1 DEF ToSet
<1> HIDE DEF u
<1>3. ASSUME NEW x \in 1..Len(u)
      PROVE  \/ x \in 1..Len(s) /\ u[x] = s[x]
             \/ x - Len(s) \in 1..Len(t) /\ u[x] = t[x - Len(s)]
  <2>1. CASE x <= Len(s)
    BY <1>1, <2>1
  <2>2. CASE ~(x <= Len(s))
    <3>1. x - Len(s) \in 1..Len(t) /\ Len(s) + (x - Len(s)) = x
      BY <1>1, <2>2
    <3> QED
      BY <1>1, <3>1
  <2> QED
    BY <2>1, <2>2
<1>4. ToSet(u) = ToSet(s) \cup ToSet(t)
  <2>1. ToSet(u) \subseteq ToSet(s) \cup ToSet(t)
    BY <1>2, <1>3
  <2>2. \A x \in 1..Len(s) : x \in 1..Len(u)
    BY <1>1
  <2>3. \A x \in 1..Len(t) : Len(s) + x \in 1..Len(u)
    BY <1>1
  <2>4. ToSet(s) \subseteq ToSet(u)
    BY <1>1, <1>2, <2>2
  <2>5. ToSet(t) \subseteq ToSet(u)
    BY <1>1, <1>2, <2>3
  <2> QED
    BY <2>1, <2>4, <2>5
<1>5. ASSUME Distinct(s), Distinct(t), ToSet(s) \cap ToSet(t) = {} PROVE Distinct(u)
  <2> SUFFICES ASSUME NEW x \in 1..Len(u), NEW y \in 1..Len(u), u[x] = u[y] PROVE x = y
    BY DEF Distinct
  <2>1. CASE x \in 1..Len(s) /\ u[x] = s[x]
    <3>1. s[x] \in ToSet(s) /\ s[x] \notin ToSet(t)
      BY <1>2, <1>5, <2>1
    <3>2. y \in 1..Len(s) /\ u[y] = s[y]
      BY <1>2, <1>3, <2>1, <3>1
    <3> QED
      BY <1>5, <2>1, <3>2 DEF Distinct
  <2>2. CASE x - Len(s) \in 1..Len(t) /\ u[x] = t[x - Len(s)]
    <3>1. y - Len(s) \in 1..Len(t) /\ u[y] = t[y - Len(s)]
      BY <1>2, <1>3, <1>5, <2>2
    <3>2. x - Len(s) = y - Len(s)
      BY <1>5, <2>2, <3>1 DEF Distinct
    <3> QED
      BY <1>1, <3>2
  <2> QED
    BY <1>3, <2>1, <2>2
<1> QED
  BY <1>1, <1>2, <1>4, <1>5 DEF u

\* The ancestors of a leaf, one for each level down to its own.
LEMMA AncestorAt ==
  ASSUME NEW k \in Nodes, NEW d \in 0..H, InLevel(k, d)
  PROVE  /\ \A j \in 0..d : /\ d - j \in 0..H
                            /\ k \div Pow2[d - j] \in Nodes
                            /\ InLevel(k \div Pow2[d - j], j)
                            /\ Under(k, k \div Pow2[d - j])
         /\ \A j \in 0..d : j < d => (k \div Pow2[d - (j + 1)]) \div 2 = k \div Pow2[d - j]
         /\ \A g : Under(k, g) => \E j \in 0..d : g = k \div Pow2[d - j]
<1>0. k \in Nat \ {0} /\ H \in Nat \ {0}
  BY NodesSmall, Sizes
<1>1. ASSUME NEW j \in 0..d
      PROVE  /\ d - j \in 0..H
             /\ k \div Pow2[d - j] \in Nodes
             /\ InLevel(k \div Pow2[d - j], j)
             /\ Under(k, k \div Pow2[d - j])
  <2> DEFINE m == d - j
             q == k \div Pow2[m]
  <2>1. m \in 0..H /\ m <= d /\ d - m = j
    BY <1>0
  <2>2. Pow2[m] \in Nat \ {0} /\ Pow2[d] \in Nat \ {0}
    BY <2>1, Powers
  <2>3. Pow2[m] <= Pow2[d]
    BY <1>0, <2>1, <2>2, PowersGrow
  <2>4. Pow2[m] <= k
    BY <1>0, <2>2, <2>3 DEF InLevel
  <2>5. Pow2[m] = 1 * Pow2[m] + 0 /\ 0 \in 0 .. Pow2[m] - 1
    BY <2>2
  <2>6. Pow2[m] \div Pow2[m] = 1
    BY <2>2, <2>5, DivModUnique
  <2>7. q >= 1 /\ q \in Nat
    <3>1. Pow2[m] \div Pow2[m] <= k \div Pow2[m]
      BY <1>0, <2>2, <2>4, DivMonotone
    <3> QED
      BY <1>0, <2>2, <2>6, <3>1, DivMod
  <2> HIDE DEF m
  <2>8. q # 0
    BY <2>7
  <2>9. Under(k, q)
    BY <2>1, <2>8, UnderFacts
  <2>10. InLevel(q, d - m)
    BY <1>0, <2>1, <2>8, LevelUp
  <2>11. q \in Nodes
    BY <2>9, UnderLess
  <2> QED
    BY <2>1, <2>9, <2>10, <2>11 DEF m
<1>2. ASSUME NEW j \in 0..d, j < d
      PROVE  (k \div Pow2[d - (j + 1)]) \div 2 = k \div Pow2[d - j]
  <2>1. d - (j + 1) \in 0..H /\ d - (j + 1) < H /\ (d - (j + 1)) + 1 = d - j
    BY <1>0, <1>2
  <2>2. k \div Pow2[(d - (j + 1)) + 1] = (k \div Pow2[d - (j + 1)]) \div 2
    BY <1>0, <2>1, AncestorStep
  <2> QED
    BY <2>1, <2>2
<1>3. ASSUME NEW g, Under(k, g)
      PROVE  \E j \in 0..d : g = k \div Pow2[d - j]
  <2>1. PICK m \in 0..H : g = k \div Pow2[m] /\ g # 0
    BY <1>3, UnderFacts
  <2>2. m <= d
    BY <1>0, <2>1, LevelUp
  <2>3. d - m \in 0..d /\ d - (d - m) = m
    BY <1>0, <2>2
  <2> QED
    BY <2>1, <2>3
<1> QED
  BY <1>1, <1>2, <1>3

\* What the leaves below n leave behind: the nodes above those of them that are
\* hidden, each once; and for each level the last of these nodes on it, which is
\* the greatest.
WalkInv(acc, hid, n) ==
  /\ acc.leaf_path \in [0..H -> Nat]
  /\ acc.nodes \in Seq(Nodes) /\ Distinct(acc.nodes)
  /\ \A g : g \in ToSet(acc.nodes) <=> \E x \in hid : x < n /\ Under(LeafPosition(x), g)
  /\ \A j \in 0..H : acc.leaf_path[j] # 0 =>
       acc.leaf_path[j] \in ToSet(acc.nodes) /\ InLevel(acc.leaf_path[j], j)
  /\ \A j \in 0..H : \A g \in ToSet(acc.nodes) : InLevel(g, j) => g <= acc.leaf_path[j]

\* The walk up from the next hidden leaf adds its ancestors that are not there yet.
LEMMA WalkUpInv ==
  ASSUME NEW hid, hid \subseteq Leaves, NEW n \in hid, NEW acc, WalkInv(acc, hid, n)
  PROVE  WalkInv(WalkUp(acc, n), hid, n + 1)
<1> DEFINE pos == LeafPosition(n)
           d == LeafDepth(n)
           up == [j \in 0..d |-> pos \div Pow2[d - j]]
           met == {j \in 0..d : acc.leaf_path[j] = up[j]}
           m == IF met = {} THEN -1 ELSE CHOOSE j \in met : \A l \in met : l <= j
           old == acc.nodes
           tail == [j \in 1..d-m |-> up[m + j]]
           lp == [j \in 0..H |-> IF j \in m+1..d THEN up[j] ELSE acc.leaf_path[j]]
           S == ToSet(old)
<1>1. /\ H \in Nat \ {0} /\ n \in Leaves /\ n \in Nat /\ pos \in Nodes /\ d \in 0..H
      /\ InLevel(pos, d) /\ hid \subseteq Nat
  BY Sizes, Positions DEF Leaves
<1>2. WalkUp(acc, n) = [leaf_path |-> lp, nodes |-> old \o tail]
  BY DEF WalkUp
<1>3. /\ acc.leaf_path \in [0..H -> Nat] /\ old \in Seq(Nodes) /\ Distinct(old)
      /\ \A g : g \in S <=> \E x \in hid : x < n /\ Under(LeafPosition(x), g)
      /\ \A j \in 0..H : acc.leaf_path[j] # 0 =>
           acc.leaf_path[j] \in S /\ InLevel(acc.leaf_path[j], j)
      /\ \A j \in 0..H : \A g \in S : InLevel(g, j) => g <= acc.leaf_path[j]
  BY DEF WalkInv
<1>4. /\ \A j \in 0..d : up[j] \in Nodes /\ InLevel(up[j], j) /\ Under(pos, up[j]) /\ j \in 0..H
      /\ \A j \in 0..d : j < d => j + 1 \in 0..d /\ up[j + 1] \div 2 = up[j]
      /\ \A g : Under(pos, g) => \E j \in 0..d : g = up[j]
  <2>1. ASSUME NEW j \in 0..d, j < d PROVE j + 1 \in 0..d
    BY <1>1, <2>1
  <2>2. \A j \in 0..d : up[j] = pos \div Pow2[d - j] /\ j \in 0..H
    BY <1>1
  <2> HIDE DEF up, pos, d
  <2>3. ASSUME NEW j \in 0..d
        PROVE  up[j] \in Nodes /\ InLevel(up[j], j) /\ Under(pos, up[j]) /\ j \in 0..H
    BY <1>1, <2>2, AncestorAt, SMTT(30)
  <2>4. ASSUME NEW j \in 0..d, j < d PROVE up[j + 1] \div 2 = up[j]
    <3>1. up[j + 1] = pos \div Pow2[d - (j + 1)] /\ up[j] = pos \div Pow2[d - j]
      BY <2>1, <2>2, <2>4
    <3> QED
      BY <1>1, <2>4, <3>1, AncestorAt
  <2>5. ASSUME NEW g, Under(pos, g) PROVE \E j \in 0..d : g = up[j]
    <3>1. PICK j \in 0..d : g = pos \div Pow2[d - j]
      BY <1>1, <2>5, AncestorAt
    <3> QED
      BY <2>2, <3>1
  <2> QED
    BY <2>1, <2>3, <2>4, <2>5
<1> HIDE DEF up
<1>5. /\ m \in -1..d
      /\ m # -1 => m \in 0..d /\ acc.leaf_path[m] = up[m]
      /\ \A j \in 0..d : acc.leaf_path[j] = up[j] => j <= m
  <2>1. CASE met = {}
    BY <1>1, <2>1
  <2>2. CASE met # {}
    <3>1. met \subseteq Nat /\ \A z \in met : z <= d
      BY <1>1
    <3>2. \E x \in met : \A z \in met : z <= x
      <4>1. d \in Nat /\ met # {}
        BY <1>1, <2>2
      <4> HIDE DEF met, d
      <4> QED
        BY <3>1, <4>1, Largest
    <3>3. m \in met /\ \A z \in met : z <= m
      <4> HIDE DEF met
      <4> QED
        BY <2>2, <3>2
    <3>4. m \in 0..d /\ acc.leaf_path[m] = up[m]
      BY <3>3
    <3>5. \A j \in 0..d : acc.leaf_path[j] = up[j] => j <= m
      BY <3>3
    <3> HIDE DEF m, met
    <3> QED
      BY <1>1, <3>4, <3>5
  <2> QED
    BY <2>1, <2>2
<1> HIDE DEF m, met
<1>6. ASSUME NEW j \in 0..d PROVE acc.leaf_path[j] <= up[j]
  <2>1. up[j] \in Nat \ {0} /\ InLevel(up[j], j) /\ j \in 0..H /\ Under(pos, up[j])
    BY <1>4, NodesSmall
  <2>2. acc.leaf_path[j] \in Nat
    BY <1>3, <2>1
  <2>3. SUFFICES ASSUME up[j] < acc.leaf_path[j] PROVE FALSE
    BY <2>1, <2>2
  <2>4. acc.leaf_path[j] \in Nat \ {0} /\ acc.leaf_path[j] \in S /\ InLevel(acc.leaf_path[j], j)
    BY <1>3, <2>1, <2>2, <2>3
  <2>5. PICK x \in hid : x < n /\ Under(LeafPosition(x), acc.leaf_path[j])
    BY <1>3, <2>4
  <2>6. LeavesBefore(up[j], acc.leaf_path[j])
    BY <2>1, <2>3, <2>4, LevelOrder
  <2>7. n < x
    BY <1>1, <2>1, <2>5, <2>6 DEF LeavesBefore
  <2> QED
    BY <1>1, <2>5, <2>7
<1>7. ASSUME NEW j \in 0..d, up[j] \in S PROVE j <= m
  <2>1. up[j] <= acc.leaf_path[j] /\ acc.leaf_path[j] <= up[j] /\ j \in 0..H
    BY <1>3, <1>4, <1>6, <1>7
  <2>2. up[j] \in Nat /\ acc.leaf_path[j] \in Nat
    BY <1>3, <1>4, <2>1, NodesSmall
  <2> QED
    BY <1>5, <2>1, <2>2
<1>8. ASSUME NEW j \in 0..d, j <= m PROVE up[j] \in S
  <2> DEFINE Bad == {l \in 0..m : up[l] \notin S}
  <2>1. m \in 0..d /\ up[m] \in S
    <3>1. m \in 0..d /\ acc.leaf_path[m] = up[m]
      BY <1>1, <1>5, <1>8
    <3>2. up[m] # 0 /\ m \in 0..H
      BY <1>4, <3>1, NodesSmall
    <3> QED
      BY <1>3, <3>1, <3>2
  <2>2. ASSUME Bad # {} PROVE FALSE
    <3>1. Bad \subseteq Nat /\ (\A z \in Bad : z <= m) /\ m \in Nat
      BY <1>1, <2>1
    <3> HIDE DEF Bad
    <3>2. PICK l \in Bad : \A z \in Bad : z <= l
      BY <2>2, <3>1, Largest
    <3>3. l \in 0..m /\ up[l] \notin S
      BY <3>2 DEF Bad
    <3>4. l # m /\ l \in 0..d /\ l < d /\ l + 1 \in 0..m
      BY <1>1, <2>1, <3>3
    <3>5. l + 1 \notin Bad
      BY <3>2, <3>3
    <3>6. up[l + 1] \in S
      BY <3>4, <3>5 DEF Bad
    <3>7. PICK x \in hid : x < n /\ Under(LeafPosition(x), up[l + 1])
      BY <1>3, <3>6
    <3>8. up[l + 1] # 1
      BY <1>4, <3>4, NodesSmall
    <3>9. Under(LeafPosition(x), up[l])
      BY <1>4, <3>4, <3>7, <3>8, Positions, UnderParent
    <3> QED
      BY <1>3, <3>3, <3>7, <3>9
  <2> QED
    BY <1>1, <1>8, <2>2
<1>9. /\ tail \in Seq(Nodes) /\ Distinct(tail)
      /\ ToSet(tail) = {up[j] : j \in m+1..d}
  <2>1. \A x \in 1..d-m : m + x \in 0..d /\ m + x \in m+1..d
    BY <1>1, <1>5
  <2>2. \A j \in m+1..d : j - m \in 1..d-m /\ m + (j - m) = j
    BY <1>1, <1>5
  <2>3. d - m \in Nat
    BY <1>1, <1>5
  <2>4. \A x \in 1..d-m : tail[x] = up[m + x] /\ tail[x] \in Nodes
    BY <1>4, <2>1
  <2>5. tail \in Seq(Nodes) /\ Len(tail) = d - m /\ DOMAIN tail = 1..d-m
    BY <2>3, <2>4
  <2>6. Distinct(tail)
    <3> SUFFICES ASSUME NEW x \in 1..d-m, NEW y \in 1..d-m, tail[x] = tail[y] PROVE x = y
      BY <2>5 DEF Distinct
    <3>1. InLevel(tail[x], m + x) /\ InLevel(tail[x], m + y) /\ tail[x] \in Nat
      BY <1>4, <2>1, <2>4, NodesSmall
    <3>2. m + x = m + y
      BY <1>4, <2>1, <3>1, LevelUnique
    <3> QED
      BY <1>5, <3>2
  <2>7. ToSet(tail) = {up[j] : j \in m+1..d}
    <3> HIDE DEF tail
    <3> QED
      BY <2>1, <2>2, <2>4, <2>5 DEF ToSet
  <2> QED
    BY <2>5, <2>6, <2>7
<1> HIDE DEF tail
<1>10. \A j \in m+1..d : j \in 0..d /\ up[j] \notin S
  BY <1>1, <1>5, <1>7
<1>11. S \cap ToSet(tail) = {}
  BY <1>9, <1>10
<1> DEFINE new == old \o tail
<1>12. new \in Seq(Nodes) /\ Distinct(new) /\ ToSet(new) = S \cup {up[j] : j \in m+1..d}
  BY <1>3, <1>9, <1>11, Joined
<1> HIDE DEF new
<1>13. ASSUME NEW g
       PROVE  g \in ToSet(new) <=> \E x \in hid : x < n + 1 /\ Under(LeafPosition(x), g)
  <2>1. ASSUME g \in S
        PROVE  \E x \in hid : x < n + 1 /\ Under(LeafPosition(x), g)
    <3>1. PICK x \in hid : x < n /\ Under(LeafPosition(x), g)
      BY <1>3, <2>1
    <3> QED
      BY <1>1, <3>1
  <2>2. ASSUME NEW j \in m+1..d, g = up[j]
        PROVE  \E x \in hid : x < n + 1 /\ Under(LeafPosition(x), g)
    BY <1>1, <1>4, <1>10, <2>2
  <2>3. ASSUME NEW x \in hid, x < n + 1, Under(LeafPosition(x), g)
        PROVE  g \in S \cup {up[j] : j \in m+1..d}
    <3>1. CASE x < n
      BY <1>3, <2>3, <3>1
    <3>2. CASE ~(x < n)
      <4>1. x = n
        BY <1>1, <2>3, <3>2
      <4>2. PICK j \in 0..d : g = up[j]
        BY <1>4, <2>3, <4>1
      <4>3. j \in m+1..d \/ j <= m
        BY <1>1, <1>5
      <4> QED
        BY <1>8, <4>2, <4>3
    <3> QED
      BY <3>1, <3>2
  <2> QED
    BY <1>12, <2>1, <2>2, <2>3
<1>14. ASSUME NEW j \in 0..H
       PROVE  /\ lp[j] \in Nat
              /\ lp[j] # 0 => lp[j] \in ToSet(new) /\ InLevel(lp[j], j)
              /\ \A g \in ToSet(new) : InLevel(g, j) => g <= lp[j]
  <2>1. CASE j \in m+1..d
    <3>1. lp[j] = up[j] /\ up[j] \in Nat /\ InLevel(up[j], j) /\ up[j] \in ToSet(new) /\ j \in 0..d
      BY <1>4, <1>10, <1>12, <2>1, NodesSmall
    <3>2. ASSUME NEW g \in ToSet(new), InLevel(g, j) PROVE g <= up[j]
      <4>1. CASE g \in S
        <5>1. g <= acc.leaf_path[j] /\ acc.leaf_path[j] <= up[j]
          BY <1>3, <1>6, <3>1, <3>2, <4>1
        <5>2. g \in Nat /\ acc.leaf_path[j] \in Nat
          BY <1>3, <1>12, NodesSmall, Joined
        <5> QED
          BY <3>1, <5>1, <5>2
      <4>2. CASE g \notin S
        <5>1. PICK l \in m+1..d : g = up[l]
          BY <1>12, <4>2
        <5>2. InLevel(g, l) /\ l \in 0..H /\ g \in Nat
          BY <1>4, <1>10, <5>1, NodesSmall
        <5>3. l = j
          BY <3>2, <5>2, LevelUnique
        <5> QED
          BY <3>1, <5>1, <5>3
      <4> QED
        BY <4>1, <4>2
    <3> QED
      BY <3>1, <3>2
  <2>2. CASE j \notin m+1..d
    <3>1. lp[j] = acc.leaf_path[j]
      BY <2>2
    <3>2. ASSUME NEW g \in ToSet(new), InLevel(g, j) PROVE g \in S
      <4>1. CASE g \notin S
        <5>1. PICK l \in m+1..d : g = up[l]
          BY <1>12, <4>1
        <5>2. InLevel(g, l) /\ l \in 0..H /\ g \in Nat
          BY <1>4, <1>10, <5>1, NodesSmall
        <5>3. l = j
          BY <3>2, <5>2, LevelUnique
        <5> QED
          BY <2>2, <5>1, <5>3
      <4> QED
        BY <4>1
    <3> QED
      BY <1>3, <1>12, <3>1, <3>2
  <2> QED
    BY <2>1, <2>2
<1>15. lp \in [0..H -> Nat]
  BY <1>14
<1> HIDE DEF lp
<1> QED
  BY <1>2, <1>12, <1>13, <1>14, <1>15 DEF WalkInv, new

\* The walk over the first n leaves, as a function with the equation of walked.
IsWalked(f, hid, n) ==
  f = [i \in 0..n |->
         IF i = 0 THEN [leaf_path |-> [j \in 0..H |-> 0], nodes |-> <<>>]
         ELSE IF i - 1 \in hid THEN WalkUp(f[i - 1], i - 1) ELSE f[i - 1]]

\* There are such functions.
LEMMA WalkedExist == ASSUME NEW hid PROVE \E f : IsWalked(f, hid, M)
<1> DEFINE Bad == {n \in Nat : ~ \E f : IsWalked(f, hid, n)}
<1>1. ASSUME Bad # {} PROVE FALSE
  <2>1. Bad \subseteq Nat
    OBVIOUS
  <2> HIDE DEF Bad
  <2>2. PICK n \in Bad : \A m \in Bad : n <= m
    BY <1>1, <2>1, Smallest
  <2>3. n \in Nat /\ ~ \E f : IsWalked(f, hid, n)
    BY <2>2 DEF Bad
  <2> DEFINE zero == [leaf_path |-> [j \in 0..H |-> 0], nodes |-> <<>>]
             next(a, i) == IF i - 1 \in hid THEN WalkUp(a, i - 1) ELSE a
  <2>4. CASE n = 0
    <3> DEFINE g == [k \in 0..0 |-> zero]
    <3>1. IsWalked(g, hid, 0)
      BY DEF IsWalked
    <3> QED
      BY <2>3, <2>4, <3>1
  <2>5. CASE n # 0
    <3>1. n - 1 \in Nat /\ n - 1 \notin Bad
      BY <2>2, <2>3, <2>5
    <3>2. PICK f : IsWalked(f, hid, n - 1)
      BY <3>1 DEF Bad
    <3>3. \A k \in 0..(n-1) : f[k] = IF k = 0 THEN zero ELSE next(f[k - 1], k)
      BY <3>2 DEF IsWalked
    <3> DEFINE g == [k \in 0..n |-> IF k = n THEN next(f[n - 1], n) ELSE f[k]]
    <3> HIDE DEF zero, next
    <3>4. ASSUME NEW k \in 0..n PROVE g[k] = IF k = 0 THEN zero ELSE next(g[k - 1], k)
      <4>1. CASE k = n
        <5>1. g[n - 1] = f[n - 1]
          BY <2>3, <2>5
        <5> QED
          BY <2>5, <4>1, <5>1
      <4>2. CASE k # n
        <5>1. k \in 0..(n - 1) /\ (k # 0 => k - 1 \in 0..n /\ k - 1 # n)
          BY <2>3, <4>2
        <5> QED
          BY <3>3, <4>2, <5>1
      <4> QED
        BY <4>1, <4>2
    <3>5. g = [k \in 0..n |-> IF k = 0 THEN zero ELSE next(g[k - 1], k)]
      BY <3>4
    <3>6. IsWalked(g, hid, n)
      BY <3>5 DEF IsWalked, zero, next
    <3> QED
      BY <2>3, <3>6
  <2> QED
    BY <2>4, <2>5
<1>2. M \in Nat /\ M \notin Bad
  BY <1>1, Sizes
<1> QED
  BY <1>2

\* GetSensitiveNodeIndexes lists the nodes above a hidden leaf, each once.
LEMMA SensitiveNodes ==
  ASSUME NEW hid, hid \subseteq Leaves
  PROVE  /\ GetSensitiveNodeIndexes(hid) \in Seq(Nodes)
         /\ Distinct(GetSensitiveNodeIndexes(hid))
         /\ \A g : g \in ToSet(GetSensitiveNodeIndexes(hid)) <=>
                     \E x \in hid : Under(LeafPosition(x), g)
<1>0. M \in Nat \ {0} /\ hid \subseteq Nat /\ \A x \in hid : x < M
  BY Sizes DEF Leaves
<1> DEFINE zero == [leaf_path |-> [j \in 0..H |-> 0], nodes |-> <<>>]
           walked == CHOOSE f : IsWalked(f, hid, M)
<1>1. IsWalked(walked, hid, M)
  BY WalkedExist
<1>2. GetSensitiveNodeIndexes(hid) = walked[M].nodes
  BY DEF GetSensitiveNodeIndexes, IsWalked
<1> HIDE DEF walked
<1>3. \A i \in 0..M :
        walked[i] = IF i = 0 THEN zero
                    ELSE IF i - 1 \in hid THEN WalkUp(walked[i - 1], i - 1) ELSE walked[i - 1]
  BY <1>1 DEF IsWalked
<1>4. WalkInv(zero, hid, 0)
  <2>1. zero.leaf_path \in [0..H -> Nat] /\ \A j \in 0..H : zero.leaf_path[j] = 0
    OBVIOUS
  <2>2. zero.nodes = <<>> /\ zero.nodes \in Seq(Nodes) /\ Distinct(zero.nodes)
        /\ ToSet(zero.nodes) = {}
    BY DEF Distinct, ToSet
  <2>3. \A x \in hid : ~(x < 0)
    BY <1>0
  <2> HIDE DEF zero
  <2> QED
    BY <2>1, <2>2, <2>3 DEF WalkInv
<1> HIDE DEF zero
<1> DEFINE Bad == {i \in 0..M : ~WalkInv(walked[i], hid, i)}
<1>5. ASSUME Bad # {} PROVE FALSE
  <2>1. Bad \subseteq Nat
    BY <1>0
  <2> HIDE DEF Bad
  <2>2. PICK i \in Bad : \A m \in Bad : i <= m
    BY <1>5, <2>1, Smallest
  <2>3. i \in 0..M /\ ~WalkInv(walked[i], hid, i)
    BY <2>2 DEF Bad
  <2>4. i # 0
    BY <1>3, <1>4, <2>3
  <2>5. i - 1 \in 0..M /\ i - 1 \notin Bad /\ (i - 1) + 1 = i
    BY <1>0, <2>2, <2>3, <2>4
  <2>6. WalkInv(walked[i - 1], hid, i - 1)
    BY <2>5 DEF Bad
  <2>7. CASE i - 1 \in hid
    <3>1. walked[i] = WalkUp(walked[i - 1], i - 1)
      BY <1>3, <2>3, <2>4, <2>7
    <3>2. WalkInv(WalkUp(walked[i - 1], i - 1), hid, (i - 1) + 1)
      BY <2>6, <2>7, WalkUpInv
    <3> QED
      BY <2>3, <2>5, <3>1, <3>2
  <2>8. CASE i - 1 \notin hid
    <3>1. walked[i] = walked[i - 1]
      BY <1>3, <2>3, <2>4, <2>8
    <3>2. \A x \in hid : x < i <=> x < i - 1
      <4> SUFFICES ASSUME NEW x \in hid PROVE x < i <=> x < i - 1
        OBVIOUS
      <4>1. x # i - 1 /\ x \in Nat /\ i \in Nat
        BY <1>0, <2>3, <2>8
      <4> QED
        BY <4>1
    <3>3. WalkInv(walked[i - 1], hid, i)
      BY <2>6, <3>2 DEF WalkInv
    <3> QED
      BY <2>3, <3>1, <3>3
  <2> QED
    BY <2>7, <2>8
<1>6. M \in 0..M /\ M \notin Bad
  BY <1>0, <1>5
<1>7. WalkInv(walked[M], hid, M)
  BY <1>6
<1> QED
  BY <1>0, <1>2, <1>7 DEF WalkInv

-----------------------------------------------------------------------------
(***************************************************************************)
(* The size of an opening.                                                 *)
(***************************************************************************)

\* Sets that a function puts in correspondence have the same size.
LEMMA SameSize ==
  ASSUME NEW S, NEW T, IsFiniteSet(S), NEW f \in [S -> T],
         \A x, y \in S : f[x] = f[y] => x = y, \A t \in T : \E x \in S : f[x] = t
  PROVE  IsFiniteSet(T) /\ Cardinality(T) = Cardinality(S)
<1>1. f \in Bijection(S, T)
  BY DEF Bijection, Injection, Surjection, IsInjective
<1> QED
  BY <1>1, FS_Bijection DEF ExistsBijection

\* A sequence has no more elements than entries, and as many without repetitions.
LEMMA CountEntries ==
  ASSUME NEW S, NEW s \in Seq(S)
  PROVE  /\ IsFiniteSet(ToSet(s)) /\ Cardinality(ToSet(s)) \in Nat
         /\ Cardinality(ToSet(s)) <= Len(s)
         /\ Distinct(s) => Cardinality(ToSet(s)) = Len(s)
<1>1. /\ Len(s) \in Nat /\ DOMAIN s = 1..Len(s) /\ s = [x \in 1..Len(s) |-> s[x]]
      /\ ToSet(s) = {s[x] : x \in 1..Len(s)}
  BY DEF ToSet
<1>2. IsFiniteSet(1..Len(s)) /\ Cardinality(1..Len(s)) = Len(s)
  <2>1. /\ IsFiniteSet(1..Len(s))
        /\ Cardinality(1..Len(s)) = IF 1 > Len(s) THEN 0 ELSE Len(s) - 1 + 1
    BY <1>1, FS_Interval
  <2>2. (IF 1 > Len(s) THEN 0 ELSE Len(s) - 1 + 1) = Len(s)
    BY <1>1
  <2> QED
    BY <2>1, <2>2
<1>3. s \in [1..Len(s) -> ToSet(s)]
  BY <1>1
<1>4. s \in Surjection(1..Len(s), ToSet(s))
  BY <1>1, <1>3 DEF Surjection
<1>5. IsFiniteSet(ToSet(s)) /\ Cardinality(ToSet(s)) <= Len(s)
  BY <1>2, <1>4, FS_Surjection
<1>6. ASSUME Distinct(s) PROVE Cardinality(ToSet(s)) = Len(s)
  <2>1. \A x, y \in 1..Len(s) : s[x] = s[y] => x = y
    BY <1>6 DEF Distinct
  <2>2. \A t \in ToSet(s) : \E x \in 1..Len(s) : s[x] = t
    BY <1>1
  <2>3. Cardinality(ToSet(s)) = Cardinality(1..Len(s))
    BY <1>2, <1>3, <2>1, <2>2, SameSize
  <2> QED
    BY <1>2, <2>3
<1> QED
  BY <1>5, <1>6, FS_CardinalityType

\* The leaves of the executions: one hidden for each.
LEMMA OpeningSetFacts ==
  ASSUME NEW hid \in OpeningSets
  PROVE  /\ hid \subseteq Leaves /\ hid # {}
         /\ IsFiniteSet(hid) /\ Cardinality(hid) = TAU
         /\ \A e \in 0..TAU-1 : \E i \in hid : i % TAU = e
         /\ \A i, l \in hid : i % TAU = l % TAU => i = l
<1>1. PICK i_star \in [0..TAU-1 -> 0..N-1] : hid = HiddenLeaves(i_star)
  BY DEF OpeningSets
<1> DEFINE leaf == [e \in 0..TAU-1 |-> TAU * i_star[e] + e]
<1>2. TAU \in Nat \ {0} /\ N \in Nat \ {0} /\ M = TAU * N
  BY Sizes
<1>3. hid = {leaf[e] : e \in 0..TAU-1}
  BY <1>1 DEF HiddenLeaves
<1>4. ASSUME NEW e \in 0..TAU-1 PROVE leaf[e] \in Leaves /\ leaf[e] % TAU = e
  <2> DEFINE q == i_star[e]
             z == TAU * q
             w == TAU * N
  <2>1. q \in 0..N-1 /\ e \in Nat
    BY <1>2
  <2> HIDE DEF q
  <2>2. z \in Nat /\ z = q * TAU /\ w \in Nat
    BY <1>2, <2>1
  <2>3. TAU * (N - 1 - q) \in Nat
    BY <1>2, <2>1
  <2>4. TAU * (N - 1 - q) = (w - TAU) - z
    BY <1>2, <2>1
  <2>5. leaf[e] = z + e
    BY DEF q
  <2>6. leaf[e] % TAU = e
    <3>1. leaf[e] = q * TAU + e
      BY <2>2, <2>5
    <3>2. TAU \in Nat \ {0} /\ e \in 0..TAU-1 /\ q \in Nat
      BY <1>2, <2>1
    <3> DEFINE a == leaf[e]
    <3>3. a = q * TAU + e
      BY <3>1
    <3> HIDE DEF a
    <3>4. a % TAU = e
      BY <3>2, <3>3, DivModUnique
    <3> QED
      BY <3>4 DEF a
  <2>7. w = M
    BY <1>2
  <2> HIDE DEF z, w, leaf
  <2>8. z + e \in 0..M-1
    BY <1>2, <2>1, <2>2, <2>3, <2>4, <2>7
  <2> QED
    BY <2>5, <2>6, <2>8 DEF Leaves
<1> HIDE DEF leaf
<1>5. leaf \in [0..TAU-1 -> hid]
  <2>1. leaf = [e \in 0..TAU-1 |-> leaf[e]]
    BY DEF leaf
  <2> QED
    BY <1>3, <2>1
<1>6. IsFiniteSet(0..TAU-1) /\ Cardinality(0..TAU-1) = TAU
  <2>1. TAU - 1 \in Int
    BY <1>2
  <2>2. /\ IsFiniteSet(0..TAU-1)
        /\ Cardinality(0..TAU-1) = IF 0 > TAU - 1 THEN 0 ELSE (TAU - 1) - 0 + 1
    BY <2>1, FS_Interval
  <2>3. (IF 0 > TAU - 1 THEN 0 ELSE (TAU - 1) - 0 + 1) = TAU
    BY <1>2
  <2> QED
    BY <2>2, <2>3
<1>7. /\ \A d, e \in 0..TAU-1 : leaf[d] = leaf[e] => d = e
      /\ \A t \in hid : \E e \in 0..TAU-1 : leaf[e] = t
  BY <1>3, <1>4
<1>8. IsFiniteSet(hid) /\ Cardinality(hid) = TAU
  <2> DEFINE E == 0..TAU-1
  <2>0. /\ IsFiniteSet(E) /\ leaf \in [E -> hid]
        /\ \A x, y \in E : leaf[x] = leaf[y] => x = y
        /\ \A t \in hid : \E x \in E : leaf[x] = t
    BY <1>5, <1>6, <1>7
  <2> HIDE DEF E
  <2>1. IsFiniteSet(hid) /\ Cardinality(hid) = Cardinality(E)
    BY <2>0, SameSize
  <2> QED
    BY <1>6, <2>1 DEF E
<1>9. hid # {}
  BY <1>2, <1>8, FS_EmptySet
<1> QED
  BY <1>3, <1>4, <1>8, <1>9

\* Every node is under the root.
LEMMA UnderRoot == ASSUME NEW k \in Nodes PROVE Under(k, 1)
<1>1. PICK d \in 0..H : InLevel(k, d)
  BY SomeLevel
<1> DEFINE g == k \div Pow2[d - 0]
<1>2. 0 \in 0..d
  BY Sizes
<1>3. g \in Nodes /\ InLevel(g, 0) /\ Under(k, g)
  BY <1>1, <1>2, AncestorAt
<1> HIDE DEF g
<1>4. g = 1
  BY <1>3, Powers, NodesSmall DEF InLevel
<1> QED
  BY <1>3, <1>4

\* What the hidden paths of a set of leaves are.
PathNodes(hid, hn) ==
  /\ hn \subseteq Nodes /\ IsFiniteSet(hn)
  /\ \A g : g \in hn <=> \E x \in hid : Under(LeafPosition(x), g)
  /\ \A k \in hn : k > 1 => k \div 2 \in hn
  /\ hid # {} => 1 \in hn
  /\ \A k \in hn : IsLeaf(k) => \E x \in hid : k = LeafPosition(x)
  /\ \A x \in hid : LeafPosition(x) \in hn
  /\ \A k \in hn : ~IsLeaf(k) => 2 * k \in hn \/ 2 * k + 1 \in hn

\* GetSensitiveNodeIndexes returns them.
LEMMA SensitivePaths ==
  ASSUME NEW hid, hid \subseteq Leaves
  PROVE  PathNodes(hid, ToSet(GetSensitiveNodeIndexes(hid)))
<1> DEFINE s == GetSensitiveNodeIndexes(hid)
           hn == ToSet(s)
<1>1. s \in Seq(Nodes) /\ \A g : g \in hn <=> \E x \in hid : Under(LeafPosition(x), g)
  BY SensitiveNodes
<1>2. hn \subseteq Nodes /\ IsFiniteSet(hn)
  BY <1>1, Joined, CountEntries
<1> HIDE DEF s, hn
<1>3. \A x \in hid : LeafPosition(x) \in Nodes
  BY Positions
<1>4. ASSUME NEW k \in hn, k > 1 PROVE k \div 2 \in hn
  BY <1>1, <1>3, <1>4, UnderParent
<1>5. ASSUME hid # {} PROVE 1 \in hn
  BY <1>1, <1>3, <1>5, UnderRoot
<1>6. ASSUME NEW k \in hn, IsLeaf(k) PROVE \E x \in hid : k = LeafPosition(x)
  BY <1>1, <1>3, <1>6, UnderChild
<1>7. ASSUME NEW x \in hid PROVE LeafPosition(x) \in hn
  BY <1>1, <1>3, UnderSelf
<1>8. ASSUME NEW k \in hn, ~IsLeaf(k) PROVE 2 * k \in hn \/ 2 * k + 1 \in hn
  <2>1. PICK x \in hid : Under(LeafPosition(x), k)
    BY <1>1
  <2>2. LeafPosition(x) # k
    BY <1>8, Positions
  <2> QED
    BY <1>1, <1>3, <2>1, <2>2, UnderChild
<1> QED
  BY <1>1, <1>2, <1>4, <1>5, <1>6, <1>7, <1>8 DEF PathNodes, hn, s

\* Two disjoint sets, and what one leaves of another.
LEMMA Counting ==
  ASSUME NEW S, IsFiniteSet(S), NEW T, IsFiniteSet(T)
  PROVE  /\ Cardinality(S) \in Nat /\ Cardinality(T) \in Nat
         /\ S \cap T = {} => /\ IsFiniteSet(S \cup T)
                             /\ Cardinality(S \cup T) = Cardinality(S) + Cardinality(T)
         /\ T \subseteq S => /\ IsFiniteSet(S \ T)
                             /\ Cardinality(S \ T) = Cardinality(S) - Cardinality(T)
<1>1. Cardinality(S) \in Nat /\ Cardinality(T) \in Nat
  BY FS_CardinalityType
<1>2. ASSUME S \cap T = {}
      PROVE  IsFiniteSet(S \cup T) /\ Cardinality(S \cup T) = Cardinality(S) + Cardinality(T)
  <2>1. /\ IsFiniteSet(S \cup T)
        /\ Cardinality(S \cup T) = Cardinality(S) + Cardinality(T) - Cardinality(S \cap T)
    BY FS_Union
  <2>2. Cardinality(S \cap T) = 0
    BY <1>2, FS_EmptySet
  <2> QED
    BY <1>1, <2>1, <2>2
<1>3. ASSUME T \subseteq S
      PROVE  IsFiniteSet(S \ T) /\ Cardinality(S \ T) = Cardinality(S) - Cardinality(T)
  <2>1. IsFiniteSet(S \ T) /\ Cardinality(S \ T) = Cardinality(S) - Cardinality(S \cap T)
    BY FS_Difference
  <2>2. S \cap T = T
    BY <1>3
  <2> QED
    BY <2>1, <2>2
<1> QED
  BY <1>1, <1>2, <1>3

\* As many leaves are on the hidden paths as are hidden.
LEMMA HiddenLeafCount ==
  ASSUME NEW hid \in OpeningSets, NEW hn, PathNodes(hid, hn)
  PROVE  LET L == {k \in hn : IsLeaf(k)} IN IsFiniteSet(L) /\ Cardinality(L) = TAU
<1> DEFINE L == {k \in hn : IsLeaf(k)}
           f == [x \in hid |-> LeafPosition(x)]
<1>1. hid \subseteq Leaves /\ IsFiniteSet(hid) /\ Cardinality(hid) = TAU
  BY OpeningSetFacts
<1>2. \A x \in hid : LeafPosition(x) \in L /\ FromLeafPosition(LeafPosition(x)) = x
  BY <1>1, Positions DEF PathNodes
<1>3. f \in [hid -> L]
  BY <1>2
<1>4. \A x, y \in hid : f[x] = f[y] => x = y
  BY <1>2
<1>5. \A t \in L : \E x \in hid : f[x] = t
  BY DEF PathNodes
<1> HIDE DEF L, f
<1>6. IsFiniteSet(L) /\ Cardinality(L) = Cardinality(hid)
  BY <1>1, <1>3, <1>4, <1>5, SameSize
<1> QED
  BY <1>1, <1>6 DEF L

\* The size computed for an opening is the number of subtrees that hang off the
\* hidden paths.
LEMMA FrontierSize ==
  ASSUME NEW hid \in OpeningSets, NEW hn, hn = ToSet(GetSensitiveNodeIndexes(hid))
  PROVE  /\ Cardinality(hn) = Len(GetSensitiveNodeIndexes(hid))
         /\ OpeningSize(hid) = Cardinality({k \in Nodes \ hn : k \div 2 \in hn})
<1> DEFINE s == GetSensitiveNodeIndexes(hid)
           L == {k \in hn : IsLeaf(k)}
           I == {k \in hn : ~IsLeaf(k)}
           Ev == {2 * k : k \in I}
           Od == {2 * k + 1 : k \in I}
           C == {k \in Nodes : k \div 2 \in hn}
           U == hn \ {1}
           F == {k \in Nodes \ hn : k \div 2 \in hn}
<1>1. hid \subseteq Leaves /\ hid # {} /\ IsFiniteSet(hid) /\ Cardinality(hid) = TAU
  BY OpeningSetFacts
<1>2. PathNodes(hid, hn)
  BY <1>1, SensitivePaths
<1>3. /\ hn \subseteq Nodes /\ IsFiniteSet(hn) /\ 1 \in hn
      /\ \A k \in hn : k > 1 => k \div 2 \in hn
      /\ \A k \in hn : IsLeaf(k) => \E x \in hid : k = LeafPosition(x)
      /\ \A x \in hid : LeafPosition(x) \in hn
  BY <1>1, <1>2 DEF PathNodes
<1>4. Cardinality(hn) = Len(s)
  BY <1>1, SensitiveNodes, CountEntries
<1>5. IsFiniteSet(L) /\ Cardinality(L) = TAU
  BY <1>2, HiddenLeafCount
<1>6. IsFiniteSet(I) /\ Cardinality(I) = Cardinality(hn) - TAU
  <2>1. I = hn \ L /\ L \subseteq hn
    OBVIOUS
  <2> HIDE DEF L, I
  <2> QED
    BY <1>3, <1>5, <2>1, Counting
<1>7. I \subseteq Nat \ {0} /\ I \subseteq Nodes
  BY <1>3, NodesSmall
<1>8. IsFiniteSet(Ev) /\ Cardinality(Ev) = Cardinality(I)
  <2> DEFINE f == [k \in I |-> 2 * k]
  <2>1. f \in [I -> Ev] /\ \A t \in Ev : \E x \in I : f[x] = t
    OBVIOUS
  <2>2. \A x, y \in I : f[x] = f[y] => x = y
    BY <1>7
  <2> HIDE DEF I, Ev, f
  <2> QED
    BY <1>6, <2>1, <2>2, SameSize
<1>9. IsFiniteSet(Od) /\ Cardinality(Od) = Cardinality(I)
  <2> DEFINE f == [k \in I |-> 2 * k + 1]
  <2>1. f \in [I -> Od] /\ \A t \in Od : \E x \in I : f[x] = t
    OBVIOUS
  <2>2. \A x, y \in I : f[x] = f[y] => x = y
    BY <1>7
  <2> HIDE DEF I, Od, f
  <2> QED
    BY <1>6, <2>1, <2>2, SameSize
<1>10. C = Ev \cup Od
  <2>1. ASSUME NEW k \in I PROVE 2 * k \in C /\ 2 * k + 1 \in C
    <3>1. k \in Nat /\ k \in hn /\ 2 * k \in Nodes /\ 2 * k + 1 \in Nodes
      BY <1>7, NodesSmall
    <3>2. (2 * k) \div 2 = k /\ (2 * k + 1) \div 2 = k
      BY <3>1
    <3> QED
      BY <3>1, <3>2
  <2>2. ASSUME NEW k \in C PROVE k \in Ev \cup Od
    <3> DEFINE g == k \div 2
    <3>1. k \in Nat \ {0} /\ k \in Nodes /\ g \in hn /\ g \in Nodes /\ g \in Nat
      BY <1>3, NodesSmall
    <3>2. k = 2 * g \/ k = 2 * g + 1
      BY <3>1
    <3> HIDE DEF g
    <3>3. ~IsLeaf(g)
      BY <3>1, <3>2, Sizes DEF Nodes, IsLeaf
    <3> QED
      BY <3>1, <3>2, <3>3
  <2> QED
    BY <2>1, <2>2
<1>11. Ev \cap Od = {}
  BY <1>7
<1>12. IsFiniteSet(C) /\ Cardinality(C) = 2 * (Cardinality(hn) - TAU)
  <2> HIDE DEF Ev, Od, C, I
  <2>1. IsFiniteSet(C) /\ Cardinality(C) = Cardinality(Ev) + Cardinality(Od)
    BY <1>8, <1>9, <1>10, <1>11, Counting
  <2>2. Cardinality(I) \in Nat
    BY <1>6, FS_CardinalityType
  <2> QED
    BY <1>6, <1>8, <1>9, <2>1, <2>2
<1>13. IsFiniteSet(U) /\ Cardinality(U) = Cardinality(hn) - 1
  BY <1>3, FS_RemoveElement
<1>14. U \subseteq C /\ F = C \ U
  <2>1. U \subseteq C
    <3> SUFFICES ASSUME NEW k \in U PROVE k \in C
      OBVIOUS
    <3>1. k > 1 /\ k \in hn /\ k \in Nodes
      BY <1>3, NodesSmall
    <3> QED
      BY <1>3, <3>1
  <2>2. 1 \notin C
    <3>1. 1 \div 2 = 0 /\ 0 \notin hn
      BY <1>3, NodesSmall
    <3> QED
      BY <3>1
  <2> QED
    BY <2>1, <2>2
<1>15. Cardinality(F) = Cardinality(C) - Cardinality(U)
  <2> HIDE DEF F, C, U
  <2> QED
    BY <1>12, <1>13, <1>14, Counting
<1>16. OpeningSize(hid) = Len(s) - 2 * TAU + 1
  BY DEF OpeningSize
<1>17. Cardinality(hn) \in Nat /\ TAU \in Nat
  BY <1>3, FS_CardinalityType, Sizes
<1> HIDE DEF F, C, U, s
<1>18. OpeningSize(hid) = Cardinality(F)
  BY <1>4, <1>12, <1>13, <1>15, <1>16, <1>17
<1> QED
  BY <1>4, <1>18 DEF F, s

\* The challenge and its nodes are chosen once.
HiddenInv ==
  /\ hidden \in OpeningSets \cup {{}}
  /\ hidden_nodes = ToSet(GetSensitiveNodeIndexes(hidden))

\* What they are: the ancestors of the hidden leaves.
LEMMA HiddenPaths == HiddenInv => PathNodes(hidden, hidden_nodes) /\ hidden \subseteq Leaves
BY SensitivePaths, OpeningSetFacts DEF HiddenInv

\* GetSensitiveNodeIndexes finds each of them once, and the size computed for the
\* opening is that of the frontier.
LEMMA HiddenExact == HiddenInv => SensitiveNodesExact
<1> SUFFICES ASSUME HiddenInv, hidden # {} PROVE SensitiveNodesExact
  BY DEF SensitiveNodesExact
<1>1. hidden \in OpeningSets /\ hidden \subseteq Leaves
  BY HiddenPaths DEF HiddenInv
<1>2. hidden_nodes = UNION {Ancestors(LeafPosition(i)) : i \in hidden}
  BY HiddenPaths DEF PathNodes, Under
<1> QED
  BY <1>1, <1>2, FrontierSize DEF HiddenInv, SensitiveNodesExact

-----------------------------------------------------------------------------
(***************************************************************************)
(* Stacks of nodes.                                                        *)
(***************************************************************************)

\* Sequence u is s with the two elements a and b in place of its top one.
Replaced(u, S, s, a, b) ==
  /\ u \in Seq(S) /\ Len(u) = Len(s) + 1
  /\ \A i \in 1 .. Len(s) - 1 : u[i] = s[i]
  /\ u[Len(s)] = a /\ u[Len(s) + 1] = b

\* Two elements pushed in place of the top one.
LEMMA TwoOnTop ==
  ASSUME NEW S, NEW s \in Seq(S), s # <<>>, NEW a \in S, NEW b \in S
  PROVE  Replaced(Front(s) \o <<a, b>>, S, s, a, b)
<1> DEFINE f == Front(s)
           p == <<a, b>>
           u == f \o p
<1>1. Len(s) \in Nat \ {0} /\ f \in Seq(S) /\ Len(f) = Len(s) - 1
      /\ \A i \in 1 .. Len(s) - 1 : f[i] = s[i]
  BY FrontLast
<1>2. p \in Seq(S) /\ Len(p) = 2 /\ p[1] = a /\ p[2] = b
  OBVIOUS
<1> HIDE DEF f, p
<1>3. /\ u \in Seq(S) /\ Len(u) = Len(f) + 2
      /\ \A i \in 1..Len(f) : u[i] = f[i]
      /\ \A i \in 1..2 : u[Len(f) + i] = p[i]
  <2>0. f \in Seq(S) /\ p \in Seq(S)
    BY <1>1, <1>2
  <2>1. /\ u \in Seq(S) /\ Len(u) = Len(f) + Len(p)
        /\ \A i \in 1..Len(f) : u[i] = f[i]
        /\ \A i \in 1..Len(p) : u[Len(f) + i] = p[i]
    BY <2>0, Joined
  <2> HIDE DEF u
  <2> QED
    BY <1>2, <2>1
<1> HIDE DEF u
<1>4. u[Len(f) + 1] = a /\ u[Len(f) + 2] = b
  BY <1>2, <1>3
<1>5. Len(f) + 1 = Len(s) /\ Len(f) + 2 = Len(s) + 1
  BY <1>1
<1>6. /\ u \in Seq(S) /\ Len(u) = Len(s) + 1
      /\ \A i \in 1 .. Len(s) - 1 : u[i] = s[i]
      /\ u[Len(s)] = a /\ u[Len(s) + 1] = b
  BY <1>1, <1>3, <1>4, <1>5
<1>7. Replaced(u, S, s, a, b)
  BY <1>6 DEF Replaced
<1> QED
  BY <1>7 DEF u, f, p

\* Two elements in place of the top one.
LEMMA TwoForTop ==
  ASSUME NEW S, NEW s \in Seq(S), s # <<>>, NEW a \in S, NEW b \in S
  PROVE  LET u == Front(s) \o <<a, b>>
         IN  /\ u \in Seq(S) /\ Len(u) = Len(s) + 1
             /\ \A i \in 1 .. Len(s) - 1 : u[i] = s[i]
             /\ u[Len(s)] = a /\ u[Len(s) + 1] = b
<1>1. Replaced(Front(s) \o <<a, b>>, S, s, a, b)
  BY TwoOnTop
<1> QED
  BY <1>1 DEF Replaced

\* Each frame is at least as deep in the tree as it is high in the stack, so that
\* the stack has no more frames than the tree has levels.
Heights(t) ==
  /\ t \in Seq(Nodes) /\ Len(t) <= H + 1
  /\ \A i \in 1 .. Len(t) - 1 : Pow2[i] <= t[i]
  /\ t # <<>> => Pow2[Len(t) - 1] <= t[Len(t)]

\* The leaves of a frame come before those of the frames below it.
Ordered(t) == \A i, j \in 1..Len(t) : i < j => LeavesBefore(t[j], t[i])

\* Both are kept when the top is popped.
LEMMA PopKeeps ==
  ASSUME NEW t \in Seq(Nodes), t # <<>>
  PROVE  /\ Front(t) \in Seq(Nodes)
         /\ Heights(t) => Heights(Front(t))
         /\ Ordered(t) => Ordered(Front(t))
<1> DEFINE u == Front(t)
<1>1. Len(t) \in Nat \ {0} /\ u \in Seq(Nodes) /\ Len(u) = Len(t) - 1
      /\ \A i \in 1 .. Len(t) - 1 : u[i] = t[i]
  BY FrontLast
<1> HIDE DEF u
<1>2. ASSUME Heights(t) PROVE Heights(u)
  <2>1. H \in Nat /\ Len(t) <= H + 1 /\ \A i \in 1 .. Len(t) - 1 : Pow2[i] <= t[i]
    BY <1>2, Sizes DEF Heights
  <2>2. \A i \in 1 .. Len(u) - 1 : Pow2[i] <= u[i]
    BY <1>1, <2>1
  <2>3. ASSUME u # <<>> PROVE Pow2[Len(u) - 1] <= u[Len(u)]
    <3>1. Len(u) \in 1 .. Len(t) - 1 /\ u[Len(u)] = t[Len(u)]
      BY <1>1, <2>3
    <3>2. Pow2[Len(u)] <= u[Len(u)] /\ u[Len(u)] \in Nat
      <4>1. t[Len(u)] \in Nodes
        BY <1>1, <3>1
      <4>2. Pow2[Len(u)] <= t[Len(u)]
        BY <2>1, <3>1
      <4> QED
        BY <3>1, <4>1, <4>2, NodesSmall
    <3>3. Len(u) \in 1..H /\ Len(u) \in 0..H /\ Len(u) - 1 \in 0..H
      BY <1>1, <2>1, <3>1
    <3>4. Pow2[Len(u)] = 2 * Pow2[Len(u) - 1] /\ Pow2[Len(u) - 1] \in Nat
      BY <3>3, Powers
    <3> QED
      BY <3>2, <3>4
  <2>4. Len(u) <= H + 1
    BY <1>1, <2>1
  <2> QED
    BY <1>1, <2>2, <2>3, <2>4 DEF Heights
<1>3. ASSUME Ordered(t) PROVE Ordered(u)
  <2>1. \A i \in 1..Len(u) : i \in 1..Len(t) /\ u[i] = t[i]
    BY <1>1
  <2> QED
    BY <1>3, <2>1 DEF Ordered
<1> QED
  BY <1>1, <1>2, <1>3 DEF u

\* A parent's leaves are its children's.
LEMMA ParentLeaves ==
  ASSUME NEW k \in Nodes, ~IsLeaf(k), NEW n \in Nodes
  PROVE  /\ Under(n, 2 * k) => Under(n, k)
         /\ Under(n, 2 * k + 1) => Under(n, k)
         /\ Under(n, k) => n = k \/ Under(n, 2 * k) \/ Under(n, 2 * k + 1)
         /\ IsLeaf(n) /\ Under(n, k) => Under(n, 2 * k) \/ Under(n, 2 * k + 1)
<1>1. k \in Nat \ {0} /\ 2 * k # 1 /\ 2 * k + 1 # 1
      /\ (2 * k) \div 2 = k /\ (2 * k + 1) \div 2 = k
  BY NodesSmall
<1>2. ASSUME Under(n, 2 * k) PROVE Under(n, k)
  BY <1>1, <1>2, UnderParent
<1>3. ASSUME Under(n, 2 * k + 1) PROVE Under(n, k)
  BY <1>1, <1>3, UnderParent
<1> QED
  BY <1>2, <1>3, UnderChild

\* Both are kept when the children of the top take its place.
LEMMA PushKeeps ==
  ASSUME NEW t \in Seq(Nodes), t # <<>>, ~IsLeaf(Last(t)),
         NEW u, u = Front(t) \o <<2 * Last(t) + 1, 2 * Last(t)>>
  PROVE  /\ u \in Seq(Nodes)
         /\ Heights(t) => Heights(u)
         /\ Ordered(t) => Ordered(u)
<1> DEFINE k == Last(t)
           L == Len(t)
<1>1. L \in Nat \ {0} /\ k \in Nodes /\ k = t[L] /\ \A i \in 1..L : t[i] \in Nodes
  BY FrontLast
<1>2. k \in Nat \ {0} /\ 2 * k \in Nodes /\ 2 * k + 1 \in Nodes /\ ~IsLeaf(k)
  BY <1>1, NodesSmall
<1>3. /\ u \in Seq(Nodes) /\ Len(u) = L + 1
      /\ \A i \in 1 .. L - 1 : u[i] = t[i]
      /\ u[L] = 2 * k + 1 /\ u[L + 1] = 2 * k
  BY <1>2, TwoForTop
<1> HIDE DEF k, L
<1>4. ASSUME Heights(t) PROVE Heights(u)
  <2>1. /\ H \in Nat /\ L <= H + 1 /\ (\A i \in 1 .. L - 1 : Pow2[i] <= t[i])
        /\ Pow2[L - 1] <= k
    BY <1>1, <1>4, Sizes DEF Heights, L
  <2>2. L <= H
    <3>1. SUFFICES ASSUME L = H + 1 PROVE FALSE
      BY <1>1, <2>1
    <3>2. L - 1 = H /\ TwoH <= k
      BY <1>1, <2>1, <3>1, Sizes
    <3> QED
      BY <1>2, <3>2, Sizes DEF IsLeaf
  <2>3. L \in 1..H /\ L - 1 \in 0..H /\ Pow2[L] = 2 * Pow2[L - 1] /\ Pow2[L - 1] \in Nat
    <3>1. L \in 1..H /\ L - 1 \in 0..H
      BY <1>1, <2>1, <2>2
    <3> QED
      BY <3>1, Powers
  <2>4. Pow2[L] <= 2 * k /\ Pow2[L] <= 2 * k + 1
    BY <1>2, <2>1, <2>3
  <2>5. \A i \in 1 .. Len(u) - 1 : Pow2[i] <= u[i]
    <3> SUFFICES ASSUME NEW i \in 1..L PROVE Pow2[i] <= u[i]
      BY <1>1, <1>3
    <3>1. CASE i = L
      BY <1>3, <2>4, <3>1
    <3>2. CASE i # L
      BY <1>1, <1>3, <2>1, <3>2
    <3> QED
      BY <3>1, <3>2
  <2>6. Pow2[Len(u) - 1] <= u[Len(u)]
    <3>0. Len(u) - 1 = L /\ Len(u) = L + 1
      BY <1>1, <1>3
    <3>1. Len(u) - 1 = L /\ u[Len(u)] = 2 * k
      BY <1>3, <3>0
    <3> QED
      BY <2>4, <3>1
  <2>7. Len(u) <= H + 1
    BY <1>1, <1>3, <2>1, <2>2
  <2> QED
    BY <1>3, <2>5, <2>6, <2>7 DEF Heights
<1>5. ASSUME Ordered(t) PROVE Ordered(u)
  <2>1. ASSUME NEW n \in Nodes, Under(n, 2 * k) \/ Under(n, 2 * k + 1) PROVE Under(n, k)
    BY <1>1, <1>2, <2>1, ParentLeaves
  <2>2. LeavesBefore(2 * k, 2 * k + 1)
    BY <1>1, <1>2, SiblingOrder
  <2>3. ASSUME NEW i \in 1 .. L - 1
        PROVE  LeavesBefore(2 * k, t[i]) /\ LeavesBefore(2 * k + 1, t[i])
    <3>1. i \in 1..L /\ L \in 1..L /\ i < L
      BY <1>1
    <3>2. LeavesBefore(k, t[i])
      BY <1>1, <1>5, <3>1 DEF Ordered, L
    <3> QED
      BY <2>1, <3>2, Positions DEF LeavesBefore
  <2> SUFFICES ASSUME NEW i \in 1..L+1, NEW j \in 1..L+1, i < j
               PROVE  LeavesBefore(u[j], u[i])
    BY <1>3 DEF Ordered
  <2>4. CASE j < L
    <3>1. i \in 1..L /\ j \in 1..L /\ u[i] = t[i] /\ u[j] = t[j]
      BY <1>1, <1>3, <2>4
    <3> QED
      BY <1>5, <3>1 DEF Ordered, L
  <2>5. CASE j = L \/ j = L + 1
    <3>1. CASE i < L
      <4>1. i \in 1 .. L - 1 /\ u[i] = t[i] /\ (u[j] = 2 * k \/ u[j] = 2 * k + 1)
        BY <1>1, <1>3, <2>5, <3>1
      <4> QED
        BY <2>3, <4>1
    <3>2. CASE ~(i < L)
      <4>1. i = L /\ j = L + 1
        BY <1>1, <2>5, <3>2
      <4> QED
        BY <1>3, <2>2, <4>1
    <3> QED
      BY <3>1, <3>2
  <2>6. j < L \/ j = L \/ j = L + 1
    BY <1>1
  <2> QED
    BY <2>4, <2>5, <2>6
<1> QED
  BY <1>3, <1>4, <1>5

\* No frame of such a stack is in the subtree of another.
LEMMA Apart ==
  ASSUME NEW t \in Seq(Nodes), Ordered(t), NEW i \in 1..Len(t), NEW j \in 1..Len(t),
         NEW n \in Nodes, Under(n, t[i]), Under(n, t[j])
  PROVE  i = j
<1>1. Len(t) \in Nat /\ t[i] \in Nodes /\ t[j] \in Nodes
  OBVIOUS
<1>2. PICK l \in Leaves : Under(LeafPosition(l), n)
  BY HasLeaf
<1>3. Under(LeafPosition(l), t[i]) /\ Under(LeafPosition(l), t[j]) /\ l \in Nat
  BY <1>2, Positions, UnderTransitive DEF Leaves
<1>4. i < j => l < l
  BY <1>3 DEF Ordered, LeavesBefore
<1>5. j < i => l < l
  BY <1>3 DEF Ordered, LeavesBefore
<1> QED
  BY <1>1, <1>3, <1>4, <1>5

-----------------------------------------------------------------------------
(***************************************************************************)
(* The walk of an opening.                                                 *)
(***************************************************************************)

\* What is above a node of a hidden path is on one.
LEMMA PathUp ==
  ASSUME NEW hid, hid \subseteq Leaves, NEW hn, PathNodes(hid, hn),
         NEW g \in hn, NEW f, Under(g, f)
  PROVE  f \in hn
<1>1. PICK x \in hid : Under(LeafPosition(x), g)
  BY DEF PathNodes
<1>2. Under(LeafPosition(x), f)
  BY <1>1, Positions, UnderTransitive
<1> QED
  BY <1>2 DEF PathNodes

\* The subtrees that hang off the hidden paths, or parts of them, of which nothing
\* has been revealed when the stack is t: its frames that are on no hidden path, and
\* those below a frame that is on one.
Pending(hn, t) ==
  {f \in Nodes \ hn : \E i \in 1..Len(t) : f = t[i] \/ (f \div 2 \in hn /\ Under(f, t[i]))}

\* A pending node not above which something is hidden.
LEMMA PendingBelow ==
  ASSUME NEW hid, hid \subseteq Leaves, NEW hn, PathNodes(hid, hn), NEW k \in Nodes \ hn,
         NEW f \in Nodes \ hn, f = k \/ (f \div 2 \in hn /\ Under(f, k))
  PROVE  f = k
<1> SUFFICES ASSUME f # k PROVE FALSE
  OBVIOUS
<1>1. f \div 2 \in hn /\ Under(f \div 2, k)
  BY UnderOfParent
<1> QED
  BY <1>1, PathUp

\* Popping a node on no hidden path settles it, popping a hidden leaf nothing.
LEMMA PendingPop ==
  ASSUME NEW hid, hid \subseteq Leaves, NEW hn, PathNodes(hid, hn),
         NEW t \in Seq(Nodes), t # <<>>, Ordered(t)
  PROVE  /\ Last(t) \notin hn => /\ Last(t) \in Pending(hn, t)
                                 /\ Pending(hn, Front(t)) = Pending(hn, t) \ {Last(t)}
         /\ Last(t) \in hn /\ IsLeaf(Last(t)) => Pending(hn, Front(t)) = Pending(hn, t)
<1> DEFINE k == Last(t)
           L == Len(t)
           u == Front(t)
           P(f, i) == f = t[i] \/ (f \div 2 \in hn /\ Under(f, t[i]))
<1>1. /\ L \in Nat \ {0} /\ k \in Nodes /\ k = t[L] /\ (\A i \in 1..L : t[i] \in Nodes)
      /\ u \in Seq(Nodes) /\ Len(u) = L - 1 /\ \A i \in 1 .. L - 1 : u[i] = t[i]
  BY FrontLast
<1>2. Pending(hn, t) = {f \in Nodes \ hn : \E i \in 1..L : P(f, i)}
  BY DEF Pending
<1>3. Pending(hn, u) = {f \in Nodes \ hn : \E i \in 1 .. L - 1 : P(f, i)}
  BY <1>1 DEF Pending
<1>4. \A i \in 1..L : i = L \/ i \in 1 .. L - 1
  BY <1>1
<1>5. \A i \in 1 .. L - 1 : i \in 1..L /\ i # L
  BY <1>1
<1>6. L \in 1..L
  BY <1>1
<1>7. ASSUME NEW i \in 1 .. L - 1 PROVE ~P(k, i)
  <2>1. SUFFICES ASSUME P(k, i) PROVE FALSE
    OBVIOUS
  <2>2. Under(k, t[i]) /\ Under(k, t[L])
    BY <1>1, <2>1, UnderSelf
  <2>3. i = L
    BY <1>1, <1>5, <1>6, <2>2, Apart DEF L
  <2> QED
    BY <1>5, <2>3
<1> HIDE DEF k, L, u
<1>8. ASSUME k \notin hn
      PROVE  k \in Pending(hn, t) /\ Pending(hn, u) = Pending(hn, t) \ {k}
  <2>1. k \in Pending(hn, t)
    BY <1>1, <1>2, <1>6, <1>8
  <2>2. \A f \in Nodes \ hn : P(f, L) => f = k
    BY <1>1, <1>8, PendingBelow
  <2> HIDE DEF P
  <2> QED
    BY <1>2, <1>3, <1>4, <1>5, <1>7, <2>1, <2>2
<1>9. ASSUME k \in hn, IsLeaf(k) PROVE Pending(hn, u) = Pending(hn, t)
  <2>1. \A f \in Nodes \ hn : ~P(f, L)
    BY <1>1, <1>9, UnderChild
  <2> HIDE DEF P
  <2> QED
    BY <1>2, <1>3, <1>4, <1>5, <2>1
<1> QED
  BY <1>8, <1>9 DEF k, u

\* Expanding a node on a hidden path changes nothing, expanding another one puts its
\* children in its place.
LEMMA PendingPush ==
  ASSUME NEW hid, hid \subseteq Leaves, NEW hn, PathNodes(hid, hn),
         NEW t \in Seq(Nodes), t # <<>>, Ordered(t), ~IsLeaf(Last(t)),
         NEW u, u = Front(t) \o <<2 * Last(t) + 1, 2 * Last(t)>>
  PROVE  /\ Last(t) \in hn => Pending(hn, u) = Pending(hn, t)
         /\ Last(t) \notin hn =>
              /\ Last(t) \in Pending(hn, t)
              /\ 2 * Last(t) \notin Pending(hn, t) /\ 2 * Last(t) + 1 \notin Pending(hn, t)
              /\ Pending(hn, u) =
                   (Pending(hn, t) \ {Last(t)}) \cup {2 * Last(t), 2 * Last(t) + 1}
<1> DEFINE k == Last(t)
           L == Len(t)
           P(f, n) == f = n \/ (f \div 2 \in hn /\ Under(f, n))
<1>1. L \in Nat \ {0} /\ k \in Nodes /\ k = t[L] /\ (\A i \in 1..L : t[i] \in Nodes)
  BY FrontLast
<1>2. k \in Nat \ {0} /\ 2 * k \in Nodes /\ 2 * k + 1 \in Nodes /\ ~IsLeaf(k)
  BY <1>1, NodesSmall
<1>3. /\ u \in Seq(Nodes) /\ Len(u) = L + 1
      /\ \A i \in 1 .. L - 1 : u[i] = t[i]
      /\ u[L] = 2 * k + 1 /\ u[L + 1] = 2 * k
  BY <1>2, TwoForTop
<1> HIDE DEF k, L
<1>4. /\ \A i \in 1..L : i = L \/ i \in 1 .. L - 1
      /\ \A i \in 1..L+1 : i = L \/ i = L + 1 \/ i \in 1 .. L - 1
      /\ \A i \in 1 .. L - 1 : i \in 1..L /\ i \in 1..L+1 /\ i # L
      /\ L \in 1..L /\ L \in 1..L+1 /\ L + 1 \in 1..L+1
  BY <1>1
<1> DEFINE Q(f) == \E i \in 1 .. L - 1 : P(f, t[i])
<1>5. \A f : f \in Pending(hn, t) <=> f \in Nodes \ hn /\ (Q(f) \/ P(f, k))
  <2>1. Pending(hn, t) = {f \in Nodes \ hn : \E i \in 1..L : P(f, t[i])}
    BY DEF Pending, L
  <2> HIDE DEF P
  <2> QED
    BY <1>1, <1>4, <2>1
<1>6. \A f : f \in Pending(hn, u) <=>
               f \in Nodes \ hn /\ (Q(f) \/ P(f, 2 * k) \/ P(f, 2 * k + 1))
  <2>1. Pending(hn, u) = {f \in Nodes \ hn : \E i \in 1..L+1 : P(f, u[i])}
    BY <1>3 DEF Pending
  <2> HIDE DEF P
  <2> QED
    BY <1>3, <1>4, <2>1
<1>7. (2 * k) \div 2 = k /\ (2 * k + 1) \div 2 = k /\ 2 * k > 1 /\ 2 * k + 1 > 1
      /\ 2 * k # k /\ 2 * k + 1 # k
  BY <1>2
<1>8. Under(2 * k, k) /\ Under(2 * k + 1, k) /\ Under(k, k)
  BY <1>1, <1>2, UnderSelf, ParentLeaves
<1>9. ASSUME NEW n \in Nodes, Under(n, k) PROVE ~Q(n)
  <2>1. SUFFICES ASSUME NEW i \in 1 .. L - 1, P(n, t[i]) PROVE FALSE
    OBVIOUS
  <2>2. Under(n, t[i]) /\ Under(n, t[L])
    BY <1>1, <1>9, <2>1, UnderSelf
  <2>3. i = L
    BY <1>1, <1>4, <2>2, Apart DEF L
  <2> QED
    BY <1>4, <2>3
<1> HIDE DEF Q
<1>10. ASSUME k \in hn PROVE Pending(hn, u) = Pending(hn, t)
  <2>1. ASSUME NEW f \in Nodes \ hn PROVE P(f, k) <=> P(f, 2 * k) \/ P(f, 2 * k + 1)
    <3>1. f # k
      BY <1>10
    <3>2. Under(f, k) => Under(f, 2 * k) \/ Under(f, 2 * k + 1)
      BY <1>1, <1>2, <3>1, ParentLeaves
    <3>3. Under(f, 2 * k) \/ Under(f, 2 * k + 1) => Under(f, k)
      BY <1>1, <1>2, ParentLeaves
    <3>4. P(f, k) => P(f, 2 * k) \/ P(f, 2 * k + 1)
      BY <3>1, <3>2
    <3>5. P(f, 2 * k) => P(f, k)
      BY <1>7, <1>8, <1>10, <3>3
    <3>6. P(f, 2 * k + 1) => P(f, k)
      BY <1>7, <1>8, <1>10, <3>3
    <3> QED
      BY <3>4, <3>5, <3>6
  <2> HIDE DEF P
  <2> QED
    BY <1>5, <1>6, <2>1
<1>11. ASSUME k \notin hn
       PROVE  /\ k \in Pending(hn, t)
              /\ 2 * k \notin Pending(hn, t) /\ 2 * k + 1 \notin Pending(hn, t)
              /\ Pending(hn, u) = (Pending(hn, t) \ {k}) \cup {2 * k, 2 * k + 1}
  <2>1. 2 * k \notin hn /\ 2 * k + 1 \notin hn
    BY <1>2, <1>8, <1>11, PathUp
  <2>2. \A f \in Nodes \ hn : /\ P(f, k) <=> f = k
                              /\ P(f, 2 * k) <=> f = 2 * k
                              /\ P(f, 2 * k + 1) <=> f = 2 * k + 1
    <3>1. ASSUME NEW n \in Nodes \ hn, NEW f \in Nodes \ hn PROVE P(f, n) <=> f = n
      BY PendingBelow
    <3>2. k \in Nodes \ hn /\ 2 * k \in Nodes \ hn /\ 2 * k + 1 \in Nodes \ hn
      BY <1>1, <1>2, <1>11, <2>1
    <3> HIDE DEF P
    <3> QED
      BY <3>1, <3>2
  <2>3. ~Q(k) /\ ~Q(2 * k) /\ ~Q(2 * k + 1)
    BY <1>1, <1>2, <1>8, <1>9
  <2> HIDE DEF P
  <2> QED
    BY <1>1, <1>2, <1>5, <1>6, <1>7, <1>11, <2>1, <2>2, <2>3
<1> QED
  BY <1>10, <1>11 DEF k

\* A node below a frame of the stack.
Covered(t, n) == \E i \in 1..Len(t) : Under(n, t[i])

\* What popping the top uncovers, and that expanding it uncovers no leaf.
LEMMA Covers ==
  ASSUME NEW t \in Seq(Nodes), t # <<>>, NEW n \in Nodes
  PROVE  /\ Covered(t, n) <=> Covered(Front(t), n) \/ Under(n, Last(t))
         /\ ~IsLeaf(Last(t)) /\ IsLeaf(n) =>
              (Covered(t, n) <=> Covered(Front(t) \o <<2 * Last(t) + 1, 2 * Last(t)>>, n))
         /\ IsLeaf(Last(t)) /\ Under(n, Last(t)) => n = Last(t)
<1> DEFINE k == Last(t)
           L == Len(t)
           f == Front(t)
           u == f \o <<2 * k + 1, 2 * k>>
           Q == \E i \in 1 .. L - 1 : Under(n, t[i])
<1>1. /\ L \in Nat \ {0} /\ k \in Nodes /\ k = t[L]
      /\ Len(f) = L - 1 /\ \A i \in 1 .. L - 1 : f[i] = t[i]
  BY FrontLast
<1>2. Covered(f, n) <=> Q
  BY <1>1 DEF Covered
<1>3. Covered(t, n) <=> Q \/ Under(n, k)
  <2>1. \A i \in 1..L : i = L \/ i \in 1 .. L - 1
    BY <1>1
  <2>2. \A i \in 1 .. L - 1 : i \in 1..L
    BY <1>1
  <2>3. L \in 1..L
    BY <1>1
  <2> HIDE DEF k
  <2> QED
    BY <1>1, <2>1, <2>2, <2>3 DEF Covered
<1>4. ASSUME ~IsLeaf(k), IsLeaf(n) PROVE Covered(u, n) <=> Covered(t, n)
  <2>1. 2 * k \in Nodes /\ 2 * k + 1 \in Nodes
    BY <1>1, <1>4, NodesSmall
  <2>2. /\ Len(u) = L + 1
        /\ \A i \in 1 .. L - 1 : u[i] = t[i]
        /\ u[L] = 2 * k + 1 /\ u[L + 1] = 2 * k
    BY <2>1, TwoForTop
  <2>3. /\ \A i \in 1..L+1 : i = L \/ i = L + 1 \/ i \in 1 .. L - 1
        /\ \A i \in 1 .. L - 1 : i \in 1..L+1
        /\ L \in 1..L+1 /\ L + 1 \in 1..L+1
    BY <1>1
  <2> HIDE DEF k, u, L
  <2>4. Covered(u, n) <=> Q \/ Under(n, 2 * k + 1) \/ Under(n, 2 * k)
    BY <2>2, <2>3 DEF Covered
  <2>5. Under(n, k) <=> Under(n, 2 * k + 1) \/ Under(n, 2 * k)
    BY <1>1, <1>4, ParentLeaves
  <2> QED
    BY <1>3, <2>4, <2>5
<1>5. ASSUME IsLeaf(k), Under(n, k) PROVE n = k
  BY <1>5, UnderChild
<1> QED
  BY <1>2, <1>3, <1>4, <1>5

\* One round, case by case.
LEMMA WalkCases ==
  ASSUME NEW hn, NEW acc, acc \in [stack : Seq(Nodes), nodes : Seq(Nodes), size : Int],
         NEW new, new = WalkRound(hn, acc)
  PROVE  \/ acc.stack = <<>> /\ new = acc
         \/ /\ acc.stack # <<>> /\ Revealed(hn, Last(acc.stack), acc.size)
            /\ new = [stack |-> Front(acc.stack), size |-> acc.size,
                      nodes |-> Append(acc.nodes, Last(acc.stack))]
         \/ /\ acc.stack # <<>> /\ IsLeaf(Last(acc.stack)) /\ Last(acc.stack) \in hn
            /\ new = [stack |-> Front(acc.stack), size |-> acc.size, nodes |-> acc.nodes]
         \/ /\ acc.stack # <<>> /\ ~IsLeaf(Last(acc.stack))
            /\ ~Revealed(hn, Last(acc.stack), acc.size)
            /\ Last(acc.stack) \notin hn => acc.size < T_OPEN
            /\ new = [stack |-> Front(acc.stack)
                                  \o <<2 * Last(acc.stack) + 1, 2 * Last(acc.stack)>>,
                      size |-> IF Last(acc.stack) \in hn THEN acc.size ELSE acc.size + 1,
                      nodes |-> acc.nodes]
BY DEF WalkRound, Revealed

\* The walk's bookkeeping: the size is what has been revealed and what is pending,
\* nothing on a hidden path is revealed, and while budget is left every leaf that
\* is not hidden has been revealed itself or is still to be met.
WalkOK(hn, acc) ==
  /\ acc \in [stack : Seq(Nodes), nodes : Seq(Nodes \ hn), size : Int]
  /\ Heights(acc.stack) /\ Ordered(acc.stack)
  /\ acc.size = Len(acc.nodes) + Cardinality(Pending(hn, acc.stack))
  /\ acc.size <= T_OPEN
  /\ acc.size < T_OPEN =>
       \A n \in Nodes \ hn : IsLeaf(n) => n \in ToSet(acc.nodes) \/ Covered(acc.stack, n)

\* The pending nodes are finitely many.
LEMMA PendingFinite ==
  ASSUME NEW hn, NEW t
  PROVE  IsFiniteSet(Pending(hn, t)) /\ Cardinality(Pending(hn, t)) \in Nat
<1>1. 2 * M - 1 \in Int
  BY Sizes
<1>2. IsFiniteSet(Nodes)
  BY <1>1, FS_Interval DEF Nodes
<1>3. Pending(hn, t) \subseteq Nodes
  BY DEF Pending
<1> QED
  BY <1>2, <1>3, FS_Subset, FS_CardinalityType

\* A node that is revealed fits the path.
LEMMA RevealedFits ==
  ASSUME NEW hid, hid \subseteq Leaves, NEW hn, PathNodes(hid, hn), NEW acc, WalkOK(hn, acc),
         acc.stack # <<>>, Last(acc.stack) \notin hn
  PROVE  Len(acc.nodes) < T_OPEN /\ acc.size > Len(acc.nodes)
<1> DEFINE P == Pending(hn, acc.stack)
<1>1. Last(acc.stack) \in P
  BY PendingPop DEF WalkOK
<1>2. IsFiniteSet(P) /\ Cardinality(P) \in Nat
  BY PendingFinite
<1>3. Cardinality(P) # 0
  <2> HIDE DEF P
  <2> QED
    BY <1>1, <1>2, FS_EmptySet
<1>4. acc.size = Len(acc.nodes) + Cardinality(P) /\ acc.size <= T_OPEN /\ Len(acc.nodes) \in Nat
  BY DEF WalkOK
<1> DEFINE a == Len(acc.nodes)
           c == Cardinality(P)
<1>5. acc.size = a + c /\ a \in Nat /\ c \in Nat /\ c # 0 /\ acc.size <= T_OPEN /\ T_OPEN \in Nat
  BY <1>2, <1>3, <1>4, Sizes
<1> HIDE DEF a, c
<1>6. a < T_OPEN /\ acc.size > a
  BY <1>5
<1> QED
  BY <1>6 DEF a

\* One more entry.
LEMMA AppendFacts ==
  ASSUME NEW S, NEW s \in Seq(S), NEW a \in S
  PROVE  /\ Append(s, a) \in Seq(S) /\ Len(Append(s, a)) = Len(s) + 1 /\ Len(s) \in Nat
         /\ \A i \in 1..Len(s) : Append(s, a)[i] = s[i]
         /\ Append(s, a)[Len(s) + 1] = a
         /\ ToSet(Append(s, a)) = ToSet(s) \cup {a}
<1>1. /\ Append(s, a) \in Seq(S) /\ Len(Append(s, a)) = Len(s) + 1 /\ Len(s) \in Nat
      /\ \A i \in 1..Len(s) : Append(s, a)[i] = s[i]
      /\ Append(s, a)[Len(s) + 1] = a
      /\ DOMAIN s = 1..Len(s) /\ DOMAIN Append(s, a) = 1 .. Len(s) + 1
  OBVIOUS
<1> DEFINE u == Append(s, a)
           L == Len(s)
<1>2. /\ \A i \in 1..L+1 : i = L + 1 \/ i \in 1..L
      /\ \A i \in 1..L : i \in 1..L+1
      /\ L + 1 \in 1..L+1
  BY <1>1
<1>3. ToSet(s) = {s[i] : i \in 1..L} /\ ToSet(u) = {u[i] : i \in 1..L+1}
  BY <1>1 DEF ToSet
<1>4. (\A i \in 1..L : u[i] = s[i]) /\ u[L + 1] = a
  BY <1>1
<1> HIDE DEF u, L
<1>5. ToSet(u) = ToSet(s) \cup {a}
  BY <1>2, <1>3, <1>4
<1> QED
  BY <1>1, <1>5 DEF u

\* A round keeps the bookkeeping.
LEMMA WalkRoundOK ==
  ASSUME NEW hid, hid \subseteq Leaves, NEW hn, PathNodes(hid, hn), NEW acc, WalkOK(hn, acc)
  PROVE  WalkOK(hn, WalkRound(hn, acc))
<1> DEFINE t == acc.stack
           k == Last(t)
           new == WalkRound(hn, acc)
           kids == Front(t) \o <<2 * k + 1, 2 * k>>
<1>1. /\ acc \in [stack : Seq(Nodes), nodes : Seq(Nodes \ hn), size : Int]
      /\ Heights(t) /\ Ordered(t) /\ t \in Seq(Nodes) /\ acc.nodes \in Seq(Nodes \ hn)
      /\ acc.size \in Int /\ Len(acc.nodes) \in Nat
      /\ acc.size = Len(acc.nodes) + Cardinality(Pending(hn, t))
      /\ acc.size <= T_OPEN
      /\ acc.size < T_OPEN =>
           \A n \in Nodes \ hn : IsLeaf(n) => n \in ToSet(acc.nodes) \/ Covered(t, n)
  BY DEF WalkOK
<1>2. acc \in [stack : Seq(Nodes), nodes : Seq(Nodes), size : Int]
  BY <1>1
<1>3. T_OPEN \in Nat
  BY Sizes
<1>4. CASE t = <<>> /\ new = acc
  BY <1>4
<1>5. CASE /\ t # <<>> /\ Revealed(hn, k, acc.size)
           /\ new = [stack |-> Front(t), size |-> acc.size, nodes |-> Append(acc.nodes, k)]
  <2>1. k \in Nodes \ hn /\ (acc.size < T_OPEN => IsLeaf(k))
    BY <1>1, <1>5, FrontLast DEF Revealed
  <2>2. Front(t) \in Seq(Nodes) /\ Heights(Front(t)) /\ Ordered(Front(t))
    BY <1>1, <1>5, PopKeeps
  <2>3. /\ Append(acc.nodes, k) \in Seq(Nodes \ hn)
        /\ Len(Append(acc.nodes, k)) = Len(acc.nodes) + 1
        /\ ToSet(Append(acc.nodes, k)) = ToSet(acc.nodes) \cup {k}
    BY <1>1, <2>1, AppendFacts
  <2>4. Cardinality(Pending(hn, Front(t))) = Cardinality(Pending(hn, t)) - 1
        /\ Cardinality(Pending(hn, t)) \in Nat
    <3>1. k \in Pending(hn, t) /\ Pending(hn, Front(t)) = Pending(hn, t) \ {k}
      BY <1>1, <1>5, <2>1, PendingPop
    <3>2. IsFiniteSet(Pending(hn, t)) /\ Cardinality(Pending(hn, t)) \in Nat
      BY PendingFinite
    <3>3. Cardinality(Pending(hn, t) \ {k})
            = IF k \in Pending(hn, t) THEN Cardinality(Pending(hn, t)) - 1
                                      ELSE Cardinality(Pending(hn, t))
      BY <3>2, FS_RemoveElement
    <3> QED
      BY <3>1, <3>2, <3>3
  <2>5. ASSUME acc.size < T_OPEN, NEW n \in Nodes \ hn, IsLeaf(n)
        PROVE  n \in ToSet(Append(acc.nodes, k)) \/ Covered(Front(t), n)
    BY <1>1, <1>5, <2>1, <2>3, <2>5, Covers
  <2> HIDE DEF t, k
  <2> QED
    BY <1>1, <1>5, <2>2, <2>3, <2>4, <2>5 DEF WalkOK
<1>6. CASE /\ t # <<>> /\ IsLeaf(k) /\ k \in hn
           /\ new = [stack |-> Front(t), size |-> acc.size, nodes |-> acc.nodes]
  <2>1. Front(t) \in Seq(Nodes) /\ Heights(Front(t)) /\ Ordered(Front(t))
    BY <1>1, <1>6, PopKeeps
  <2>2. Pending(hn, Front(t)) = Pending(hn, t)
    <3>1. t \in Seq(Nodes) /\ t # <<>> /\ Ordered(t) /\ Last(t) \in hn /\ IsLeaf(Last(t))
      BY <1>1, <1>6
    <3> HIDE DEF t
    <3> QED
      BY <3>1, PendingPop
  <2>3. ASSUME acc.size < T_OPEN, NEW n \in Nodes \ hn, IsLeaf(n)
        PROVE  n \in ToSet(acc.nodes) \/ Covered(Front(t), n)
    BY <1>1, <1>6, <2>3, Covers
  <2> HIDE DEF t, k
  <2> QED
    BY <1>1, <1>6, <2>1, <2>2, <2>3 DEF WalkOK
<1>7. CASE /\ t # <<>> /\ ~IsLeaf(k)
           /\ ~Revealed(hn, k, acc.size)
           /\ k \notin hn => acc.size < T_OPEN
           /\ new = [stack |-> kids,
                     size |-> IF k \in hn THEN acc.size ELSE acc.size + 1,
                     nodes |-> acc.nodes]
  <2>1. kids \in Seq(Nodes) /\ Heights(kids) /\ Ordered(kids)
    BY <1>1, <1>7, PushKeeps
  <2>2. ASSUME acc.size < T_OPEN, NEW n \in Nodes \ hn, IsLeaf(n)
        PROVE  n \in ToSet(acc.nodes) \/ Covered(kids, n)
    BY <1>1, <1>7, <2>2, Covers
  <2>3. CASE k \in hn
    <3>1. Pending(hn, kids) = Pending(hn, t)
      BY <1>1, <1>7, <2>3, PendingPush
    <3> HIDE DEF t, k, kids
    <3> QED
      BY <1>1, <1>7, <2>1, <2>2, <2>3, <3>1 DEF WalkOK
  <2>4. CASE k \notin hn
    <3> DEFINE P == Pending(hn, t)
    <3>1. /\ k \in P /\ 2 * k \notin P /\ 2 * k + 1 \notin P
          /\ Pending(hn, kids) = (P \ {k}) \cup {2 * k, 2 * k + 1}
      BY <1>1, <1>7, <2>4, PendingPush
    <3>2. IsFiniteSet(P) /\ Cardinality(P) \in Nat
      BY PendingFinite
    <3>3. k \in Nat
      BY <1>1, <1>7, FrontLast, NodesSmall
    <3> HIDE DEF P, k
    <3>4. IsFiniteSet(P \ {k}) /\ Cardinality(P \ {k}) = Cardinality(P) - 1
      BY <3>1, <3>2, FS_RemoveElement
    <3> DEFINE A == (P \ {k}) \cup {2 * k}
    <3>5. IsFiniteSet(A) /\ Cardinality(A) = (Cardinality(P) - 1) + 1
      BY <3>1, <3>4, FS_AddElement
    <3>6. 2 * k + 1 \notin A /\ (P \ {k}) \cup {2 * k, 2 * k + 1} = A \cup {2 * k + 1}
      BY <3>1, <3>3
    <3> HIDE DEF A
    <3>7. Cardinality(A \cup {2 * k + 1}) = Cardinality(P) + 1
      BY <3>2, <3>5, <3>6, FS_AddElement
    <3>8. Cardinality(Pending(hn, kids)) = Cardinality(P) + 1
      BY <3>1, <3>6, <3>7
    <3> HIDE DEF t, kids
    <3> QED
      BY <1>1, <1>3, <1>7, <2>1, <2>2, <2>4, <3>2, <3>8 DEF WalkOK, P
  <2> QED
    BY <2>3, <2>4
<1>8. \/ t = <<>> /\ new = acc
      \/ /\ t # <<>> /\ Revealed(hn, k, acc.size)
         /\ new = [stack |-> Front(t), size |-> acc.size, nodes |-> Append(acc.nodes, k)]
      \/ /\ t # <<>> /\ IsLeaf(k) /\ k \in hn
         /\ new = [stack |-> Front(t), size |-> acc.size, nodes |-> acc.nodes]
      \/ /\ t # <<>> /\ ~IsLeaf(k)
         /\ ~Revealed(hn, k, acc.size)
         /\ k \notin hn => acc.size < T_OPEN
         /\ new = [stack |-> kids,
                   size |-> IF k \in hn THEN acc.size ELSE acc.size + 1,
                   nodes |-> acc.nodes]
  BY <1>2, WalkCases, Zenon
<1> HIDE DEF t, k, kids
<1> QED
  BY <1>4, <1>5, <1>6, <1>7, <1>8

\* A walk of n rounds.
IsWalk(hn, w, n) ==
  /\ n \in Nat
  /\ w[0] = WalkStart(hn)
  /\ \A i \in 0..n-1 : w[i + 1] = WalkRound(hn, w[i])

\* A walk whose opening fits the budget keeps its bookkeeping to the end.
LEMMA WalksOK ==
  ASSUME NEW hid \in OpeningSets, NEW hn, hn = ToSet(GetSensitiveNodeIndexes(hid)),
         OpeningSize(hid) <= T_OPEN, NEW w, NEW n, IsWalk(hn, w, n)
  PROVE  \A i \in 0..n : WalkOK(hn, w[i])
<1>1. hid \subseteq Leaves /\ hid # {} /\ Cardinality(hid) = TAU
  BY OpeningSetFacts
<1>2. PathNodes(hid, hn)
  BY <1>1, SensitivePaths
<1>3. /\ hn \subseteq Nodes /\ IsFiniteSet(hn) /\ 1 \in hn
  BY <1>1, <1>2 DEF PathNodes
<1>4. WalkOK(hn, w[0])
  <2> DEFINE t == <<1>>
             F == {k \in Nodes \ hn : k \div 2 \in hn}
  <2>1. t \in Seq(Nodes) /\ Len(t) = 1 /\ t[1] = 1 /\ t # <<>>
    BY NodesSmall
  <2>2. Heights(t)
    <3>1. Len(t) <= H + 1 /\ Len(t) - 1 = 0 /\ t[Len(t)] = 1 /\ 1 .. Len(t) - 1 = {}
      BY <2>1, Sizes
    <3>2. Pow2[0] = 1
      BY Powers
    <3> HIDE DEF t
    <3>3. Pow2[Len(t) - 1] <= t[Len(t)]
      <4>1. Pow2[Len(t) - 1] = 1
        BY <3>1, <3>2
      <4> QED
        BY <3>1, <4>1
    <3> QED
      BY <2>1, <3>1, <3>3 DEF Heights
  <2>3. Ordered(t)
    <3>1. \A i, j \in 1..Len(t) : ~(i < j)
      BY <2>1
    <3> HIDE DEF t
    <3> QED
      BY <3>1 DEF Ordered
  <2>4. Pending(hn, t) = F
    <3>1. \A f \in Nodes \ hn : f # 1 /\ Under(f, 1)
      BY <1>3, UnderRoot
    <3> HIDE DEF t
    <3> QED
      BY <2>1, <3>1 DEF Pending
  <2>5. \A f \in Nodes : Covered(t, f)
    <3> HIDE DEF t
    <3> QED
      BY <2>1, UnderRoot DEF Covered
  <2>6. Cardinality(hn) = Len(GetSensitiveNodeIndexes(hid)) /\ OpeningSize(hid) = Cardinality(F)
    BY FrontierSize
  <2> DEFINE size0 == Cardinality(hn) - 2 * TAU + 1
  <2>7. size0 = OpeningSize(hid)
    BY <2>6 DEF OpeningSize
  <2>8. Cardinality(F) \in Nat
    BY <2>4, PendingFinite
  <2> HIDE DEF t, F, size0
  <2>9. w[0] = [stack |-> t, nodes |-> <<>>, size |-> size0]
    BY DEF IsWalk, WalkStart, t, size0
  <2>10. <<>> \in Seq(Nodes \ hn) /\ Len(<<>>) = 0
    OBVIOUS
  <2>11. size0 \in Int /\ size0 = Cardinality(F)
    BY <2>6, <2>7, <2>8
  <2> QED
    BY <2>1, <2>2, <2>3, <2>4, <2>5, <2>7, <2>8, <2>9, <2>10, <2>11 DEF WalkOK
<1> DEFINE Bad == {i \in 0..n : ~WalkOK(hn, w[i])}
<1>5. n \in Nat
  BY DEF IsWalk
<1>6. ASSUME Bad # {} PROVE FALSE
  <2>1. Bad \subseteq Nat
    BY <1>5
  <2> HIDE DEF Bad
  <2>2. PICK i \in Bad : \A m \in Bad : i <= m
    BY <1>6, <2>1, Smallest
  <2>3. i \in 0..n /\ ~WalkOK(hn, w[i])
    BY <2>2 DEF Bad
  <2>4. i # 0
    BY <1>4, <2>3
  <2>5. i - 1 \in 0..n-1 /\ i - 1 \in 0..n /\ (i - 1) + 1 = i /\ i - 1 \notin Bad
    BY <1>5, <2>2, <2>3, <2>4
  <2>6. WalkOK(hn, w[i - 1])
    BY <2>5 DEF Bad
  <2>7. w[(i - 1) + 1] = WalkRound(hn, w[i - 1])
    BY <2>5 DEF IsWalk
  <2> QED
    BY <1>1, <1>2, <2>3, <2>5, <2>6, <2>7, WalkRoundOK
<1> QED
  BY <1>6

\* A walk that has ended has revealed as many nodes as the budget allows: had it
\* revealed fewer, it would have revealed every leaf that is not hidden.
LEMMA WalkEnds ==
  ASSUME NEW hid \in OpeningSets, NEW hn, PathNodes(hid, hn), NEW acc, WalkOK(hn, acc),
         acc.stack = <<>>
  PROVE  Len(acc.nodes) = T_OPEN /\ acc.size = T_OPEN
<1> DEFINE F == {n \in Nodes \ hn : IsLeaf(n)}
           A == {n \in Nodes : IsLeaf(n)}
           L == {n \in hn : IsLeaf(n)}
<1>1. /\ acc.nodes \in Seq(Nodes \ hn) /\ Len(acc.nodes) \in Nat /\ acc.size <= T_OPEN
      /\ acc.size = Len(acc.nodes) + Cardinality(Pending(hn, <<>>))
      /\ acc.size < T_OPEN => F \subseteq ToSet(acc.nodes)
  BY DEF WalkOK, Covered
<1>2. Cardinality(Pending(hn, <<>>)) = 0
  <2>1. Pending(hn, <<>>) = {}
    BY DEF Pending
  <2> QED
    BY <2>1, FS_EmptySet
<1>3. IsFiniteSet(A) /\ Cardinality(A) = M
  <2>1. A = M..2*M-1 /\ M \in Int /\ 2 * M - 1 \in Int
    BY Sizes DEF Nodes, IsLeaf
  <2>2. /\ IsFiniteSet(M..2*M-1)
        /\ Cardinality(M..2*M-1) = IF M > 2 * M - 1 THEN 0 ELSE (2 * M - 1) - M + 1
    BY <2>1, FS_Interval
  <2>3. (IF M > 2 * M - 1 THEN 0 ELSE (2 * M - 1) - M + 1) = M
    BY Sizes
  <2> HIDE DEF A
  <2> QED
    BY <2>1, <2>2, <2>3
<1>4. IsFiniteSet(L) /\ Cardinality(L) = TAU
  BY HiddenLeafCount
<1>5. F = A \ L /\ L \subseteq A
  BY DEF PathNodes
<1>6. IsFiniteSet(F) /\ Cardinality(F) = M - TAU
  <2> HIDE DEF F, A, L
  <2> QED
    BY <1>3, <1>4, <1>5, Counting
<1>7. ASSUME acc.size < T_OPEN PROVE FALSE
  <2>1. /\ IsFiniteSet(ToSet(acc.nodes)) /\ Cardinality(ToSet(acc.nodes)) \in Nat
        /\ Cardinality(ToSet(acc.nodes)) <= Len(acc.nodes)
    BY <1>1, CountEntries
  <2>2. Cardinality(F) <= Cardinality(ToSet(acc.nodes))
    <3> HIDE DEF F
    <3> QED
      BY <1>1, <1>7, <2>1, FS_Subset
  <2>3. T_OPEN <= M - TAU /\ T_OPEN \in Nat /\ M \in Nat /\ TAU \in Nat
    BY Sizes
  <2> HIDE DEF F
  <2> QED
    BY <1>1, <1>2, <1>6, <1>7, <2>1, <2>2, <2>3
<1> HIDE DEF F
<1>9. T_OPEN \in Nat
  BY Sizes
<1> QED
  BY <1>1, <1>2, <1>7, <1>9

\* The entries of r come first in s.
Extends(s, r) == Len(r) <= Len(s) /\ \A i \in 1..Len(r) : s[i] = r[i]

\* What has been revealed stays revealed.
LEMMA WalkPrefix ==
  ASSUME NEW hn, hn \subseteq Nodes, NEW w, NEW n, IsWalk(hn, w, n), \A i \in 0..n : WalkOK(hn, w[i]),
         NEW m \in 0..n
  PROVE  Extends(w[n].nodes, w[m].nodes)
<1> DEFINE Keeps(j) == Extends(w[j].nodes, w[m].nodes)
           Bad == {j \in m..n : ~Keeps(j)}
<1>0. n \in Nat /\ m \in Nat /\ m <= n
  BY DEF IsWalk
<1>1. ASSUME Bad # {} PROVE FALSE
  <2>1. Bad \subseteq Nat
    BY <1>0
  <2> HIDE DEF Bad
  <2>2. PICK j \in Bad : \A z \in Bad : j <= z
    BY <1>1, <2>1, Smallest
  <2>3. j \in m..n /\ ~Keeps(j)
    BY <2>2 DEF Bad
  <2>4. j # m
    <3>1. Len(w[m].nodes) \in Nat
      BY DEF WalkOK
    <3> QED
      BY <2>3, <3>1 DEF Extends
  <2>5. j - 1 \in m..n /\ j - 1 \in 0..n-1 /\ j - 1 \in 0..n /\ (j - 1) + 1 = j /\ j - 1 \notin Bad
    BY <1>0, <2>2, <2>3, <2>4
  <2>6. Keeps(j - 1)
    BY <2>5 DEF Bad
  <2> DEFINE a == w[j - 1]
             b == w[j]
  <2>7. b = WalkRound(hn, a)
    BY <2>5 DEF IsWalk
  <2>8. a \in [stack : Seq(Nodes), nodes : Seq(Nodes), size : Int] /\ WalkOK(hn, a)
    <3>1. WalkOK(hn, a)
      BY <2>5
    <3> QED
      BY <3>1 DEF WalkOK
  <2> HIDE DEF a, b
  <2>9. /\ Len(a.nodes) <= Len(b.nodes) /\ Len(a.nodes) \in Nat /\ Len(b.nodes) \in Nat
        /\ \A i \in 1..Len(a.nodes) : b.nodes[i] = a.nodes[i]
    <3> DEFINE k == Last(a.stack)
               kids == Front(a.stack) \o <<2 * k + 1, 2 * k>>
    <3>0. \/ b = a
          \/ /\ a.stack # <<>>
             /\ b = [stack |-> Front(a.stack), size |-> a.size, nodes |-> Append(a.nodes, k)]
          \/ b = [stack |-> Front(a.stack), size |-> a.size, nodes |-> a.nodes]
          \/ b = [stack |-> kids, size |-> IF k \in hn THEN a.size ELSE a.size + 1,
                  nodes |-> a.nodes]
      BY <2>7, <2>8, WalkCases
    <3> HIDE DEF k, kids
    <3>1. b.nodes = a.nodes \/ (a.stack # <<>> /\ b.nodes = Append(a.nodes, Last(a.stack)))
      BY <3>0 DEF k
    <3>2. a.nodes \in Seq(Nodes) /\ Len(a.nodes) \in Nat
      BY <2>8
    <3>3. a.stack # <<>> => Last(a.stack) \in Nodes
      BY <2>8, FrontLast
    <3>4. CASE b.nodes = a.nodes
      BY <3>2, <3>4
    <3>5. CASE a.stack # <<>> /\ b.nodes = Append(a.nodes, Last(a.stack))
      BY <3>2, <3>3, <3>5, AppendFacts
    <3> QED
      BY <3>1, <3>4, <3>5
  <2>10. Len(w[m].nodes) \in Nat
    BY DEF WalkOK
  <2>11. Len(w[m].nodes) <= Len(a.nodes) /\ \A i \in 1..Len(w[m].nodes) : a.nodes[i] = w[m].nodes[i]
    BY <2>6 DEF a, Extends
  <2>12. Len(w[m].nodes) <= Len(b.nodes) /\ \A i \in 1..Len(w[m].nodes) : b.nodes[i] = w[m].nodes[i]
    <3>1. Len(w[m].nodes) <= Len(b.nodes)
      BY <2>9, <2>10, <2>11
    <3>2. \A i \in 1..Len(w[m].nodes) : i \in 1..Len(a.nodes)
      BY <2>9, <2>10, <2>11
    <3> QED
      BY <2>9, <2>11, <3>1, <3>2
  <2> QED
    BY <2>3, <2>12 DEF b, Extends
<1>2. n \in m..n /\ n \notin Bad
  BY <1>0, <1>1
<1> QED
  BY <1>2

\* One round more.
LEMMA WalkOn ==
  ASSUME NEW hn, NEW w, NEW n, IsWalk(hn, w, n)
  PROVE  \E v : IsWalk(hn, v, n + 1) /\ v[n + 1] = WalkRound(hn, w[n])
<1> DEFINE v == [i \in 0..n+1 |-> IF i <= n THEN w[i] ELSE WalkRound(hn, w[n])]
<1>1. n \in Nat
  BY DEF IsWalk
<1>2. (\A i \in 0..n : v[i] = w[i]) /\ v[n + 1] = WalkRound(hn, w[n])
  BY <1>1
<1>3. \A i \in 0..n : i = n \/ i \in 0..n-1
  BY <1>1
<1>4. \A i \in 0..n-1 : i \in 0..n /\ i + 1 \in 0..n
  BY <1>1
<1>5. 0 \in 0..n /\ n \in 0..n /\ n + 1 \in Nat /\ (n + 1) - 1 = n
  BY <1>1
<1> HIDE DEF v
<1>6. \A i \in 0..n : v[i + 1] = WalkRound(hn, v[i])
  BY <1>2, <1>3, <1>4, <1>5 DEF IsWalk
<1>7. IsWalk(hn, v, n + 1)
  BY <1>2, <1>5, <1>6 DEF IsWalk
<1> QED
  BY <1>2, <1>7

-----------------------------------------------------------------------------
(***************************************************************************)
(* Stacks of frames.                                                       *)
(***************************************************************************)

\* The frames of the nodes of t, of which the first p have no seed and the others
\* have their own.
FramesOf(t, p) == [i \in 1..Len(t) |-> Frame(t[i], IF i <= p THEN Unknown ELSE t[i])]

\* A node's seed and Unknown are told apart, and the children derived from a node's
\* seed have theirs.
LEMMA SeedFacts ==
  ASSUME NEW k \in Nodes
  PROVE  /\ k # Unknown /\ k # ZeroSeed /\ k # Junk
         /\ LeftSeed(k, k) = 2 * k /\ XorBlocks(2 * k, k) = 2 * k + 1
BY NodesSmall DEF Unknown, ZeroSeed, Junk, LeftSeed, XorBlocks

\* The top of such a stack, and what is below it.
LEMMA FramesTop ==
  ASSUME NEW t \in Seq(Nodes), NEW p \in Nat
  PROVE  /\ FramesOf(t, p) \in Seq([k : Nodes, seed : Int])
         /\ Len(FramesOf(t, p)) = Len(t) /\ (FramesOf(t, p) = <<>> <=> t = <<>>)
         /\ \A i \in 1..Len(t) :
              FramesOf(t, p)[i] = Frame(t[i], IF i <= p THEN Unknown ELSE t[i])
         /\ t # <<>> => /\ Last(FramesOf(t, p)).k = Last(t)
                        /\ Last(FramesOf(t, p)).seed = IF Len(t) <= p THEN Unknown ELSE Last(t)
                        /\ Front(FramesOf(t, p)) = FramesOf(Front(t), p)
<1> DEFINE F == FramesOf(t, p)
           S == [k : Nodes, seed : Int]
<1>1. Len(t) \in Nat /\ \A i \in 1..Len(t) : t[i] \in Nodes /\ t[i] \in Int
  <2>1. Len(t) \in Nat /\ \A i \in 1..Len(t) : t[i] \in Nodes
    OBVIOUS
  <2>2. \A n \in Nodes : n \in Int
    BY NodesSmall
  <2> QED
    BY <2>1, <2>2
<1>2. Unknown \in Int
  BY DEF Unknown
<1>3. \A i \in 1..Len(t) : F[i] = Frame(t[i], IF i <= p THEN Unknown ELSE t[i])
  BY DEF FramesOf
<1>4. ASSUME NEW i \in 1..Len(t) PROVE F[i] \in S
  <2> DEFINE c == IF i <= p THEN Unknown ELSE t[i]
  <2>1. c \in Int /\ t[i] \in Nodes
    BY <1>1, <1>2
  <2>2. F[i] = Frame(t[i], c)
    BY <1>3
  <2> HIDE DEF c, F
  <2> QED
    BY <2>1, <2>2 DEF Frame
<1>5. F \in Seq(S) /\ Len(F) = Len(t)
  BY <1>1, <1>4 DEF FramesOf
<1>6. F = <<>> <=> t = <<>>
  BY <1>5
<1>7. ASSUME t # <<>>
      PROVE  /\ Last(F).k = Last(t)
             /\ Last(F).seed = IF Len(t) <= p THEN Unknown ELSE Last(t)
             /\ Front(F) = FramesOf(Front(t), p)
  <2>1. F # <<>>
    BY <1>6, <1>7
  <2> HIDE DEF F, S
  <2>2. Last(F) = F[Len(t)] /\ Last(t) = t[Len(t)] /\ Len(t) \in 1..Len(t)
    <3>1. Last(F) = F[Len(F)]
      BY <1>5, <2>1, FrontLast
    <3>2. Last(t) = t[Len(t)] /\ Len(t) \in Nat \ {0}
      BY <1>7, FrontLast
    <3> QED
      BY <1>5, <3>1, <3>2
  <2>3. Last(F) = Frame(Last(t), IF Len(t) <= p THEN Unknown ELSE Last(t))
    BY <1>3, <2>2
  <2>4. /\ Front(F) \in Seq(S) /\ Len(Front(F)) = Len(t) - 1
        /\ \A i \in 1 .. Len(t) - 1 : Front(F)[i] = F[i]
    BY <1>5, <2>1, FrontLast
  <2>5. /\ Len(Front(t)) = Len(t) - 1
        /\ \A i \in 1 .. Len(t) - 1 : Front(t)[i] = t[i]
    BY <1>7, FrontLast
  <2>6. Front(F) = [i \in 1 .. Len(t) - 1 |-> Front(F)[i]]
    BY <1>1, <2>4
  <2>7. \A i \in 1 .. Len(t) - 1 : i \in 1..Len(t)
    BY <1>1
  <2>8. Front(F) = FramesOf(Front(t), p)
    BY <1>3, <2>4, <2>5, <2>6, <2>7 DEF FramesOf
  <2> QED
    BY <2>3, <2>8 DEF Frame
<1> QED
  BY <1>3, <1>5, <1>6, <1>7

\* Pushing the children of a node: with their seeds from its seed, without from
\* none.
LEMMA FramesPush ==
  ASSUME NEW t \in Seq(Nodes), t # <<>>, ~IsLeaf(Last(t)), NEW p \in Nat
  PROVE  LET k == Last(t)
             u == Front(t) \o <<2 * k + 1, 2 * k>>
         IN  /\ \A q \in Nat : /\ q < Len(t)
                               /\ \A i \in 1 .. Len(t) - 1 : i <= p <=> i <= q
                               => WithChildren(Front(FramesOf(t, p)), k, k) = FramesOf(u, q)
             /\ p >= Len(t) =>
                  WithChildren(Front(FramesOf(t, p)), k, Unknown) = FramesOf(u, Len(u))
<1> DEFINE k == Last(t)
           u == Front(t) \o <<2 * k + 1, 2 * k>>
           F == FramesOf(t, p)
           S == [k : Nodes, seed : Int]
           L == Len(t)
<1>1. L \in Nat \ {0} /\ k \in Nodes
  BY FrontLast
<1>2. k \in Nat \ {0} /\ 2 * k \in Nodes /\ 2 * k + 1 \in Nodes /\ Unknown \in Int
  <2>1. k \in Nat \ {0} /\ 2 * k \in Nodes /\ 2 * k + 1 \in Nodes
    BY <1>1, NodesSmall
  <2>2. Unknown \in Int
    BY DEF Unknown
  <2> QED
    BY <2>1, <2>2
<1>3. /\ u \in Seq(Nodes) /\ Len(u) = L + 1
      /\ \A i \in 1 .. L - 1 : u[i] = t[i]
      /\ u[L] = 2 * k + 1 /\ u[L + 1] = 2 * k
  BY <1>2, TwoForTop, SMTT(30)
<1>4. /\ F \in Seq(S) /\ F # <<>> /\ Len(F) = L
      /\ \A i \in 1..L : F[i] = Frame(t[i], IF i <= p THEN Unknown ELSE t[i])
  BY FramesTop
<1> HIDE DEF k, u, F, L
<1>5. ASSUME NEW a \in S, NEW b \in S, NEW q \in Nat,
             a = Frame(2 * k + 1, IF L <= q THEN Unknown ELSE 2 * k + 1),
             b = Frame(2 * k, IF L + 1 <= q THEN Unknown ELSE 2 * k),
             \A i \in 1 .. L - 1 : i <= p <=> i <= q
      PROVE  Front(F) \o <<a, b>> = FramesOf(u, q)
  <2> DEFINE v == Front(F) \o <<a, b>>
  <2>1. /\ v \in Seq(S) /\ Len(v) = L + 1
        /\ \A i \in 1 .. L - 1 : v[i] = F[i]
        /\ v[L] = a /\ v[L + 1] = b
    <3>1. F \in Seq(S) /\ F # <<>> /\ Len(F) = L /\ a \in S /\ b \in S
      BY <1>4, <1>5
    <3> HIDE DEF S
    <3>2. Replaced(v, S, F, a, b)
      BY <3>1, TwoOnTop
    <3> HIDE DEF v
    <3> QED
      BY <3>1, <3>2 DEF Replaced
  <2> HIDE DEF v, S
  <2>2. v = [i \in 1..L+1 |-> v[i]]
    BY <1>1, <2>1
  <2>3. ASSUME NEW i \in 1..L+1
        PROVE  v[i] = Frame(u[i], IF i <= q THEN Unknown ELSE u[i])
    <3>1. CASE i \in 1 .. L - 1
      <4>1. i \in 1..L /\ (i <= p <=> i <= q)
        <5>1. i \in 1..L
          BY <1>1, <3>1
        <5>2. i <= p <=> i <= q
          BY <1>5, <3>1
        <5> QED
          BY <5>1, <5>2
      <4> QED
        BY <1>3, <1>4, <2>1, <3>1, <4>1
    <3>2. CASE i = L
      BY <1>3, <1>5, <2>1, <3>2
    <3>3. CASE i = L + 1
      BY <1>3, <1>5, <2>1, <3>3
    <3> QED
      BY <1>1, <3>1, <3>2, <3>3
  <2> QED
    BY <1>3, <2>2, <2>3 DEF FramesOf, v
<1>6. ASSUME NEW q \in Nat, q < L, \A i \in 1 .. L - 1 : i <= p <=> i <= q
      PROVE  WithChildren(Front(F), k, k) = FramesOf(u, q)
  <2> DEFINE a == Frame(2 * k + 1, 2 * k + 1)
             b == Frame(2 * k, 2 * k)
  <2>1. WithChildren(Front(F), k, k) = Front(F) \o <<a, b>>
    BY <1>1, SeedFacts DEF WithChildren
  <2>2. a \in S /\ b \in S
    BY <1>2 DEF Frame
  <2>3. ~(L <= q) /\ ~(L + 1 <= q)
    BY <1>1, <1>6
  <2>4. Front(F) \o <<a, b>> = FramesOf(u, q)
    BY <1>5, <1>6, <2>2, <2>3
  <2> QED
    BY <2>1, <2>4
<1>7. ASSUME p >= L
      PROVE  WithChildren(Front(F), k, Unknown) = FramesOf(u, Len(u))
  <2> DEFINE a == Frame(2 * k + 1, Unknown)
             b == Frame(2 * k, Unknown)
  <2>1. WithChildren(Front(F), k, Unknown) = Front(F) \o <<a, b>>
    BY DEF WithChildren
  <2>2. a \in S /\ b \in S
    BY <1>2 DEF Frame
  <2>3. L <= L + 1 /\ L + 1 <= L + 1 /\ L + 1 \in Nat
        /\ \A i \in 1 .. L - 1 : i <= p <=> i <= L + 1
    BY <1>1, <1>7
  <2>4. Front(F) \o <<a, b>> = FramesOf(u, L + 1)
    BY <1>5, <2>2, <2>3
  <2> QED
    BY <1>3, <2>1, <2>4
<1> QED
  BY <1>6, <1>7 DEF k, u, F, L

-----------------------------------------------------------------------------
(***************************************************************************)
(* The signer.                                                             *)
(***************************************************************************)

\* The signer is where the walk is.
SignerAt(acc) ==
  /\ s_stack = FramesOf(acc.stack, 0) /\ s_size = acc.size /\ path = acc.nodes

\* Every hidden leaf has been handed to its execution, or is still to be met.
Placed(t) ==
  \A i \in hidden : hidden_lseeds[i % TAU] = LeafPosition(i) \/ Covered(t, LeafPosition(i))

\* A signer that has not failed makes the walk, within its budget.
SignerInv ==
  /\ HiddenInv
  /\ s_ret \in {"none", "running", "ok", "error"}
  /\ s_ret = "none" <=> hidden = {}
  /\ s_size \in Int /\ Len(s_stack) <= H + 1
  /\ \A j \in 1..Len(s_stack) : s_stack[j].k \in Nodes
  /\ path \in Seq(Nodes \ hidden_nodes) /\ Len(path) <= T_OPEN
  /\ hidden_lseeds \in [0..TAU-1 -> Seeds]
  /\ s_ret \in {"running", "ok"} =>
       /\ OpeningSize(hidden) <= T_OPEN
       /\ \E w, n : /\ IsWalk(hidden_nodes, w, n)
                    /\ SignerAt(w[n]) /\ Placed(w[n].stack)
  /\ s_ret = "ok" => s_stack = <<>> /\ Len(path) = T_OPEN

\* Where a walking signer is.
LEMMA SignerWalks ==
  ASSUME SignerInv, s_ret \in {"running", "ok"}
  PROVE  /\ hidden \in OpeningSets /\ hidden \subseteq Leaves
         /\ PathNodes(hidden, hidden_nodes)
         /\ \E w, n : /\ IsWalk(hidden_nodes, w, n) /\ \A i \in 0..n : WalkOK(hidden_nodes, w[i])
                      /\ n \in Nat /\ SignerAt(w[n]) /\ Placed(w[n].stack)
<1>1. hidden # {} /\ HiddenInv
  BY DEF SignerInv
<1>2. /\ hidden \in OpeningSets /\ hidden \subseteq Leaves
      /\ hidden_nodes = ToSet(GetSensitiveNodeIndexes(hidden))
      /\ PathNodes(hidden, hidden_nodes)
  BY <1>1, HiddenPaths DEF HiddenInv
<1>3. PICK w, n : /\ IsWalk(hidden_nodes, w, n)
                  /\ SignerAt(w[n]) /\ Placed(w[n].stack)
  BY DEF SignerInv
<1>4. OpeningSize(hidden) <= T_OPEN
  BY DEF SignerInv
<1>5. \A i \in 0..n : WalkOK(hidden_nodes, w[i])
  BY <1>2, <1>3, <1>4, WalksOK
<1>6. n \in Nat
  BY <1>3 DEF IsWalk
<1> QED
  BY <1>2, <1>3, <1>5, <1>6

\* The frames a signer can have.
LEMMA WalkFrames ==
  ASSUME NEW hn, NEW acc, WalkOK(hn, acc)
  PROVE  /\ acc.stack \in Seq(Nodes) /\ acc.nodes \in Seq(Nodes \ hn)
         /\ Len(FramesOf(acc.stack, 0)) <= H + 1
         /\ \A j \in 1..Len(FramesOf(acc.stack, 0)) : FramesOf(acc.stack, 0)[j].k \in Nodes
         /\ acc.size \in Int /\ Len(acc.nodes) <= T_OPEN
         /\ acc \in [stack : Seq(Nodes), nodes : Seq(Nodes), size : Int]
<1>1. /\ acc.stack \in Seq(Nodes) /\ acc.nodes \in Seq(Nodes \ hn) /\ Len(acc.stack) <= H + 1
      /\ acc.size \in Int /\ acc.size = Len(acc.nodes) + Cardinality(Pending(hn, acc.stack))
      /\ acc.size <= T_OPEN /\ Len(acc.nodes) \in Nat
      /\ acc \in [stack : Seq(Nodes), nodes : Seq(Nodes), size : Int]
  BY DEF WalkOK, Heights
<1>2. Cardinality(Pending(hn, acc.stack)) \in Nat
  BY PendingFinite
<1>3. Len(acc.nodes) <= T_OPEN
  BY <1>1, <1>2, Sizes
<1>4. /\ Len(FramesOf(acc.stack, 0)) = Len(acc.stack)
      /\ \A j \in 1..Len(acc.stack) : FramesOf(acc.stack, 0)[j].k \in Nodes
  <2> DEFINE F == FramesOf(acc.stack, 0)
             S == [k : Nodes, seed : Int]
  <2>1. F \in Seq(S) /\ Len(F) = Len(acc.stack)
    BY <1>1, FramesTop
  <2> HIDE DEF F, S
  <2>2. \A j \in 1..Len(F) : F[j] \in S
    BY <2>1
  <2> QED
    BY <2>1, <2>2 DEF F, S
<1> QED
  BY <1>1, <1>3, <1>4

\* Initially.
LEMMA SignerInit == Init => SignerInv
<1> SUFFICES ASSUME Init PROVE SignerInv
  OBVIOUS
<1>1. HiddenInv
  BY DEF Init, HiddenInv
<1>2. /\ hidden \subseteq Leaves /\ PathNodes(hidden, hidden_nodes)
  BY <1>1, HiddenPaths
<1>3. /\ s_stack = <<Frame(1, 1)>> /\ path = <<>> /\ s_size = OpeningSize(hidden)
      /\ hidden_lseeds = [e \in 0..TAU-1 |-> Junk]
      /\ s_ret = IF hidden = {} THEN "none" ELSE IF s_size > T_OPEN THEN "error" ELSE "running"
  BY DEF Init
<1>4. /\ Len(s_stack) <= H + 1 /\ \A j \in 1..Len(s_stack) : s_stack[j].k \in Nodes
  <2>1. Len(s_stack) = 1 /\ s_stack[1].k = 1
    BY <1>3 DEF Frame
  <2> QED
    BY <2>1, NodesSmall, Sizes
<1>5. path \in Seq(Nodes \ hidden_nodes) /\ Len(path) <= T_OPEN
  BY <1>3, Sizes
<1>6. hidden_lseeds \in [0..TAU-1 -> Seeds]
  BY <1>3 DEF Seeds
<1>7. s_size \in Int
  <2>1. GetSensitiveNodeIndexes(hidden) \in Seq(Nodes)
    BY <1>2, SensitiveNodes
  <2>2. Len(GetSensitiveNodeIndexes(hidden)) \in Nat
    BY <2>1
  <2> QED
    BY <1>3, <2>2, Sizes DEF OpeningSize
<1>8. ASSUME s_ret = "running"
      PROVE  /\ OpeningSize(hidden) <= T_OPEN
             /\ \E w, n : /\ IsWalk(hidden_nodes, w, n)
                          /\ SignerAt(w[n]) /\ Placed(w[n].stack)
  <2>1. hidden # {} /\ hidden \in OpeningSets /\ OpeningSize(hidden) <= T_OPEN
    <3>1. hidden # {} /\ ~(s_size > T_OPEN)
      BY <1>3, <1>8
    <3> QED
      BY <1>1, <1>3, <1>7, <3>1, Sizes DEF HiddenInv
  <2> DEFINE acc == WalkStart(hidden_nodes)
             w == [i \in {0} |-> acc]
  <2>2. IsWalk(hidden_nodes, w, 0)
    <3>1. 0..0-1 = {} /\ w[0] = acc
      OBVIOUS
    <3> HIDE DEF w
    <3> QED
      BY <3>1 DEF IsWalk
  <2>3. acc.stack = <<1>> /\ acc.nodes = <<>> /\ acc.size = Cardinality(hidden_nodes) - 2 * TAU + 1
    BY DEF WalkStart
  <2>4. acc.size = OpeningSize(hidden)
    <3>1. hidden_nodes = ToSet(GetSensitiveNodeIndexes(hidden))
      BY <1>1 DEF HiddenInv
    <3>2. Cardinality(hidden_nodes) = Len(GetSensitiveNodeIndexes(hidden))
      BY <2>1, <3>1, FrontierSize
    <3> QED
      BY <2>3, <3>2 DEF OpeningSize
  <2>5. FramesOf(<<1>>, 0) = <<Frame(1, 1)>>
    BY DEF FramesOf
  <2>6. SignerAt(acc)
    BY <1>3, <2>3, <2>4, <2>5 DEF SignerAt
  <2>7. Placed(acc.stack)
    <3>1. acc.stack[1] = 1 /\ 1 \in 1..Len(acc.stack)
      BY <2>3
    <3> QED
      BY <1>2, <3>1, Positions, UnderRoot DEF Placed, Covered
  <2>8. w[0] = acc
    OBVIOUS
  <2> HIDE DEF w, acc
  <2>9. SignerAt(w[0]) /\ Placed(w[0].stack)
    BY <2>6, <2>7, <2>8
  <2> QED
    BY <2>1, <2>2, <2>9
<1>9. s_ret \in {"none", "running", "error"} /\ (s_ret = "none" <=> hidden = {})
  BY <1>3
<1> QED
  BY <1>1, <1>4, <1>5, <1>6, <1>7, <1>8, <1>9 DEF SignerInv

\* Each of its steps is a round of the walk, or ends it.
LEMMA SignerNext ==
  ASSUME SignerInv, SignerProgress \/ SignerFails
  PROVE  SignerInv'
<1>1. /\ s_ret = "running"
      /\ hidden' = hidden /\ hidden_nodes' = hidden_nodes
  BY DEF SignerProgress, SignerFails, SignerReveals, SignerExpands, SignerKeepsHidden,
         SignerEnds, SignerRunning
<1>2. /\ HiddenInv /\ hidden # {} /\ s_size \in Int /\ Len(s_stack) <= H + 1
      /\ \A j \in 1..Len(s_stack) : s_stack[j].k \in Nodes
      /\ path \in Seq(Nodes \ hidden_nodes) /\ Len(path) <= T_OPEN
      /\ hidden_lseeds \in [0..TAU-1 -> Seeds]
      /\ OpeningSize(hidden) <= T_OPEN
  BY <1>1 DEF SignerInv
<1>3. /\ hidden \in OpeningSets /\ hidden \subseteq Leaves
      /\ PathNodes(hidden, hidden_nodes)
  BY <1>1, SignerWalks
<1>4. PICK w, n : /\ IsWalk(hidden_nodes, w, n) /\ \A i \in 0..n : WalkOK(hidden_nodes, w[i])
                  /\ n \in Nat /\ SignerAt(w[n]) /\ Placed(w[n].stack)
  BY <1>1, SignerWalks
<1>5. PICK v : IsWalk(hidden_nodes, v, n + 1) /\ v[n + 1] = WalkRound(hidden_nodes, w[n])
  BY <1>4, WalkOn
<1> DEFINE acc == w[n]
           new == v[n + 1]
           t == acc.stack
           k == Last(t)
           u == Front(t) \o <<2 * k + 1, 2 * k>>
<1>6. WalkOK(hidden_nodes, acc) /\ WalkOK(hidden_nodes, new)
  BY <1>3, <1>4, <1>5, WalkRoundOK
<1>7. /\ s_stack = FramesOf(t, 0) /\ s_size = acc.size /\ path = acc.nodes
      /\ Placed(t)
  BY <1>4 DEF SignerAt
<1>8. t \in Seq(Nodes) /\ acc \in [stack : Seq(Nodes), nodes : Seq(Nodes), size : Int]
  BY <1>6, WalkFrames
<1>9. HiddenInv'
  BY <1>1, <1>2 DEF HiddenInv
<1>10. ASSUME s_ret' = "error", UNCHANGED <<s_stack, s_size, path, hidden_lseeds>>
       PROVE  SignerInv'
  BY <1>1, <1>2, <1>9, <1>10 DEF SignerInv
<1>11. ASSUME s_ret' = "running", SignerAt(new)', Placed(new.stack)',
              hidden_lseeds' \in [0..TAU-1 -> Seeds]
       PROVE  SignerInv'
  <2>1. /\ s_stack' = FramesOf(new.stack, 0) /\ s_size' = new.size /\ path' = new.nodes
    BY <1>11 DEF SignerAt
  <2>2. /\ s_size' \in Int /\ Len(s_stack') <= H + 1
        /\ \A j \in 1..Len(s_stack') : s_stack'[j].k \in Nodes
        /\ path' \in Seq(Nodes \ hidden_nodes') /\ Len(path') <= T_OPEN
    BY <1>1, <1>6, <2>1, WalkFrames
  <2>3. \E x, m : IsWalk(hidden_nodes', x, m) /\ SignerAt(x[m])' /\ Placed(x[m].stack)'
    BY <1>1, <1>5, <1>11
  <2> HIDE DEF new, acc, t, k, u
  <2> QED
    BY <1>1, <1>2, <1>9, <1>11, <2>2, <2>3 DEF SignerInv
<1>12. \/ t = <<>> /\ new = acc
       \/ /\ t # <<>> /\ Revealed(hidden_nodes, k, acc.size)
          /\ new = [stack |-> Front(t), size |-> acc.size, nodes |-> Append(acc.nodes, k)]
       \/ /\ t # <<>> /\ IsLeaf(k) /\ k \in hidden_nodes
          /\ new = [stack |-> Front(t), size |-> acc.size, nodes |-> acc.nodes]
       \/ /\ t # <<>> /\ ~IsLeaf(k) /\ ~Revealed(hidden_nodes, k, acc.size)
          /\ new = [stack |-> u,
                    size |-> IF k \in hidden_nodes THEN acc.size ELSE acc.size + 1,
                    nodes |-> acc.nodes]
  <2>1. new = WalkRound(hidden_nodes, acc)
    BY <1>5
  <2>2. t = acc.stack /\ k = Last(t) /\ u = Front(t) \o <<2 * k + 1, 2 * k>>
    OBVIOUS
  <2>3. acc \in [stack : Seq(Nodes), nodes : Seq(Nodes), size : Int]
    BY <1>8
  <2> HIDE DEF acc, new, t, k, u
  <2> QED
    BY <2>1, <2>2, <2>3 DEF WalkRound, Revealed
<1>13. ASSUME s_stack # <<>>
       PROVE  /\ t # <<>> /\ SignerTop.k = k /\ SignerTop.seed = k /\ k \in Nodes
              /\ Front(s_stack) = FramesOf(Front(t), 0)
              /\ ~IsLeaf(k) => WithChildren(Front(s_stack), k, k) = FramesOf(u, 0)
  <2>1. t # <<>>
    BY <1>7, <1>8, <1>13, FramesTop
  <2>2. Len(t) \in Nat \ {0} /\ k \in Nodes
    BY <1>8, <2>1, FrontLast
  <2>3. /\ Last(FramesOf(t, 0)).k = k
        /\ Last(FramesOf(t, 0)).seed = IF Len(t) <= 0 THEN Unknown ELSE k
        /\ Front(FramesOf(t, 0)) = FramesOf(Front(t), 0)
    BY <1>8, <2>1, FramesTop
  <2>4. ASSUME ~IsLeaf(k) PROVE WithChildren(Front(FramesOf(t, 0)), k, k) = FramesOf(u, 0)
    <3>1. 0 < Len(t) /\ 0 \in Nat
      BY <2>2
    <3> QED
      BY <1>8, <2>1, <2>4, <3>1, FramesPush
  <2> QED
    BY <1>7, <2>1, <2>2, <2>3, <2>4 DEF SignerTop
<1> HIDE DEF t, k, u, acc, new
<1>14. CASE SignerReveals
  <2>1. /\ s_stack # <<>> /\ Reveals(SignerTop.k, s_size)
        /\ s_stack' = Front(s_stack)
        /\ IF Len(path) >= T_OPEN
           THEN s_ret' \in {"ok", "error"} /\ UNCHANGED path
           ELSE path' = Append(path, SignerTop.seed) /\ UNCHANGED s_ret
        /\ UNCHANGED <<s_size, hidden_lseeds>>
    BY <1>14 DEF SignerReveals, SignerRunning
  <2>2. Revealed(hidden_nodes, k, acc.size) /\ t # <<>>
    BY <1>7, <1>13, <2>1 DEF Reveals
  <2>3. Len(path) < T_OPEN /\ Len(path) \in Nat /\ k \notin hidden_nodes
    <3>1. k \notin hidden_nodes
      BY <2>2 DEF Revealed
    <3>2. Len(acc.nodes) < T_OPEN
      BY <1>3, <1>6, <2>2, <3>1, RevealedFits DEF t, k
    <3> QED
      BY <1>2, <1>7, <3>1, <3>2
  <2>4. path' = Append(acc.nodes, k) /\ s_ret' = "running"
    <3>1. ~(Len(path) >= T_OPEN)
      BY <2>3, Sizes
    <3> QED
      BY <1>1, <1>7, <1>13, <2>1, <3>1
  <2>5. new = [stack |-> Front(t), size |-> acc.size, nodes |-> Append(acc.nodes, k)]
    BY <1>12, <2>2, <2>3 DEF Revealed
  <2>6. SignerAt(new)'
    BY <1>7, <1>13, <2>1, <2>4, <2>5 DEF SignerAt
  <2>7. Placed(new.stack)'
    <3>1. ASSUME NEW i \in hidden
          PROVE  hidden_lseeds[i % TAU] = LeafPosition(i) \/ Covered(Front(t), LeafPosition(i))
      <4>1. LeafPosition(i) \in Nodes /\ LeafPosition(i) \in hidden_nodes
        BY <1>3, Positions DEF PathNodes
      <4>2. ~Under(LeafPosition(i), k)
        BY <1>3, <2>3, <4>1, PathUp
      <4>3. Covered(t, LeafPosition(i)) => Covered(Front(t), LeafPosition(i))
        BY <1>8, <2>2, <4>1, <4>2, Covers DEF k
      <4> QED
        BY <1>7, <4>3 DEF Placed
    <3> QED
      BY <1>1, <2>1, <2>5, <3>1 DEF Placed
  <2> QED
    BY <1>2, <1>11, <2>1, <2>4, <2>6, <2>7
<1>15. CASE SignerExpands
  <2>1. /\ s_stack # <<>> /\ ~IsLeaf(SignerTop.k) /\ ~Reveals(SignerTop.k, s_size)
        /\ s_size' = SizeAfter(SignerTop.k, s_size)
        /\ s_stack' = WithChildren(Front(s_stack), SignerTop.k, SignerTop.seed)
        /\ UNCHANGED <<s_ret, path, hidden_lseeds>>
    BY <1>15 DEF SignerExpands, SignerRunning
  <2>2. t # <<>> /\ ~IsLeaf(k) /\ ~Revealed(hidden_nodes, k, acc.size)
    BY <1>7, <1>13, <2>1 DEF Reveals
  <2>3. new = [stack |-> u,
               size |-> IF k \in hidden_nodes THEN acc.size ELSE acc.size + 1,
               nodes |-> acc.nodes]
    BY <1>12, <2>2
  <2>4. SignerAt(new)'
    BY <1>7, <1>13, <2>1, <2>3 DEF SignerAt, SizeAfter
  <2>5. Placed(new.stack)'
    <3>1. ASSUME NEW i \in hidden
          PROVE  hidden_lseeds[i % TAU] = LeafPosition(i) \/ Covered(u, LeafPosition(i))
      <4>1. LeafPosition(i) \in Nodes /\ IsLeaf(LeafPosition(i))
        BY <1>3, Positions
      <4>2. Covered(t, LeafPosition(i)) => Covered(u, LeafPosition(i))
        BY <1>8, <2>2, <4>1, Covers DEF k, u
      <4> QED
        BY <1>7, <4>2 DEF Placed
    <3> QED
      BY <1>1, <2>1, <2>3, <3>1 DEF Placed
  <2> QED
    BY <1>1, <1>2, <1>11, <2>1, <2>4, <2>5
<1>16. CASE SignerKeepsHidden
  <2>1. /\ s_stack # <<>> /\ IsLeaf(SignerTop.k) /\ ~Reveals(SignerTop.k, s_size)
        /\ hidden_lseeds' =
             [hidden_lseeds EXCEPT ![ExecutionOf(SignerTop.k)] = SignerTop.seed]
        /\ s_stack' = Front(s_stack)
        /\ UNCHANGED <<s_size, s_ret, path>>
    BY <1>16 DEF SignerKeepsHidden, SignerRunning
  <2>2. t # <<>> /\ IsLeaf(k) /\ k \in hidden_nodes /\ ~Revealed(hidden_nodes, k, acc.size)
        /\ k \in Nodes
    BY <1>7, <1>13, <2>1 DEF Reveals, Revealed
  <2>3. new = [stack |-> Front(t), size |-> acc.size, nodes |-> acc.nodes]
    BY <1>12, <2>2
  <2>4. SignerAt(new)'
    BY <1>7, <1>13, <2>1, <2>3 DEF SignerAt
  <2>5. PICK x \in hidden : k = LeafPosition(x)
    BY <1>3, <2>2 DEF PathNodes
  <2>6. FromLeafPosition(k) = x /\ x \in Nat /\ x % TAU \in 0..TAU-1
    <3>1. FromLeafPosition(k) = x /\ x \in Nat
      BY <1>3, <2>5, Positions DEF Leaves
    <3>2. TAU \in Nat \ {0}
      BY Sizes
    <3> QED
      BY <3>1, <3>2
  <2>7. hidden_lseeds' = [hidden_lseeds EXCEPT ![x % TAU] = k]
    BY <1>13, <2>1, <2>6 DEF ExecutionOf
  <2>8. hidden_lseeds' \in [0..TAU-1 -> Seeds]
    BY <1>2, <2>2, <2>6, <2>7 DEF Seeds
  <2>9. Placed(new.stack)'
    <3>1. ASSUME NEW i \in hidden
          PROVE  hidden_lseeds'[i % TAU] = LeafPosition(i) \/ Covered(Front(t), LeafPosition(i))
      <4>1. LeafPosition(i) \in Nodes /\ IsLeaf(LeafPosition(i)) /\ i \in Nat
        BY <1>3, Positions DEF Leaves
      <4>2. CASE i = x
        BY <1>2, <2>5, <2>6, <2>7, <4>2
      <4>3. CASE i # x
        <5>1. i % TAU # x % TAU
          BY <1>3, <4>3, OpeningSetFacts
        <5>2. hidden_lseeds'[i % TAU] = hidden_lseeds[i % TAU]
          <6>1. i % TAU \in 0..TAU-1
            BY <4>1, Sizes
          <6> QED
            BY <1>2, <2>7, <5>1, <6>1
        <5>3. LeafPosition(i) # k
          BY <1>3, <2>5, <4>3, Positions
        <5>4. ~Under(LeafPosition(i), k)
          BY <1>8, <2>2, <4>1, <5>3, Covers DEF k
        <5>5. Covered(t, LeafPosition(i)) => Covered(Front(t), LeafPosition(i))
          BY <1>8, <2>2, <4>1, <5>4, Covers DEF k
        <5> QED
          BY <1>7, <5>2, <5>5 DEF Placed
      <4> QED
        BY <4>2, <4>3
    <3> QED
      BY <1>1, <2>3, <3>1 DEF Placed
  <2> QED
    BY <1>1, <1>11, <2>1, <2>4, <2>8, <2>9
<1>17. CASE SignerEnds
  <2>1. /\ s_stack = <<>>
        /\ s_ret' = IF Len(path) = T_OPEN THEN "ok" ELSE "error"
        /\ UNCHANGED <<s_stack, s_size, path, hidden_lseeds>>
    BY <1>17 DEF SignerEnds
  <2>2. t = <<>>
    BY <1>7, <1>8, <2>1, FramesTop
  <2>3. Len(path) = T_OPEN
    BY <1>3, <1>6, <1>7, <2>2, WalkEnds DEF t
  <2>4. s_ret' = "ok"
    BY <2>1, <2>3
  <2>5. SignerAt(acc)' /\ Placed(acc.stack)'
    BY <1>1, <1>7, <2>1 DEF SignerAt, Placed, t
  <2>6. \E x, m : IsWalk(hidden_nodes', x, m) /\ SignerAt(x[m])' /\ Placed(x[m].stack)'
    BY <1>1, <1>4, <2>5 DEF acc
  <2> QED
    BY <1>1, <1>2, <1>9, <2>1, <2>3, <2>4, <2>6 DEF SignerInv
<1>18. CASE SignerFails
  BY <1>10, <1>18 DEF SignerFails
<1> QED
  BY <1>14, <1>15, <1>16, <1>17, <1>18 DEF SignerProgress

-----------------------------------------------------------------------------
(***************************************************************************)
(* The order of the leaves.                                                *)
(***************************************************************************)

\* What is still to be returned, from leaf n on, is below the nodes of x, the next
\* leaves below the last ones.
InOrder(x, n) ==
  /\ x \in Seq(Nodes) /\ Ordered(x) /\ n \in 0..M
  /\ \A l \in Leaves : Covered(x, LeafPosition(l)) <=> n <= l

\* One node covers what is under it.
LEMMA CoveredOne == ASSUME NEW k, NEW n PROVE Covered(<<k>>, n) <=> Under(n, k)
<1>1. Len(<<k>>) = 1 /\ <<k>>[1] = k /\ 1..1 = {1}
  OBVIOUS
<1> QED
  BY <1>1 DEF Covered

\* From the root.
LEMMA OrderStart == InOrder(<<1>>, 0)
<1>1. <<1>> \in Seq(Nodes) /\ Len(<<1>>) = 1
  BY NodesSmall
<1>2. Ordered(<<1>>)
  <2>1. \A i, j \in 1..1 : ~(i < j)
    OBVIOUS
  <2> QED
    BY <1>1, <2>1 DEF Ordered
<1>3. \A l \in Leaves : Covered(<<1>>, LeafPosition(l)) /\ 0 <= l
  BY Positions, UnderRoot, CoveredOne DEF Leaves
<1> QED
  BY <1>1, <1>2, <1>3, Sizes DEF InOrder

\* Expanding the last node changes nothing.
LEMMA OrderPush ==
  ASSUME NEW x, NEW n, InOrder(x, n), x # <<>>, ~IsLeaf(Last(x))
  PROVE  InOrder(Front(x) \o <<2 * Last(x) + 1, 2 * Last(x)>>, n)
BY PushKeeps, Covers, Positions DEF InOrder

\* When the last node is a leaf it is the next one.
LEMMA OrderPop ==
  ASSUME NEW x, NEW n, InOrder(x, n), x # <<>>, IsLeaf(Last(x))
  PROVE  /\ n \in Leaves /\ Last(x) = LeafPosition(n) /\ FromLeafPosition(Last(x)) = n
         /\ InOrder(Front(x), n + 1)
<1> DEFINE k == Last(x)
           j == FromLeafPosition(k)
<1>1. /\ x \in Seq(Nodes) /\ Ordered(x) /\ n \in 0..M /\ M \in Nat
      /\ \A l \in Leaves : Covered(x, LeafPosition(l)) <=> n <= l
  BY Sizes DEF InOrder
<1>2. k \in Nodes /\ k = x[Len(x)] /\ Len(x) \in Nat \ {0}
  BY <1>1, FrontLast
<1>3. j \in Leaves /\ LeafPosition(j) = k /\ j \in 0..M-1
  BY <1>2, Positions DEF Leaves
<1>4. Under(k, k)
  BY <1>2, UnderSelf
<1>5. n <= j
  <2>1. Covered(x, k)
    BY <1>1, <1>2, <1>4, Covers
  <2> QED
    BY <1>1, <1>3, <2>1
<1>6. n \in Leaves
  BY <1>1, <1>3, <1>5 DEF Leaves
<1>7. Covered(x, LeafPosition(n)) /\ LeafPosition(n) \in Nodes
  BY <1>1, <1>6, Positions
<1>8. n = j
  <2>1. CASE Under(LeafPosition(n), k)
    <3>1. LeafPosition(n) = k
      BY <1>1, <1>7, <2>1, Covers
    <3> QED
      BY <1>6, <3>1, Positions
  <2>2. CASE ~Under(LeafPosition(n), k)
    <3>1. PICK i \in 1..Len(x) : Under(LeafPosition(n), x[i])
      BY <1>7 DEF Covered
    <3>2. i < Len(x) /\ Len(x) \in 1..Len(x)
      BY <1>2, <2>2, <3>1
    <3>3. LeavesBefore(k, x[i])
      BY <1>1, <1>2, <3>2 DEF Ordered
    <3>4. j < n
      BY <1>3, <1>4, <1>6, <3>1, <3>3 DEF LeavesBefore
    <3> QED
      BY <1>1, <1>3, <1>5, <3>4
  <2> QED
    BY <2>1, <2>2
<1>9. Front(x) \in Seq(Nodes) /\ Ordered(Front(x))
  BY <1>1, PopKeeps
<1>10. ASSUME NEW l \in Leaves
       PROVE  Covered(Front(x), LeafPosition(l)) <=> n + 1 <= l
  <2>1. LeafPosition(l) \in Nodes /\ l \in Nat
    BY Positions DEF Leaves
  <2>2. Covered(x, LeafPosition(l)) <=> Covered(Front(x), LeafPosition(l)) \/ Under(LeafPosition(l), k)
    BY <1>1, <2>1, Covers
  <2>3. Under(LeafPosition(l), k) <=> l = n
    <3>1. Under(LeafPosition(l), k) => LeafPosition(l) = k
      BY <1>1, <2>1, Covers
    <3>2. LeafPosition(l) = k <=> l = n
      BY <1>3, <1>8, Positions
    <3> QED
      BY <1>4, <3>1, <3>2
  <2>4. l = n => ~Covered(Front(x), LeafPosition(l))
    <3> SUFFICES ASSUME l = n, Covered(Front(x), LeafPosition(l)) PROVE FALSE
      OBVIOUS
    <3>1. /\ Len(Front(x)) = Len(x) - 1
          /\ \A i \in 1 .. Len(x) - 1 : Front(x)[i] = x[i]
      BY <1>1, FrontLast
    <3>2. PICK i \in 1 .. Len(x) - 1 : Under(LeafPosition(l), x[i])
      BY <3>1 DEF Covered
    <3>3. i \in 1..Len(x) /\ Len(x) \in 1..Len(x) /\ i # Len(x)
      BY <1>2
    <3>4. Under(LeafPosition(l), x[Len(x)])
      BY <1>2, <2>3
    <3> QED
      BY <1>1, <2>1, <3>2, <3>3, <3>4, Apart
  <2>5. n <= l <=> (n + 1 <= l \/ l = n)
    BY <1>1, <2>1
  <2>6. ~(n + 1 <= n)
    BY <1>1
  <2> QED
    BY <1>1, <2>2, <2>3, <2>4, <2>5, <2>6
<1>11. n + 1 \in 0..M
  BY <1>1, <1>3, <1>8
<1> QED
  BY <1>3, <1>6, <1>8, <1>9, <1>10, <1>11 DEF InOrder

\* When nothing is left, all leaves have been returned.
LEMMA OrderEnd == ASSUME NEW n, InOrder(<<>>, n) PROVE n = M
<1>1. n \in 0..M /\ M \in Nat /\ \A l \in Leaves : ~(n <= l)
  BY Sizes DEF InOrder, Covered
<1> QED
  BY <1>1 DEF Leaves

\* Another node on top, whose leaves come first.
LEMMA OrderAppend ==
  ASSUME NEW x \in Seq(Nodes), Ordered(x), NEW k \in Nodes,
         \A i \in 1..Len(x) : LeavesBefore(k, x[i])
  PROVE  /\ Append(x, k) \in Seq(Nodes) /\ Ordered(Append(x, k))
         /\ Front(Append(x, k)) = x /\ Last(Append(x, k)) = k /\ Append(x, k) # <<>>
         /\ \A n : Covered(Append(x, k), n) <=> Covered(x, n) \/ Under(n, k)
<1> DEFINE u == Append(x, k)
           L == Len(x)
<1>1. /\ u \in Seq(Nodes) /\ Len(u) = L + 1 /\ L \in Nat
      /\ \A i \in 1..L : u[i] = x[i]
      /\ u[L + 1] = k
  BY AppendFacts
<1>2. u # <<>>
  <2> HIDE DEF u
  <2> QED
    BY <1>1
<1>3. /\ \A i \in 1..L+1 : i = L + 1 \/ i \in 1..L
      /\ \A i \in 1..L : i \in 1..L+1 /\ i < L + 1
      /\ L + 1 \in 1..L+1
  BY <1>1
<1> HIDE DEF u
<1>4. Ordered(u)
  <2> SUFFICES ASSUME NEW i \in 1..L+1, NEW j \in 1..L+1, i < j PROVE LeavesBefore(u[j], u[i])
    BY <1>1 DEF Ordered
  <2>1. i \in 1..L
    BY <1>1
  <2>2. CASE j = L + 1
    BY <1>1, <2>1, <2>2
  <2>3. CASE j \in 1..L
    BY <1>1, <2>1, <2>3 DEF Ordered
  <2> QED
    BY <1>3, <2>2, <2>3
<1>5. Front(u) = x /\ Last(u) = k
  <2>1. Last(u) = k
    BY <1>1, <1>2, FrontLast
  <2>2. /\ Front(u) \in Seq(Nodes) /\ Len(Front(u)) = L
        /\ \A i \in 1..L : Front(u)[i] = u[i]
    <3>1. Len(u) - 1 = L
      BY <1>1
    <3> QED
      BY <1>1, <1>2, <3>1, FrontLast
  <2>3. Front(u) = [i \in 1..L |-> Front(u)[i]] /\ x = [i \in 1..L |-> x[i]]
    BY <2>2
  <2> QED
    BY <1>1, <2>1, <2>2, <2>3
<1>6. \A n : Covered(u, n) <=> Covered(x, n) \/ Under(n, k)
  BY <1>1, <1>3 DEF Covered
<1> QED
  BY <1>1, <1>2, <1>4, <1>5, <1>6 DEF u

\* Expanding the last two nodes.
LEMMA OrderPushTwo ==
  ASSUME NEW x, NEW n, InOrder(x, n), NEW r, r \in Seq(Nodes), NEW b, NEW a,
         x = Append(Append(r, b), a), b \in Nodes, a \in Nodes, ~IsLeaf(a), ~IsLeaf(b)
  PROVE  InOrder(Append(r \o <<2 * b + 1, 2 * b>>, a), n)
<1> DEFINE y == Append(r, b)
           z == r \o <<2 * b + 1, 2 * b>>
           u == Append(z, a)
<1>1. /\ x \in Seq(Nodes) /\ Ordered(x) /\ n \in 0..M
      /\ \A l \in Leaves : Covered(x, LeafPosition(l)) <=> n <= l
  BY DEF InOrder
<1>2. /\ y \in Seq(Nodes) /\ Len(y) = Len(r) + 1 /\ Len(r) \in Nat
      /\ \A i \in 1..Len(r) : y[i] = r[i]
      /\ y[Len(r) + 1] = b
  BY AppendFacts
<1>3. /\ Len(x) = Len(y) + 1
      /\ \A i \in 1..Len(y) : x[i] = y[i]
      /\ x[Len(y) + 1] = a
  BY <1>2, AppendFacts
<1>4. Ordered(y) /\ \A i \in 1..Len(y) : LeavesBefore(a, y[i])
  <2>1. \A i \in 1..Len(y) : i \in 1..Len(x) /\ i < Len(y) + 1
    BY <1>2, <1>3
  <2>2. Len(y) + 1 \in 1..Len(x)
    BY <1>2, <1>3
  <2> HIDE DEF y
  <2> QED
    BY <1>1, <1>3, <2>1, <2>2 DEF Ordered
<1>5. Ordered(r) /\ \A i \in 1..Len(r) : LeavesBefore(b, r[i])
  <2>1. \A i \in 1..Len(r) : i \in 1..Len(y) /\ i < Len(r) + 1
    BY <1>2
  <2>2. Len(r) + 1 \in 1..Len(y)
    BY <1>2
  <2> HIDE DEF y
  <2> QED
    BY <1>2, <1>4, <2>1, <2>2 DEF Ordered
<1>6. Front(y) = r /\ Last(y) = b /\ y # <<>>
  BY <1>5, OrderAppend
<1>7. z \in Seq(Nodes) /\ Ordered(z)
  BY <1>2, <1>4, <1>6, PushKeeps
<1>8. \A m \in Nodes : IsLeaf(m) => (Covered(y, m) <=> Covered(z, m))
  BY <1>2, <1>6, Covers
<1>9. ASSUME NEW i \in 1..Len(z) PROVE LeavesBefore(a, z[i])
  <2> SUFFICES ASSUME NEW g \in Leaves, NEW l \in Leaves,
                      Under(LeafPosition(g), a), Under(LeafPosition(l), z[i])
               PROVE  g < l
    BY DEF LeavesBefore
  <2>1. LeafPosition(l) \in Nodes /\ IsLeaf(LeafPosition(l))
    BY Positions
  <2>2. Covered(z, LeafPosition(l))
    BY DEF Covered
  <2>3. Covered(y, LeafPosition(l))
    BY <1>8, <2>1, <2>2
  <2>4. PICK j \in 1..Len(y) : Under(LeafPosition(l), y[j])
    BY <2>3 DEF Covered
  <2> QED
    BY <1>4, <2>4 DEF LeavesBefore
<1>10. u \in Seq(Nodes) /\ Ordered(u)
       /\ \A m : Covered(u, m) <=> Covered(z, m) \/ Under(m, a)
  BY <1>7, <1>9, OrderAppend
<1>11. \A m : Covered(x, m) <=> Covered(y, m) \/ Under(m, a)
  BY <1>2, <1>4, OrderAppend
<1>12. \A l \in Leaves : LeafPosition(l) \in Nodes /\ IsLeaf(LeafPosition(l))
  BY Positions
<1> HIDE DEF y, z, u
<1>13. InOrder(u, n)
  BY <1>1, <1>8, <1>10, <1>11, <1>12 DEF InOrder
<1> QED
  BY <1>13 DEF u, z

-----------------------------------------------------------------------------
(***************************************************************************)
(* The verifier follows the signer.                                        *)
(***************************************************************************)

\* With t on the stack of the nodes it has no seed for, size sz and idx entries of
\* the path used, the verifier is at a round of the walk the signer completed.  A
\* signer's iterator has a seed for every node.
WalkAt(t, sz, idx) ==
  IF hidden = {} THEN t = <<>>
  ELSE /\ s_ret = "ok"
       /\ \E w, n, m : /\ IsWalk(hidden_nodes, w, n) /\ m \in 0..n
                       /\ w[n].stack = <<>> /\ w[n].nodes = path
                       /\ t = w[m].stack /\ sz = w[m].size /\ idx = Len(w[m].nodes)

\* What there is at such a round.
LEMMA WalkAtFacts ==
  ASSUME SignerInv, NEW t, NEW sz, NEW idx, WalkAt(t, sz, idx)
  PROVE  /\ Heights(t) /\ t \in Seq(Nodes) /\ Ordered(t)
         /\ hidden # {} => sz \in Int /\ idx \in 0..T_OPEN
         /\ hidden # {} /\ t = <<>> => idx = T_OPEN
<1>1. CASE hidden = {}
  <2>1. t = <<>> /\ Len(t) = 0
    BY <1>1 DEF WalkAt
  <2>2. t \in Seq(Nodes)
    BY <2>1
  <2> QED
    BY <1>1, <2>1, <2>2, Sizes DEF Heights, Ordered
<1>2. CASE hidden # {}
  <2>1. s_ret = "ok"
    BY <1>2 DEF WalkAt
  <2>2. PICK w, n, m : /\ IsWalk(hidden_nodes, w, n) /\ m \in 0..n
                       /\ t = w[m].stack /\ sz = w[m].size /\ idx = Len(w[m].nodes)
    BY <1>2 DEF WalkAt
  <2>3. /\ hidden \in OpeningSets /\ PathNodes(hidden, hidden_nodes)
        /\ hidden_nodes = ToSet(GetSensitiveNodeIndexes(hidden))
        /\ OpeningSize(hidden) <= T_OPEN
    BY <2>1, SignerWalks DEF SignerInv, HiddenInv
  <2>4. WalkOK(hidden_nodes, w[m])
    BY <2>2, <2>3, WalksOK
  <2> DEFINE acc == w[m]
  <2>5. /\ Heights(acc.stack) /\ acc.stack \in Seq(Nodes) /\ Ordered(acc.stack)
        /\ acc.size \in Int /\ Len(acc.nodes) <= T_OPEN /\ Len(acc.nodes) \in Nat
    <3>1. WalkOK(hidden_nodes, acc)
      BY <2>4
    <3> HIDE DEF acc
    <3>2. /\ acc.stack \in Seq(Nodes) /\ acc.size \in Int /\ Len(acc.nodes) <= T_OPEN
          /\ acc.nodes \in Seq(Nodes \ hidden_nodes)
      BY <3>1, WalkFrames
    <3> QED
      BY <3>1, <3>2 DEF WalkOK
  <2>6. acc.stack = <<>> => Len(acc.nodes) = T_OPEN
    BY <2>3, <2>4, WalkEnds
  <2> QED
    BY <2>2, <2>5, <2>6, Sizes
<1> QED
  BY <1>1, <1>2

\* It starts where the signer did.
LEMMA WalkAtStart ==
  ASSUME SignerInv, s_ret = "ok"
  PROVE  WalkAt(<<1>>, Cardinality(hidden_nodes) - 2 * TAU + 1, 0)
<1>1. hidden # {} /\ s_stack = <<>>
  BY DEF SignerInv
<1>2. PICK w, n : /\ IsWalk(hidden_nodes, w, n) /\ \A i \in 0..n : WalkOK(hidden_nodes, w[i])
                  /\ n \in Nat /\ SignerAt(w[n])
  BY SignerWalks
<1> DEFINE acc == w[n]
<1>3. acc.stack = <<>> /\ acc.nodes = path
  <2>1. WalkOK(hidden_nodes, acc) /\ SignerAt(acc)
    BY <1>2
  <2> HIDE DEF acc
  <2>2. acc.stack \in Seq(Nodes)
    BY <2>1, WalkFrames
  <2>3. FramesOf(acc.stack, 0) = <<>>
    BY <1>1, <2>1 DEF SignerAt
  <2> QED
    BY <2>1, <2>2, <2>3, FramesTop DEF SignerAt
<1>4. /\ w[0].stack = <<1>> /\ w[0].nodes = <<>>
      /\ w[0].size = Cardinality(hidden_nodes) - 2 * TAU + 1
  BY <1>2 DEF IsWalk, WalkStart
<1>5. 0 \in 0..n /\ Len(w[0].nodes) = 0
  BY <1>2, <1>4
<1> QED
  BY <1>1, <1>2, <1>3, <1>4, <1>5 DEF WalkAt

\* The next entry of the path is the node the signer revealed here, and the round
\* the verifier makes is the signer's.
LEMMA FollowWalk ==
  ASSUME SignerInv, NEW t, NEW sz, NEW idx, WalkAt(t, sz, idx), t # <<>>,
         NEW k, k = Last(t)
  PROVE  /\ hidden # {} /\ s_ret = "ok" /\ k \in Nodes
         /\ Revealed(hidden_nodes, k, sz) =>
              /\ idx < T_OPEN /\ path[idx + 1] = k /\ k \notin hidden_nodes
              /\ WalkAt(Front(t), sz, idx + 1)
         /\ IsLeaf(k) /\ ~Revealed(hidden_nodes, k, sz) =>
              k \in hidden_nodes /\ WalkAt(Front(t), sz, idx)
         /\ ~IsLeaf(k) /\ ~Revealed(hidden_nodes, k, sz) =>
              WalkAt(Front(t) \o <<2 * k + 1, 2 * k>>, SizeAfter(k, sz), idx)
<1>1. hidden # {} /\ s_ret = "ok"
  BY DEF WalkAt
<1>2. PICK w, n, m : /\ IsWalk(hidden_nodes, w, n) /\ m \in 0..n
                     /\ w[n].stack = <<>> /\ w[n].nodes = path
                     /\ t = w[m].stack /\ sz = w[m].size /\ idx = Len(w[m].nodes)
  BY <1>1 DEF WalkAt
<1>3. /\ hidden \in OpeningSets /\ hidden \subseteq Leaves
      /\ PathNodes(hidden, hidden_nodes)
      /\ hidden_nodes = ToSet(GetSensitiveNodeIndexes(hidden))
      /\ OpeningSize(hidden) <= T_OPEN
  BY <1>1, SignerWalks DEF SignerInv, HiddenInv
<1>4. \A i \in 0..n : WalkOK(hidden_nodes, w[i])
  BY <1>2, <1>3, WalksOK
<1>5. n \in Nat /\ m + 1 \in 0..n /\ m \in 0..n-1
  <2>1. m # n
    BY <1>2
  <2> QED
    BY <1>2, <2>1 DEF IsWalk
<1> DEFINE acc == w[m]
           new == w[m + 1]
           u == Front(t) \o <<2 * k + 1, 2 * k>>
           sz1 == IF k \in hidden_nodes THEN sz ELSE sz + 1
<1>6. new = WalkRound(hidden_nodes, acc)
  BY <1>2, <1>5 DEF IsWalk
<1>7. WalkOK(hidden_nodes, acc) /\ WalkOK(hidden_nodes, new)
  BY <1>4, <1>5
<1>8. /\ Len(new.nodes) <= Len(path)
      /\ \A i \in 1..Len(new.nodes) : path[i] = new.nodes[i]
  <2> DEFINE q == m + 1
  <2>1. q \in 0..n /\ new = w[q] /\ hidden_nodes \subseteq Nodes
    BY <1>3, <1>5 DEF PathNodes
  <2> HIDE DEF q, new
  <2>2. Extends(w[n].nodes, w[q].nodes)
    <3>1. IsWalk(hidden_nodes, w, n)
      BY <1>2
    <3>2. q \in 0..n /\ hidden_nodes \subseteq Nodes
      BY <2>1
    <3> QED
      BY <1>4, <3>1, <3>2, WalkPrefix
  <2> QED
    BY <1>2, <2>1, <2>2 DEF Extends
<1>9. WalkAt(new.stack, new.size, Len(new.nodes))
  BY <1>1, <1>2, <1>5 DEF WalkAt
<1>10. t = acc.stack /\ sz = acc.size /\ idx = Len(acc.nodes)
  BY <1>2
<1> HIDE DEF acc, new
<1>11. /\ acc \in [stack : Seq(Nodes), nodes : Seq(Nodes), size : Int]
       /\ acc.nodes \in Seq(Nodes) /\ idx \in Nat
  <2>1. /\ acc \in [stack : Seq(Nodes), nodes : Seq(Nodes), size : Int]
        /\ acc.nodes \in Seq(Nodes \ hidden_nodes)
    BY <1>7, WalkFrames
  <2>2. acc.nodes \in Seq(Nodes)
    BY <2>1
  <2> QED
    BY <1>10, <2>1, <2>2
<1>12. k \in Nodes
  BY <1>10, <1>11, FrontLast
<1>13. \/ /\ Revealed(hidden_nodes, k, sz)
          /\ new = [stack |-> Front(t), size |-> sz, nodes |-> Append(acc.nodes, k)]
       \/ /\ IsLeaf(k) /\ k \in hidden_nodes /\ ~Revealed(hidden_nodes, k, sz)
          /\ new = [stack |-> Front(t), size |-> sz, nodes |-> acc.nodes]
       \/ /\ ~IsLeaf(k) /\ ~Revealed(hidden_nodes, k, sz)
          /\ new = [stack |-> u, size |-> sz1, nodes |-> acc.nodes]
  BY <1>6, <1>10, <1>11 DEF WalkRound, Revealed
<1> HIDE DEF u, sz1
<1>14. ASSUME Revealed(hidden_nodes, k, sz)
       PROVE  /\ idx < T_OPEN /\ path[idx + 1] = k /\ k \notin hidden_nodes
              /\ WalkAt(Front(t), sz, idx + 1)
  <2>1. k \notin hidden_nodes
    BY <1>14 DEF Revealed
  <2>2. idx < T_OPEN
    BY <1>3, <1>7, <1>10, <2>1, RevealedFits
  <2>3. new = [stack |-> Front(t), size |-> sz, nodes |-> Append(acc.nodes, k)]
    BY <1>13, <1>14
  <2>4. new.nodes = Append(acc.nodes, k) /\ new.stack = Front(t) /\ new.size = sz
    BY <2>3
  <2>5. Len(new.nodes) = idx + 1 /\ new.nodes[idx + 1] = k
    BY <1>10, <1>11, <1>12, <2>4, AppendFacts
  <2>6. idx + 1 \in 1..Len(new.nodes)
    BY <1>11, <2>5
  <2> QED
    BY <1>8, <1>9, <2>1, <2>2, <2>4, <2>5, <2>6
<1>15. ASSUME IsLeaf(k), ~Revealed(hidden_nodes, k, sz)
       PROVE  k \in hidden_nodes /\ WalkAt(Front(t), sz, idx)
  <2>1. k \in hidden_nodes /\ new = [stack |-> Front(t), size |-> sz, nodes |-> acc.nodes]
    BY <1>13, <1>15
  <2> QED
    BY <1>9, <1>10, <2>1
<1>16. ASSUME ~IsLeaf(k), ~Revealed(hidden_nodes, k, sz)
       PROVE  WalkAt(u, SizeAfter(k, sz), idx)
  <2>1. new = [stack |-> u, size |-> sz1, nodes |-> acc.nodes]
    BY <1>13, <1>16
  <2>2. SizeAfter(k, sz) = sz1
    BY DEF SizeAfter, sz1
  <2> QED
    BY <1>9, <1>10, <2>1, <2>2
<1> QED
  BY <1>1, <1>12, <1>14, <1>15, <1>16 DEF u

-----------------------------------------------------------------------------
(***************************************************************************)
(* The stack of a plain iterator.                                          *)
(***************************************************************************)

\* The stack s holds the nodes of x: those of t have no seed, and those above them
\* have their own and are on no hidden path.
StackOf(s, x, t) ==
  /\ s = FramesOf(x, Len(t)) /\ Heights(x)
  /\ Len(t) <= Len(x) /\ \A i \in 1..Len(t) : x[i] = t[i]
  /\ \A i \in Len(t)+1..Len(x) : x[i] \notin hidden_nodes

\* Its top.
LEMMA StackTop ==
  ASSUME NEW s, NEW x, NEW t \in Seq(Nodes), StackOf(s, x, t), x # <<>>, NEW k, k = Last(x)
  PROVE  /\ s # <<>> /\ k \in Nodes /\ Last(s).k = k
         /\ Last(s).seed = Unknown => x = t
         /\ Last(s).seed # Unknown => Last(s).seed = k /\ k \notin hidden_nodes /\ Len(t) < Len(x)
         /\ x = t => Last(s).seed = Unknown
<1>1. x \in Seq(Nodes) /\ Len(t) \in Nat /\ Len(t) <= Len(x)
  BY DEF StackOf, Heights
<1>2. Len(x) \in Nat \ {0} /\ k \in Nodes /\ k = x[Len(x)]
  BY <1>1, FrontLast
<1>3. s = FramesOf(x, Len(t))
  BY DEF StackOf
<1>4. /\ s # <<>> /\ Last(s).k = k
      /\ Last(s).seed = IF Len(x) <= Len(t) THEN Unknown ELSE k
  BY <1>1, <1>3, FramesTop
<1>5. k # Unknown
  BY <1>2, SeedFacts
<1>6. Len(x) <= Len(t) => x = t
  <2> SUFFICES ASSUME Len(x) <= Len(t) PROVE x = t
    OBVIOUS
  <2>1. Len(x) = Len(t)
    BY <1>1, <1>2
  <2>2. \A i \in 1..Len(t) : x[i] = t[i]
    BY DEF StackOf
  <2>3. x = [i \in 1..Len(t) |-> x[i]] /\ t = [i \in 1..Len(t) |-> t[i]]
    BY <1>1, <2>1
  <2> QED
    BY <2>2, <2>3
<1>7. Len(t) < Len(x) => k \notin hidden_nodes
  <2>1. \A i \in Len(t)+1..Len(x) : x[i] \notin hidden_nodes
    BY DEF StackOf
  <2> QED
    BY <1>1, <1>2, <2>1
<1> QED
  BY <1>1, <1>2, <1>4, <1>5, <1>6, <1>7

\* A child of a node that is on no hidden path is on none.
LEMMA ChildrenFree ==
  ASSUME HiddenInv, NEW k \in Nodes, k \notin hidden_nodes
  PROVE  2 * k \notin hidden_nodes /\ 2 * k + 1 \notin hidden_nodes
<1>1. \A c \in hidden_nodes : c > 1 => c \div 2 \in hidden_nodes
  BY HiddenPaths DEF PathNodes
<1>2. k \in Nat \ {0}
  BY NodesSmall
<1>3. (2 * k) \div 2 = k /\ (2 * k + 1) \div 2 = k /\ 2 * k > 1 /\ 2 * k + 1 > 1
  BY <1>2
<1> QED
  BY <1>1, <1>3

\* Popping it.
LEMMA StackPop ==
  ASSUME NEW s, NEW x, NEW t \in Seq(Nodes), StackOf(s, x, t), x # <<>>
  PROVE  /\ Len(t) < Len(x) => StackOf(Front(s), Front(x), t)
         /\ x = t => StackOf(Front(s), Front(x), Front(t))
<1>1. x \in Seq(Nodes) /\ Len(t) \in Nat /\ s = FramesOf(x, Len(t)) /\ Heights(x)
  BY DEF StackOf, Heights
<1>2. /\ Len(x) \in Nat \ {0} /\ Len(Front(x)) = Len(x) - 1
      /\ \A i \in 1 .. Len(x) - 1 : Front(x)[i] = x[i]
  BY <1>1, FrontLast
<1>3. Heights(Front(x)) /\ Front(s) = FramesOf(Front(x), Len(t))
  BY <1>1, PopKeeps, FramesTop
<1>4. ASSUME Len(t) < Len(x) PROVE StackOf(Front(s), Front(x), t)
  <2>1. Len(t) <= Len(Front(x)) /\ \A i \in 1..Len(t) : i \in 1 .. Len(x) - 1
    BY <1>1, <1>2, <1>4
  <2>2. \A i \in Len(t)+1..Len(Front(x)) : i \in 1 .. Len(x) - 1 /\ i \in Len(t)+1..Len(x)
    BY <1>1, <1>2
  <2> QED
    BY <1>2, <1>3, <2>1, <2>2 DEF StackOf
<1>5. ASSUME x = t PROVE StackOf(Front(s), Front(x), Front(x))
  <2> DEFINE y == Front(x)
  <2>1. FramesOf(y, Len(x)) = FramesOf(y, Len(y))
    <3>1. \A i \in 1..Len(y) : i <= Len(x) /\ i <= Len(y)
      BY <1>2
    <3> HIDE DEF y
    <3> QED
      BY <3>1 DEF FramesOf
  <2>2. Front(s) = FramesOf(y, Len(y))
    BY <1>3, <1>5, <2>1
  <2>3. Len(y) <= Len(y) /\ Len(y)+1..Len(y) = {}
    BY <1>2
  <2> QED
    BY <1>3, <2>2, <2>3 DEF StackOf
<1> QED
  BY <1>4, <1>5

\* Expanding it: below a node with a seed, below one the path has a seed for, and
\* below one that stays without.
LEMMA StackPush ==
  ASSUME HiddenInv, NEW s, NEW x, NEW t \in Seq(Nodes), StackOf(s, x, t), x # <<>>,
         NEW k, k = Last(x), ~IsLeaf(k), NEW u, u = Front(x) \o <<2 * k + 1, 2 * k>>
  PROVE  /\ u \in Seq(Nodes)
         /\ Len(t) < Len(x) => StackOf(WithChildren(Front(s), k, k), u, t)
         /\ x = t /\ k \notin hidden_nodes =>
              StackOf(WithChildren(Front(s), k, k), u, Front(t))
         /\ x = t => StackOf(WithChildren(Front(s), k, Unknown), u, u)
<1> DEFINE L == Len(x)
           p == Len(t)
<1>1. x \in Seq(Nodes) /\ p \in Nat /\ s = FramesOf(x, p) /\ Heights(x)
  BY DEF StackOf, Heights
<1>2. /\ L \in Nat \ {0} /\ k \in Nodes /\ k = x[L] /\ Len(Front(x)) = L - 1
      /\ \A i \in 1 .. L - 1 : Front(x)[i] = x[i]
  BY <1>1, FrontLast
<1>3. k \in Nat \ {0} /\ 2 * k \in Nodes /\ 2 * k + 1 \in Nodes
  BY <1>2, NodesSmall
<1>4. u \in Seq(Nodes) /\ Heights(u)
  BY <1>1, PushKeeps
<1>5. /\ Len(u) = L + 1 /\ \A i \in 1 .. L - 1 : u[i] = x[i]
      /\ u[L] = 2 * k + 1 /\ u[L + 1] = 2 * k
  BY <1>1, <1>3, TwoForTop, SMTT(30)
<1>6. k \notin hidden_nodes => u[L] \notin hidden_nodes /\ u[L + 1] \notin hidden_nodes
  BY <1>2, <1>5, ChildrenFree
<1>7. /\ \A q \in Nat : q < L /\ (\A i \in 1 .. L - 1 : i <= p <=> i <= q)
                        => WithChildren(Front(s), k, k) = FramesOf(u, q)
      /\ p >= L => WithChildren(Front(s), k, Unknown) = FramesOf(u, Len(u))
  BY <1>1, FramesPush
<1>8. ASSUME p < L PROVE StackOf(WithChildren(Front(s), k, k), u, t)
  <2>1. k \notin hidden_nodes
    BY <1>8, StackTop
  <2>2. WithChildren(Front(s), k, k) = FramesOf(u, p)
    BY <1>1, <1>7, <1>8
  <2>3. p <= Len(u) /\ \A i \in 1..p : u[i] = t[i]
    <3>1. \A i \in 1..p : i \in 1 .. L - 1 /\ x[i] = t[i]
      BY <1>1, <1>2, <1>8 DEF StackOf
    <3> QED
      BY <1>1, <1>2, <1>5, <1>8, <3>1
  <2>4. ASSUME NEW i \in p+1..Len(u) PROVE u[i] \notin hidden_nodes
    <3>1. i = L \/ i = L + 1 \/ (i \in 1 .. L - 1 /\ i \in p+1..L)
      BY <1>1, <1>2, <1>5
    <3>2. i \in p+1..L => x[i] \notin hidden_nodes
      BY DEF StackOf
    <3> QED
      BY <1>5, <1>6, <2>1, <3>1, <3>2
  <2> QED
    BY <1>4, <2>2, <2>3, <2>4 DEF StackOf
<1>9. ASSUME x = t, k \notin hidden_nodes
      PROVE  StackOf(WithChildren(Front(s), k, k), u, Front(x))
  <2> DEFINE q == L - 1
  <2>1. q \in Nat /\ q < L /\ (\A i \in 1 .. L - 1 : i <= p <=> i <= q) /\ Len(Front(x)) = q
    BY <1>2, <1>9
  <2>2. WithChildren(Front(s), k, k) = FramesOf(u, Len(Front(x)))
    <3> HIDE DEF q
    <3> QED
      BY <1>7, <2>1
  <2>3. Len(Front(x)) <= Len(u) /\ \A i \in 1..Len(Front(x)) : u[i] = Front(x)[i]
    BY <1>2, <1>5
  <2>4. ASSUME NEW i \in Len(Front(x))+1..Len(u) PROVE u[i] \notin hidden_nodes
    <3>1. i = L \/ i = L + 1
      BY <1>2, <1>5
    <3> QED
      BY <1>6, <1>9, <3>1
  <2> QED
    BY <1>4, <2>2, <2>3, <2>4 DEF StackOf
<1>10. ASSUME x = t PROVE StackOf(WithChildren(Front(s), k, Unknown), u, u)
  <2>1. WithChildren(Front(s), k, Unknown) = FramesOf(u, Len(u))
    BY <1>2, <1>7, <1>10
  <2>2. Len(u) <= Len(u) /\ Len(u)+1..Len(u) = {}
    BY <1>2, <1>5
  <2> QED
    BY <1>4, <2>1, <2>2 DEF StackOf
<1> QED
  BY <1>4, <1>8, <1>9, <1>10

\* The frames of any such stack are in range.
LEMMA StackFits ==
  ASSUME NEW s, NEW x, NEW t \in Seq(Nodes), StackOf(s, x, t)
  PROVE  Len(s) <= H + 1 /\ \A j \in 1..Len(s) : s[j].k \in Nodes
<1>1. x \in Seq(Nodes) /\ Len(t) \in Nat /\ s = FramesOf(x, Len(t)) /\ Len(x) <= H + 1
  BY DEF StackOf, Heights
<1> DEFINE S == [k : Nodes, seed : Int]
<1>2. Len(s) = Len(x) /\ s \in Seq(S)
  BY <1>1, FramesTop
<1> HIDE DEF S
<1>3. \A j \in 1..Len(s) : s[j] \in S
  BY <1>2
<1> QED
  BY <1>1, <1>2, <1>3 DEF S

-----------------------------------------------------------------------------
(***************************************************************************)
(* The pairs of the engine.                                                *)
(***************************************************************************)

PairRecord == [kA : Nodes, seedA : Int, kB : Nodes, seedB : Int]

\* Two siblings that are on no hidden path, each with its own seed.
IsPair(q) ==
  /\ q \in PairRecord
  /\ q.kB = q.kA + 1 /\ q.kA % 2 = 0
  /\ q.seedA = q.kA /\ q.seedB = q.kB
  /\ q.kA \notin hidden_nodes /\ q.kB \notin hidden_nodes

\* A stack of them.  Each pair is at least one level further down than its place in
\* the stack, except for the top one, so the stack has at most a pair per level.
PairsOf(p) ==
  /\ p \in Seq(PairRecord) /\ Len(p) <= H
  /\ \A i \in 1..Len(p) : IsPair(p[i])
  /\ \A i \in 1 .. Len(p) - 1 : Pow2[i + 1] <= p[i].kA
  /\ p # <<>> => Pow2[Len(p)] <= p[Len(p)].kA

\* The two nodes of a pair are leaves, or neither is: there is no odd leaf out.
LEMMA PairLevel ==
  ASSUME NEW q, IsPair(q)
  PROVE  IsLeaf(q.kA) <=> IsLeaf(q.kB)
<1>1. /\ q.kA \in Nodes /\ q.kB = q.kA + 1 /\ q.kA % 2 = 0
  BY DEF IsPair, PairRecord
<1>2. q.kA \in Nat /\ M \in Nat /\ M % 2 = 0
  BY <1>1, NodesSmall, Sizes, PairAssumption
<1> QED
  BY <1>1, <1>2 DEF IsLeaf

\* The children of a node that is on no hidden path.
LEMMA ChildrenPair ==
  ASSUME HiddenInv, NEW k \in Nodes, k \notin hidden_nodes, ~IsLeaf(k)
  PROVE  /\ IsPair(ChildPair(k, k))
         /\ ChildPair(k, k).kA = 2 * k /\ ChildPair(k, k).kB = 2 * k + 1
<1>1. k \in Nat \ {0} /\ 2 * k \in Nodes /\ 2 * k + 1 \in Nodes
  BY NodesSmall
<1>2. ChildPair(k, k) = [kA |-> 2 * k, seedA |-> 2 * k, kB |-> 2 * k + 1, seedB |-> 2 * k + 1]
  BY SeedFacts DEF ChildPair, Pair
<1>3. 2 * k \notin hidden_nodes /\ 2 * k + 1 \notin hidden_nodes
  BY ChildrenFree
<1>4. (2 * k) % 2 = 0 /\ 2 * k \in Int /\ 2 * k + 1 \in Int
  BY <1>1
<1> DEFINE a == 2 * k
           b == 2 * k + 1
<1>5. b = a + 1
  OBVIOUS
<1> HIDE DEF a, b
<1>6. IsPair([kA |-> a, seedA |-> a, kB |-> b, seedB |-> b])
  BY <1>1, <1>3, <1>4, <1>5 DEF IsPair, PairRecord, a, b
<1> QED
  BY <1>2, <1>6 DEF a, b

\* The top of such a stack, and what is left when it is popped.
LEMMA PairsTop ==
  ASSUME NEW p, PairsOf(p), p # <<>>
  PROVE  /\ Last(p) \in PairRecord /\ IsPair(Last(p)) /\ Pow2[Len(p)] <= Last(p).kA
         /\ Len(p) \in 1..H
         /\ PairsOf(Front(p)) /\ Len(Front(p)) = Len(p) - 1
<1>1. p \in Seq(PairRecord) /\ Len(p) <= H /\ H \in Nat
  BY Sizes DEF PairsOf
<1>2. /\ Len(p) \in Nat \ {0} /\ Last(p) = p[Len(p)] /\ Last(p) \in PairRecord
      /\ Front(p) \in Seq(PairRecord) /\ Len(Front(p)) = Len(p) - 1
      /\ \A i \in 1 .. Len(p) - 1 : Front(p)[i] = p[i]
  BY <1>1, FrontLast
<1>3. IsPair(Last(p)) /\ Pow2[Len(p)] <= Last(p).kA
  <2>1. Len(p) \in 1..Len(p)
    BY <1>2
  <2> QED
    BY <1>2, <2>1 DEF PairsOf
<1> DEFINE r == Front(p)
           L == Len(p)
<1>4. /\ \A i \in 1..L : IsPair(p[i])
      /\ \A i \in 1 .. L - 1 : Pow2[i + 1] <= p[i].kA
  BY DEF PairsOf
<1> HIDE DEF r
<1>5. \A i \in 1..Len(r) : i \in 1..L /\ i \in 1 .. L - 1 /\ r[i] = p[i]
  BY <1>2 DEF r
<1>6. \A i \in 1 .. Len(r) - 1 : i \in 1 .. Len(r)
  BY <1>2 DEF r
<1>7. ASSUME r # <<>> PROVE Pow2[Len(r)] <= r[Len(r)].kA
  <2> DEFINE l == Len(r)
  <2>1. l \in 1..l /\ l = L - 1 /\ l \in 1 .. L - 1 /\ l + 1 = L
    <3>1. l # 0
      BY <1>2, <1>7 DEF r
    <3> QED
      BY <1>2, <3>1 DEF r
  <2>2. Pow2[l + 1] <= r[l].kA
    BY <1>4, <1>5, <2>1
  <2>3. l \in 0..H /\ L \in 1..H
    BY <1>1, <1>2, <2>1
  <2>4. Pow2[L] = 2 * Pow2[L - 1] /\ Pow2[L - 1] \in Nat
    BY <2>1, <2>3, Powers
  <2>5. r[l].kA \in Nat
    <3>1. p[l] \in PairRecord
      BY <1>1, <2>1
    <3>2. p[l].kA \in Nodes
      BY <3>1 DEF PairRecord
    <3> QED
      BY <1>5, <2>1, <3>2, NodesSmall
  <2> HIDE DEF l
  <2>6. Pow2[l] <= r[l].kA
    BY <2>1, <2>2, <2>4, <2>5
  <2> QED
    BY <2>6 DEF l
<1>8. PairsOf(r)
  BY <1>1, <1>2, <1>4, <1>5, <1>6, <1>7 DEF PairsOf, r
<1> QED
  BY <1>1, <1>2, <1>3, <1>8 DEF r

\* A pair on top of a stack whose pairs are all as deep as those below a top are.
LEMMA PairsPush ==
  ASSUME NEW p, PairsOf(p), NEW q, IsPair(q), Len(p) < H,
         p # <<>> => Pow2[Len(p) + 1] <= p[Len(p)].kA,
         Pow2[Len(p) + 1] <= q.kA
  PROVE  PairsOf(Append(p, q))
<1> DEFINE u == Append(p, q)
           L == Len(p)
<1>1. p \in Seq(PairRecord) /\ q \in PairRecord
  BY DEF PairsOf, IsPair
<1>2. /\ u \in Seq(PairRecord) /\ Len(u) = L + 1 /\ L \in Nat
      /\ \A i \in 1..L : u[i] = p[i]
      /\ u[L + 1] = q
  BY <1>1, AppendFacts
<1>3. /\ \A i \in 1..L : IsPair(p[i])
      /\ \A i \in 1 .. L - 1 : Pow2[i + 1] <= p[i].kA
  BY DEF PairsOf
<1> HIDE DEF u
<1>4. \A i \in 1..L+1 : i = L + 1 \/ i \in 1..L
  BY <1>2
<1>5. ASSUME NEW i \in 1 .. Len(u) - 1 PROVE Pow2[i + 1] <= u[i].kA
  <2>1. i \in 1..L /\ (i = L \/ i \in 1 .. L - 1) /\ u[i] = p[i]
    BY <1>2
  <2>2. i = L => p # <<>>
    BY <2>1
  <2> QED
    BY <1>3, <2>1, <2>2
<1>6. Len(u) <= H
  BY <1>2, Sizes
<1> QED
  BY <1>2, <1>3, <1>4, <1>5, <1>6 DEF PairsOf, u

\* The nodes that are still to be visited: those of the outer stack t, then those of
\* the pairs p, the second of a pair below the first.
NodesOf(x, t, p) ==
  /\ x \in Seq(Nodes) /\ Len(x) = Len(t) + 2 * Len(p)
  /\ \A i \in 1..Len(t) : x[i] = t[i]
  /\ \A j \in 1..Len(p) : x[Len(t) + 2 * j - 1] = p[j].kB /\ x[Len(t) + 2 * j] = p[j].kA

\* A sequence is what is before its last element, and that element.
LEMMA SplitLast ==
  ASSUME NEW S, NEW s \in Seq(S), s # <<>>
  PROVE  s = Append(Front(s), Last(s))
<1> DEFINE f == Front(s)
           l == Last(s)
<1>1. /\ Len(s) \in Nat \ {0} /\ f \in Seq(S) /\ Len(f) = Len(s) - 1
      /\ \A i \in 1 .. Len(s) - 1 : f[i] = s[i]
      /\ l \in S /\ l = s[Len(s)]
  BY FrontLast
<1> HIDE DEF f, l
<1>2. /\ Append(f, l) \in Seq(S) /\ Len(Append(f, l)) = Len(s)
      /\ \A i \in 1 .. Len(s) - 1 : Append(f, l)[i] = s[i]
      /\ Append(f, l)[Len(s)] = s[Len(s)]
  BY <1>1
<1> DEFINE u == Append(f, l)
<1>3. /\ u \in Seq(S) /\ Len(u) = Len(s)
      /\ \A i \in 1 .. Len(s) : u[i] = s[i]
  BY <1>1, <1>2
<1> HIDE DEF u
<1>4. u = [i \in 1..Len(s) |-> u[i]] /\ s = [i \in 1..Len(s) |-> s[i]]
  BY <1>3
<1>5. u = s
  BY <1>3, <1>4
<1> QED
  BY <1>5 DEF u, f, l

\* Two more elements.
LEMMA TwoAppends ==
  ASSUME NEW S, NEW s \in Seq(S), NEW c \in S, NEW d \in S
  PROVE  s \o <<c, d>> = Append(Append(s, c), d)
<1> DEFINE u == s \o <<c, d>>
           v == Append(Append(s, c), d)
           L == Len(s)
<1>1. /\ u \in Seq(S) /\ Len(u) = L + 2 /\ L \in Nat
      /\ \A i \in 1..L : u[i] = s[i]
      /\ u[L + 1] = c /\ u[L + 2] = d
  <2>1. <<c, d>> \in Seq(S) /\ Len(<<c, d>>) = 2
    OBVIOUS
  <2> QED
    BY <2>1
<1>2. /\ v \in Seq(S) /\ Len(v) = L + 2
      /\ \A i \in 1..L : v[i] = s[i]
      /\ v[L + 1] = c /\ v[L + 2] = d
  OBVIOUS
<1> HIDE DEF u, v
<1>3. \A i \in 1..L+2 : i \in 1..L \/ i = L + 1 \/ i = L + 2
  BY <1>1
<1>4. \A i \in 1..L+2 : u[i] = v[i]
  BY <1>1, <1>2, <1>3
<1>5. u = [i \in 1..L+2 |-> u[i]] /\ v = [i \in 1..L+2 |-> v[i]]
  BY <1>1, <1>2
<1>6. u = v
  BY <1>4, <1>5
<1> QED
  BY <1>6 DEF u, v

\* Without pairs they are those of the outer stack.
LEMMA NodesOfNone ==
  /\ \A t \in Seq(Nodes) : NodesOf(t, t, <<>>)
  /\ \A t \in Seq(Nodes) : \A x : NodesOf(x, t, <<>>) => x = t
<1>1. Len(<<>>) = 0 /\ 1..0 = {}
  OBVIOUS
<1>2. ASSUME NEW t \in Seq(Nodes) PROVE NodesOf(t, t, <<>>)
  BY <1>1 DEF NodesOf
<1>3. ASSUME NEW t \in Seq(Nodes), NEW x, NodesOf(x, t, <<>>) PROVE x = t
  <2>1. x \in Seq(Nodes) /\ Len(x) = Len(t) /\ \A i \in 1..Len(t) : x[i] = t[i]
    BY <1>1, <1>3 DEF NodesOf
  <2>2. x = [i \in 1..Len(t) |-> x[i]] /\ t = [i \in 1..Len(t) |-> t[i]]
    BY <2>1
  <2> QED
    BY <2>1, <2>2
<1> QED
  BY <1>2, <1>3

\* The top pair has the last two.
LEMMA NodesOfPop ==
  ASSUME NEW x, NEW t \in Seq(Nodes), NEW p \in Seq(PairRecord), NodesOf(x, t, p), p # <<>>
  PROVE  \E r \in Seq(Nodes) : /\ NodesOf(r, t, Front(p))
                               /\ x = Append(Append(r, Last(p).kB), Last(p).kA)
<1> DEFINE y == Front(x)
           r == Front(y)
           l == Len(t)
           L == Len(p)
<1>1. /\ L \in Nat \ {0} /\ Last(p) = p[L] /\ Len(Front(p)) = L - 1
      /\ \A i \in 1 .. L - 1 : Front(p)[i] = p[i]
  BY FrontLast
<1>2. /\ x \in Seq(Nodes) /\ Len(x) = l + 2 * L /\ l \in Nat
      /\ \A i \in 1..l : x[i] = t[i]
      /\ \A j \in 1..L : x[l + 2 * j - 1] = p[j].kB /\ x[l + 2 * j] = p[j].kA
  BY DEF NodesOf
<1>3. x # <<>>
  BY <1>1, <1>2
<1>4. /\ y \in Seq(Nodes) /\ Len(y) = l + 2 * L - 1
      /\ \A i \in 1 .. l + 2 * L - 1 : y[i] = x[i]
      /\ Last(x) = x[l + 2 * L] /\ x = Append(y, Last(x))
  <2> HIDE DEF y
  <2>1. /\ Front(x) \in Seq(Nodes) /\ Len(Front(x)) = Len(x) - 1
        /\ \A i \in 1 .. Len(x) - 1 : Front(x)[i] = x[i]
        /\ Last(x) = x[Len(x)]
    BY <1>2, <1>3, FrontLast
  <2>2. x = Append(Front(x), Last(x))
    BY <1>2, <1>3, SplitLast
  <2> QED
    BY <1>2, <2>1, <2>2 DEF y
<1> HIDE DEF y
<1>5. y # <<>>
  BY <1>1, <1>2, <1>4
<1>6. /\ r \in Seq(Nodes) /\ Len(r) = l + 2 * L - 2
      /\ \A i \in 1 .. l + 2 * L - 2 : r[i] = y[i]
      /\ Last(y) = y[l + 2 * L - 1] /\ y = Append(r, Last(y))
  <2>1. (l + 2 * L - 1) - 1 = l + 2 * L - 2
    BY <1>1, <1>2
  <2> QED
    <3> HIDE DEF r
    <3>1. /\ Front(y) \in Seq(Nodes) /\ Len(Front(y)) = Len(y) - 1
          /\ \A i \in 1 .. Len(y) - 1 : Front(y)[i] = y[i]
          /\ Last(y) = y[Len(y)]
      BY <1>4, <1>5, FrontLast
    <3>2. y = Append(Front(y), Last(y))
      BY <1>4, <1>5, SplitLast
    <3> QED
      BY <1>4, <2>1, <3>1, <3>2 DEF r
<1> HIDE DEF r
<1>7. Last(x) = Last(p).kA /\ Last(y) = Last(p).kB
  <2>1. L \in 1..L /\ l + 2 * L - 1 \in 1 .. l + 2 * L - 1
    BY <1>1, <1>2
  <2> QED
    BY <1>1, <1>2, <1>4, <1>6, <2>1
<1>8. NodesOf(r, t, Front(p))
  <2>1. Len(r) = l + 2 * Len(Front(p))
    BY <1>1, <1>2, <1>6
  <2>2. \A i \in 1 .. l + 2 * L - 2 : r[i] = x[i]
    <3>1. \A i \in 1 .. l + 2 * L - 2 : i \in 1 .. l + 2 * L - 1
      BY <1>1, <1>2
    <3> QED
      BY <1>4, <1>6, <3>1
  <2>3. \A i \in 1..l : r[i] = t[i]
    <3>1. \A i \in 1..l : i \in 1 .. l + 2 * L - 2
      BY <1>1, <1>2
    <3> QED
      BY <1>2, <2>2, <3>1
  <2>4. ASSUME NEW j \in 1 .. L - 1
        PROVE  r[l + 2 * j - 1] = Front(p)[j].kB /\ r[l + 2 * j] = Front(p)[j].kA
    <3>1. /\ j \in 1..L /\ l + 2 * j - 1 \in 1 .. l + 2 * L - 2
          /\ l + 2 * j \in 1 .. l + 2 * L - 2
      BY <1>1, <1>2
    <3> QED
      BY <1>1, <1>2, <2>2, <3>1
  <2> QED
    BY <1>1, <1>6, <2>1, <2>3, <2>4 DEF NodesOf
<1> QED
  BY <1>4, <1>6, <1>7, <1>8

\* A pair more.
LEMMA NodesOfPush ==
  ASSUME NEW r, NEW t \in Seq(Nodes), NEW p \in Seq(PairRecord), NodesOf(r, t, p),
         NEW q \in PairRecord
  PROVE  NodesOf(Append(Append(r, q.kB), q.kA), t, Append(p, q))
<1> DEFINE y == Append(r, q.kB)
           x == Append(y, q.kA)
           u == Append(p, q)
           l == Len(t)
           L == Len(p)
<1>0. q.kA \in Nodes /\ q.kB \in Nodes
  BY DEF PairRecord
<1>1. /\ u \in Seq(PairRecord) /\ Len(u) = L + 1 /\ L \in Nat
      /\ \A i \in 1..L : u[i] = p[i]
      /\ u[L + 1] = q
  BY AppendFacts
<1>2. /\ r \in Seq(Nodes) /\ Len(r) = l + 2 * L /\ l \in Nat
      /\ \A i \in 1..l : r[i] = t[i]
      /\ \A j \in 1..L : r[l + 2 * j - 1] = p[j].kB /\ r[l + 2 * j] = p[j].kA
  BY DEF NodesOf
<1>3. /\ y \in Seq(Nodes) /\ Len(y) = l + 2 * L + 1
      /\ \A i \in 1 .. l + 2 * L : y[i] = r[i]
      /\ y[l + 2 * L + 1] = q.kB
  <2> DEFINE k == Len(r)
             b == q.kB
  <2>1. r \in Seq(Nodes) /\ b \in Nodes /\ y = Append(r, b)
    BY <1>0, <1>2
  <2> HIDE DEF y, b
  <2>2. /\ y \in Seq(Nodes) /\ Len(y) = k + 1
        /\ \A i \in 1..k : y[i] = r[i]
        /\ y[k + 1] = b
    BY <2>1
  <2>3. k = l + 2 * L
    BY <1>2
  <2> HIDE DEF k
  <2> QED
    BY <2>2, <2>3 DEF b
<1> HIDE DEF y, u
<1>4. /\ x \in Seq(Nodes) /\ Len(x) = l + 2 * L + 1 + 1
      /\ \A i \in 1 .. l + 2 * L + 1 : x[i] = y[i]
      /\ x[l + 2 * L + 1 + 1] = q.kA
  <2> DEFINE k == Len(y)
             a == q.kA
  <2>1. y \in Seq(Nodes) /\ a \in Nodes /\ x = Append(y, a)
    BY <1>0, <1>3
  <2> HIDE DEF x, a
  <2>2. /\ x \in Seq(Nodes) /\ Len(x) = k + 1
        /\ \A i \in 1..k : x[i] = y[i]
        /\ x[k + 1] = a
    BY <2>1
  <2>3. k = l + 2 * L + 1
    BY <1>3
  <2> HIDE DEF k
  <2> QED
    BY <2>2, <2>3 DEF a
<1> HIDE DEF x
<1>5. \A i \in 1 .. l + 2 * L : x[i] = r[i]
  <2>1. \A i \in 1 .. l + 2 * L : i \in 1 .. l + 2 * L + 1
    BY <1>1, <1>2
  <2> QED
    BY <1>3, <1>4, <2>1
<1>6. \A i \in 1..l : x[i] = t[i]
  <2>1. \A i \in 1..l : i \in 1 .. l + 2 * L
    BY <1>1, <1>2
  <2> QED
    BY <1>2, <1>5, <2>1
<1>7. ASSUME NEW j \in 1..Len(u)
      PROVE  x[l + 2 * j - 1] = u[j].kB /\ x[l + 2 * j] = u[j].kA
  <2>1. CASE j \in 1..L
    <3>1. l + 2 * j - 1 \in 1 .. l + 2 * L /\ l + 2 * j \in 1 .. l + 2 * L
      BY <1>1, <1>2, <2>1
    <3> QED
      BY <1>1, <1>2, <1>5, <2>1, <3>1
  <2>2. CASE j = L + 1
    <3>1. /\ l + 2 * j - 1 = l + 2 * L + 1 /\ l + 2 * j = l + 2 * L + 1 + 1
          /\ l + 2 * L + 1 \in 1 .. l + 2 * L + 1
      BY <1>1, <1>2, <2>2
    <3> QED
      BY <1>1, <1>3, <1>4, <2>2, <3>1
  <2> QED
    BY <1>1, <2>1, <2>2
<1>8. Len(x) = l + 2 * Len(u)
  BY <1>1, <1>2, <1>4
<1>9. NodesOf(x, t, u)
  BY <1>4, <1>6, <1>7, <1>8 DEF NodesOf
<1> QED
  BY <1>9 DEF x, y, u

-----------------------------------------------------------------------------
(***************************************************************************)
(* The iterators.                                                          *)
(***************************************************************************)

\* The nodes of x, and the leaf that waits in the buffer.
WithHeld(x, b, pos) == IF pos < Len(b) THEN Append(x, b[pos + 1]) ELSE x

\* The buffer is empty, or holds two leaves of which the second may be left.
HeldLeaf(b, pos) ==
  /\ Len(b) \in {0, 2} /\ pos \in 0..2
  /\ pos < Len(b) => pos = 1 /\ b[2] \in Nodes /\ IsLeaf(b[2]) /\ b[2] \notin hidden_nodes

\* An iterator that has not failed: its stacks s and p hold the nodes of x, of which
\* those of t have no seed; together with the buffer they cover the leaves from n on.
IteratorAt(x, t, s, p, b, pos, n) ==
  /\ IF batch THEN StackOf(s, t, t) /\ NodesOf(x, t, p) ELSE StackOf(s, x, t)
  /\ InOrder(WithHeld(x, b, pos), n)

\* Frames in range, in the pair iterators all without a seed.
FramesFit(s) ==
  /\ Len(s) <= H + 1 /\ \A j \in 1..Len(s) : s[j].k \in Nodes
  /\ batch => \A j \in 1..Len(s) : s[j].seed = Unknown

\* Whatever has failed, the ranges hold; an iterator that has not failed is at a
\* round of the signer's walk.
VerifierInv ==
  /\ build \in {"plain", "batch", "bulk"}
  /\ ret \in {"none", "ready", "running", "leaf", "done", "error"}
  /\ FramesFit(stack) /\ size \in Int /\ path_idx \in 0..T_OPEN /\ num_leaf \in 0..M
  /\ PairsOf(inner) /\ HeldLeaf(buf, buf_pos)
  /\ ~batch => inner = <<>> /\ buf = <<>> /\ buf_pos = 0
  /\ ret \in {"ready", "running", "leaf", "done"} =>
       \E x, t : /\ WalkAt(t, size, path_idx)
                 /\ IteratorAt(x, t, stack, inner, buf, buf_pos, num_leaf)
  /\ ret = "done" => num_leaf = M /\ (hidden # {} => path_idx = T_OPEN)

\* Where an iterator is, its frames are in range.
LEMMA IteratorFits ==
  ASSUME NEW x, NEW t \in Seq(Nodes), NEW s, NEW p, NEW b, NEW pos, NEW n,
         IteratorAt(x, t, s, p, b, pos, n)
  PROVE  FramesFit(s) /\ n \in 0..M /\ x \in Seq(Nodes)
<1>1. n \in 0..M
  BY DEF IteratorAt, InOrder
<1>2. CASE batch
  <2>1. StackOf(s, t, t) /\ NodesOf(x, t, p)
    BY <1>2 DEF IteratorAt
  <2>2. Len(s) <= H + 1 /\ \A j \in 1..Len(s) : s[j].k \in Nodes
    BY <2>1, StackFits
  <2>3. s = FramesOf(t, Len(t)) /\ Len(t) \in Nat
    BY <2>1 DEF StackOf
  <2>4. /\ Len(s) = Len(t)
        /\ \A i \in 1..Len(t) : s[i] = Frame(t[i], IF i <= Len(t) THEN Unknown ELSE t[i])
    BY <2>3, FramesTop
  <2>5. \A j \in 1..Len(s) : s[j].seed = Unknown
    <3> SUFFICES ASSUME NEW j \in 1..Len(s) PROVE s[j].seed = Unknown
      OBVIOUS
    <3>1. j \in 1..Len(t) /\ j <= Len(t)
      BY <2>3, <2>4
    <3>2. s[j] = Frame(t[j], Unknown)
      BY <2>4, <3>1
    <3> QED
      BY <3>2 DEF Frame
  <2> QED
    BY <1>1, <2>1, <2>2, <2>5 DEF FramesFit, NodesOf
<1>3. CASE ~batch
  <2>1. StackOf(s, x, t)
    BY <1>3 DEF IteratorAt
  <2> QED
    BY <1>1, <1>3, <2>1, StackFits DEF FramesFit, StackOf, Heights
<1> QED
  BY <1>2, <1>3

\* What a step that succeeds has to show.
LEMMA IteratorStep ==
  ASSUME SignerInv, VerifierInv, UNCHANGED <<hidden, hidden_nodes, signer, build>>,
         NEW x, NEW t, WalkAt(t, size', path_idx'),
         IteratorAt(x, t, stack', inner', buf', buf_pos', num_leaf'),
         PairsOf(inner'), HeldLeaf(buf', buf_pos'),
         ~batch => inner' = <<>> /\ buf' = <<>> /\ buf_pos' = 0,
         hidden = {} => UNCHANGED <<size, path_idx>>,
         ret' \in {"ready", "running", "leaf", "done"},
         ret' = "done" => num_leaf' = M /\ (hidden # {} => path_idx' = T_OPEN)
  PROVE  VerifierInv'
<1>1. t \in Seq(Nodes) /\ (hidden # {} => size' \in Int /\ path_idx' \in 0..T_OPEN)
  BY WalkAtFacts
<1>2. FramesFit(stack') /\ num_leaf' \in 0..M
  BY <1>1, IteratorFits
<1>3. size' \in Int /\ path_idx' \in 0..T_OPEN
  BY <1>1 DEF VerifierInv
<1>4. /\ hidden' = hidden /\ hidden_nodes' = hidden_nodes /\ s_ret' = s_ret /\ path' = path
      /\ build' = build
  BY DEF signer
<1>5. build' \in {"plain", "batch", "bulk"}
  BY <1>4 DEF VerifierInv
<1>6. FramesFit(stack)'
  BY <1>2, <1>4 DEF FramesFit, batch
<1>7. PairsOf(inner)' /\ HeldLeaf(buf, buf_pos)'
  BY <1>4 DEF PairsOf, IsPair, HeldLeaf
<1>8. WalkAt(t, size, path_idx)'
  BY <1>4 DEF WalkAt
<1>9. IteratorAt(x, t, stack, inner, buf, buf_pos, num_leaf)'
  BY <1>4 DEF IteratorAt, StackOf, batch
<1> QED
  BY <1>2, <1>3, <1>4, <1>5, <1>6, <1>7, <1>8, <1>9 DEF VerifierInv, batch

\* What one that fails has to show.
LEMMA FailStep ==
  ASSUME VerifierInv, UNCHANGED <<hidden, hidden_nodes, signer, build>>,
         FramesFit(stack'), size' \in Int, path_idx' \in 0..T_OPEN, num_leaf' \in 0..M,
         PairsOf(inner'), HeldLeaf(buf', buf_pos'),
         ~batch => inner' = <<>> /\ buf' = <<>> /\ buf_pos' = 0,
         ret' \in {"none", "error"}
  PROVE  VerifierInv'
<1>1. /\ hidden' = hidden /\ hidden_nodes' = hidden_nodes /\ build' = build
  OBVIOUS
<1>2. build' \in {"plain", "batch", "bulk"}
  BY <1>1 DEF VerifierInv
<1>3. FramesFit(stack)'
  BY <1>1 DEF FramesFit, batch
<1>4. PairsOf(inner)' /\ HeldLeaf(buf, buf_pos)'
  BY <1>1 DEF PairsOf, IsPair, HeldLeaf
<1> QED
  BY <1>1, <1>2, <1>3, <1>4 DEF VerifierInv, batch

\* Popping a frame keeps them in range.
LEMMA FramesPop ==
  ASSUME NEW s, FramesFit(s), s # <<>>, NEW S, s \in Seq(S)
  PROVE  FramesFit(Front(s))
<1>1. /\ Len(s) \in Nat \ {0} /\ Len(Front(s)) = Len(s) - 1
      /\ \A i \in 1 .. Len(s) - 1 : Front(s)[i] = s[i]
  BY FrontLast
<1> DEFINE r == Front(s)
<1> HIDE DEF r
<1>2. Len(r) <= H + 1 /\ \A j \in 1..Len(r) : j \in 1..Len(s) /\ r[j] = s[j]
  BY <1>1, Sizes DEF FramesFit, r
<1>3. FramesFit(r)
  BY <1>2 DEF FramesFit
<1> QED
  BY <1>3 DEF r

\* In a signer's iterator no node is on a hidden path.
LEMMA NoneHidden == ASSUME HiddenInv, hidden = {} PROVE hidden_nodes = {}
BY HiddenPaths DEF PathNodes

\* The root, alone on a stack.
LEMMA RootFrames ==
  /\ <<1>> \in Seq(Nodes) /\ Len(<<1>>) = 1 /\ Last(<<1>>) = 1 /\ Heights(<<1>>)
  /\ FramesOf(<<1>>, 0) = <<Frame(1, 1)>> /\ FramesOf(<<1>>, 1) = <<Frame(1, Unknown)>>
<1>1. <<1>> \in Seq(Nodes) /\ Len(<<1>>) = 1 /\ <<1>>[1] = 1
  BY NodesSmall
<1>2. Last(<<1>>) = 1
  BY <1>1 DEF Last
<1>3. Heights(<<1>>)
  <2>1. 1 .. 1 - 1 = {} /\ 1 <= H + 1 /\ 1 - 1 = 0
    BY Sizes
  <2>2. Pow2[0] <= 1
    BY Powers
  <2> QED
    BY <1>1, <2>1, <2>2 DEF Heights
<1>4. /\ FramesOf(<<1>>, 0) = <<Frame(1, 1)>>
      /\ FramesOf(<<1>>, 1) = <<Frame(1, Unknown)>>
  BY DEF FramesOf
<1> QED
  BY <1>1, <1>2, <1>3, <1>4

\* A plain iterator starts at the root.
LEMMA PlainStart ==
  ASSUME SignerInv, VerifierInv, ~batch, UNCHANGED build, UNCHANGED engine,
         SignerIteratorInit \/ VerifierInit
  PROVE  VerifierInv'
<1>1. /\ hidden' = hidden /\ hidden_nodes' = hidden_nodes
      /\ UNCHANGED <<hidden, hidden_nodes, signer, build>>
      /\ num_leaf' = 0
  BY DEF SignerIteratorInit, VerifierInit
<1>2. /\ inner' = <<>> /\ buf' = <<>> /\ buf_pos' = 0 /\ PairsOf(inner') /\ HeldLeaf(buf', buf_pos')
  <2>1. /\ inner = <<>> /\ buf = <<>> /\ buf_pos = 0
        /\ PairsOf(inner) /\ HeldLeaf(buf, buf_pos)
    BY DEF VerifierInv
  <2> QED
    BY <2>1 DEF engine
<1>3. InOrder(WithHeld(<<1>>, buf', buf_pos'), num_leaf')
  <2>1. ~(buf_pos' < Len(buf'))
    BY <1>2
  <2> QED
    BY <1>1, <2>1, OrderStart DEF WithHeld
<1>4. CASE SignerIteratorInit
  <2>1. /\ hidden = {} /\ stack' = <<Frame(1, 1)>> /\ ret' = "ready"
        /\ UNCHANGED <<size, path_idx>>
    BY <1>4 DEF SignerIteratorInit
  <2>2. WalkAt(<<>>, size', path_idx')
    BY <2>1 DEF WalkAt
  <2>3. StackOf(stack', <<1>>, <<>>)
    <3>1. hidden_nodes = {} /\ Len(<<>>) = 0 /\ 1..0 = {} /\ 0 <= 1
      BY <2>1, NoneHidden DEF SignerInv
    <3> QED
      BY <2>1, <3>1, RootFrames DEF StackOf
  <2>4. IteratorAt(<<1>>, <<>>, stack', inner', buf', buf_pos', num_leaf')
    BY <1>3, <2>3 DEF IteratorAt
  <2> QED
    BY <1>1, <1>2, <2>1, <2>2, <2>4, IteratorStep
<1>5. CASE VerifierInit
  <2>1. /\ s_ret = "ok" /\ hidden # {} /\ path_idx' = 0
        /\ size' = Cardinality(hidden_nodes) - 2 * TAU + 1
        /\ \/ ret' = "error" /\ UNCHANGED stack
           \/ ret' = "ready" /\ stack' = <<Frame(1, Unknown)>>
    BY <1>5 DEF VerifierInit
  <2>2. WalkAt(<<1>>, size', path_idx')
    BY <2>1, WalkAtStart
  <2>3. CASE ret' = "ready" /\ stack' = <<Frame(1, Unknown)>>
    <3>1. StackOf(stack', <<1>>, <<1>>)
      <4>1. 1+1..1 = {} /\ 1 <= 1
        OBVIOUS
      <4> QED
        BY <2>3, <4>1, RootFrames DEF StackOf
    <3>2. IteratorAt(<<1>>, <<1>>, stack', inner', buf', buf_pos', num_leaf')
      BY <1>3, <3>1 DEF IteratorAt
    <3> QED
      BY <1>1, <1>2, <2>1, <2>2, <2>3, <3>2, IteratorStep
  <2>4. CASE ret' = "error" /\ UNCHANGED stack
    <3>1. size' \in Int /\ path_idx' \in 0..T_OPEN
      BY <2>1, <2>2, WalkAtFacts
    <3>2. FramesFit(stack') /\ num_leaf' \in 0..M
      BY <1>1, <2>4, Sizes DEF VerifierInv
    <3> QED
      BY <1>1, <1>2, <2>4, <3>1, <3>2, FailStep
  <2> QED
    BY <2>1, <2>3, <2>4
<1> QED
  BY <1>4, <1>5

\* A call changes nothing else.
LEMMA CallKeeps ==
  ASSUME SignerInv, VerifierInv, UNCHANGED build, UNCHANGED engine, Call
  PROVE  VerifierInv'
<1>1. /\ ret \in {"ready", "leaf", "done"} /\ ret' = "running"
      /\ UNCHANGED <<hidden, hidden_nodes, signer, build>>
      /\ UNCHANGED <<stack, size, path_idx, num_leaf, inner, buf, buf_pos>>
  BY DEF Call, engine
<1>2. PICK x, t : /\ WalkAt(t, size, path_idx)
                  /\ IteratorAt(x, t, stack, inner, buf, buf_pos, num_leaf)
  BY <1>1 DEF VerifierInv
<1>3. /\ WalkAt(t, size', path_idx')
      /\ IteratorAt(x, t, stack', inner', buf', buf_pos', num_leaf')
  BY <1>1, <1>2
<1>4. /\ PairsOf(inner') /\ HeldLeaf(buf', buf_pos')
      /\ ~batch => inner' = <<>> /\ buf' = <<>> /\ buf_pos' = 0
  BY <1>1 DEF VerifierInv
<1> QED
  BY <1>1, <1>3, <1>4, IteratorStep

\* Where a running plain iterator is.
LEMMA PlainAt ==
  ASSUME SignerInv, VerifierInv, ~batch, ret = "running"
  PROVE  \E x, t : /\ WalkAt(t, size, path_idx) /\ StackOf(stack, x, t)
                   /\ InOrder(x, num_leaf) /\ x \in Seq(Nodes) /\ t \in Seq(Nodes)
                   /\ stack = <<>> <=> x = <<>>
<1>1. PICK x, t : /\ WalkAt(t, size, path_idx)
                  /\ IteratorAt(x, t, stack, inner, buf, buf_pos, num_leaf)
  BY DEF VerifierInv
<1>2. ~(buf_pos < Len(buf))
  BY DEF VerifierInv
<1>3. /\ StackOf(stack, x, t) /\ InOrder(x, num_leaf)
  BY <1>1, <1>2 DEF IteratorAt, WithHeld
<1>4. x \in Seq(Nodes) /\ t \in Seq(Nodes)
  BY <1>1, <1>3, WalkAtFacts DEF InOrder
<1>5. stack = FramesOf(x, Len(t)) /\ Len(t) \in Nat
  BY <1>3, <1>4 DEF StackOf
<1>6. stack = <<>> <=> x = <<>>
  BY <1>4, <1>5, FramesTop
<1> QED
  BY <1>1, <1>3, <1>4, <1>6

\* It ends when all leaves have been returned and all of the path has been used.
LEMMA PlainEnds ==
  ASSUME SignerInv, VerifierInv, ~batch, UNCHANGED build, UNCHANGED engine, Exhausted
  PROVE  VerifierInv'
<1>1. /\ ret = "running" /\ ret' = "done" /\ stack = <<>>
      /\ UNCHANGED <<hidden, hidden_nodes, signer, build>>
      /\ UNCHANGED <<stack, size, path_idx, num_leaf, inner, buf, buf_pos>>
  BY DEF Exhausted, engine
<1>2. PICK x, t : /\ WalkAt(t, size, path_idx) /\ StackOf(stack, x, t)
                  /\ InOrder(x, num_leaf) /\ x \in Seq(Nodes) /\ t \in Seq(Nodes)
                  /\ stack = <<>> <=> x = <<>>
  BY <1>1, PlainAt
<1>3. num_leaf' = M
  BY <1>1, <1>2, OrderEnd
<1>4. t = <<>>
  <2>1. Len(t) <= Len(x) /\ Len(x) = 0
    BY <1>1, <1>2 DEF StackOf
  <2> QED
    BY <1>2, <2>1
<1>5. hidden # {} => path_idx' = T_OPEN
  BY <1>1, <1>2, <1>4, WalkAtFacts
<1>6. /\ inner' = <<>> /\ buf' = <<>> /\ buf_pos' = 0
      /\ PairsOf(inner') /\ HeldLeaf(buf', buf_pos')
  BY <1>1 DEF VerifierInv
<1>7. /\ WalkAt(t, size', path_idx')
      /\ IteratorAt(x, t, stack', inner', buf', buf_pos', num_leaf')
  <2>1. ~(buf_pos < Len(buf))
    BY DEF VerifierInv
  <2> QED
    BY <1>1, <1>2, <2>1 DEF IteratorAt, WithHeld
<1> QED
  BY <1>1, <1>3, <1>5, <1>6, <1>7, IteratorStep

\* The round it is about to make.  Its top node k has its own seed; or takes it from
\* the path, which has it there; or stays without one, and then it is a hidden leaf
\* or is expanded where the signer expanded it.
LEMMA PlainRound ==
  ASSUME SignerInv, VerifierInv, ~batch, InCall
  PROVE  /\ PathInBounds
         /\ \E x, t : 
              /\ WalkAt(t, size, path_idx) /\ StackOf(stack, x, t)
              /\ InOrder(x, num_leaf) /\ x \in Seq(Nodes) /\ t \in Seq(Nodes) /\ x # <<>>
              /\ VTop.k = Last(x) /\ VTop.k \in Nodes
              /\ \/ /\ VTop.seed # Unknown /\ ~ReadsPath /\ VSeed = VTop.k
                    /\ Len(t) < Len(x) /\ VTop.k \notin hidden_nodes
                 \/ /\ VTop.seed = Unknown /\ ReadsPath /\ VSeed = VTop.k /\ hidden # {}
                    /\ x = t /\ VTop.k \notin hidden_nodes
                    /\ WalkAt(Front(t), size, path_idx + 1)
                 \/ /\ VTop.seed = Unknown /\ ~ReadsPath /\ VSeed = Unknown /\ hidden # {}
                    /\ x = t
                    /\ IsLeaf(VTop.k) =>
                         VTop.k \in hidden_nodes /\ WalkAt(Front(t), size, path_idx)
                    /\ ~IsLeaf(VTop.k) =>
                         WalkAt(Front(t) \o <<2 * VTop.k + 1, 2 * VTop.k>>,
                                SizeAfter(VTop.k, size), path_idx)
<1>1. ret = "running" /\ stack # <<>>
  BY DEF InCall
<1>2. PICK x, t : /\ WalkAt(t, size, path_idx) /\ StackOf(stack, x, t)
                  /\ InOrder(x, num_leaf) /\ x \in Seq(Nodes) /\ t \in Seq(Nodes)
                  /\ stack = <<>> <=> x = <<>>
  BY <1>1, PlainAt
<1> DEFINE k == VTop.k
           seed == VTop.seed
<1>3. x # <<>>
  BY <1>1, <1>2
<1>4. /\ k = Last(x) /\ k \in Nodes
      /\ seed = Unknown => x = t
      /\ seed # Unknown => seed = k /\ k \notin hidden_nodes /\ Len(t) < Len(x)
  BY <1>2, <1>3, StackTop DEF VTop
<1>5. CASE seed # Unknown
  <2>1. ~ReadsPath /\ VSeed = k
    BY <1>4, <1>5 DEF ReadsPath, VSeed
  <2> HIDE DEF k, seed
  <2>2. PathInBounds
    BY <2>1 DEF PathInBounds
  <2> QED
    BY <1>2, <1>3, <1>4, <1>5, <2>1, <2>2 DEF k, seed
<1>6. CASE seed = Unknown
  <2>1. x = t /\ t # <<>> /\ k = Last(t)
    BY <1>3, <1>4, <1>6
  <2>2. /\ hidden # {}
        /\ Revealed(hidden_nodes, k, size) =>
              /\ path_idx < T_OPEN /\ path[path_idx + 1] = k /\ k \notin hidden_nodes
              /\ WalkAt(Front(t), size, path_idx + 1)
        /\ IsLeaf(k) /\ ~Revealed(hidden_nodes, k, size) =>
              k \in hidden_nodes /\ WalkAt(Front(t), size, path_idx)
        /\ ~IsLeaf(k) /\ ~Revealed(hidden_nodes, k, size) =>
              WalkAt(Front(t) \o <<2 * k + 1, 2 * k>>, SizeAfter(k, size), path_idx)
    <3> HIDE DEF k
    <3> QED
      BY <1>2, <2>1, FollowWalk
  <2>3. ReadsPath <=> Revealed(hidden_nodes, k, size)
    BY <1>6 DEF ReadsPath, Reveals
  <2>4. PathInBounds
    BY <2>2, <2>3 DEF PathInBounds
  <2>5. VSeed = IF ReadsPath THEN path[path_idx + 1] ELSE Unknown
    BY <1>6 DEF VSeed
  <2> HIDE DEF k, seed
  <2>6. CASE ReadsPath
    BY <1>2, <1>3, <1>4, <1>6, <2>1, <2>2, <2>3, <2>4, <2>5, <2>6 DEF k, seed
  <2>7. CASE ~ReadsPath
    BY <1>2, <1>3, <1>4, <1>6, <2>1, <2>2, <2>3, <2>4, <2>5, <2>7 DEF k, seed
  <2> QED
    BY <2>6, <2>7
<1> QED
  BY <1>5, <1>6

\* The engine of the pair iterators is idle in the others.
LEMMA EngineIdle ==
  ASSUME VerifierInv, ~batch, UNCHANGED engine
  PROVE  /\ inner' = <<>> /\ buf' = <<>> /\ buf_pos' = 0
         /\ PairsOf(inner') /\ HeldLeaf(buf', buf_pos')
         /\ \A x : WithHeld(x, buf', buf_pos') = x
<1>1. /\ inner = <<>> /\ buf = <<>> /\ buf_pos = 0
      /\ PairsOf(inner) /\ HeldLeaf(buf, buf_pos)
  BY DEF VerifierInv
<1>2. inner' = inner /\ buf' = buf /\ buf_pos' = buf_pos
  BY DEF engine
<1>3. ~(0 < Len(<<>>))
  OBVIOUS
<1> QED
  BY <1>1, <1>2, <1>3 DEF WithHeld

\* A node is expanded.
LEMMA PlainDescends ==
  ASSUME SignerInv, VerifierInv, ~batch, UNCHANGED build, UNCHANGED engine, DescendNode
  PROVE  VerifierInv'
<1>1. /\ InCall /\ ~IsLeaf(VTop.k)
      /\ path_idx' = IF ReadsPath THEN path_idx + 1 ELSE path_idx
      /\ size' = IF VTop.seed = Unknown /\ ~ReadsPath THEN SizeAfter(VTop.k, size) ELSE size
      /\ stack' = WithChildren(Front(stack), VTop.k, VSeed)
      /\ UNCHANGED <<hidden, hidden_nodes, signer, build>>
      /\ num_leaf' = num_leaf /\ ret' = "running"
  BY DEF DescendNode, TakePath, InCall
<1>2. PICK x, t :
        /\ WalkAt(t, size, path_idx) /\ StackOf(stack, x, t)
        /\ InOrder(x, num_leaf) /\ x \in Seq(Nodes) /\ t \in Seq(Nodes) /\ x # <<>>
        /\ VTop.k = Last(x) /\ VTop.k \in Nodes
        /\ \/ /\ VTop.seed # Unknown /\ ~ReadsPath /\ VSeed = VTop.k
              /\ Len(t) < Len(x) /\ VTop.k \notin hidden_nodes
           \/ /\ VTop.seed = Unknown /\ ReadsPath /\ VSeed = VTop.k /\ hidden # {}
              /\ x = t /\ VTop.k \notin hidden_nodes
              /\ WalkAt(Front(t), size, path_idx + 1)
           \/ /\ VTop.seed = Unknown /\ ~ReadsPath /\ VSeed = Unknown /\ hidden # {}
              /\ x = t
              /\ IsLeaf(VTop.k) => VTop.k \in hidden_nodes /\ WalkAt(Front(t), size, path_idx)
              /\ ~IsLeaf(VTop.k) =>
                   WalkAt(Front(t) \o <<2 * VTop.k + 1, 2 * VTop.k>>,
                          SizeAfter(VTop.k, size), path_idx)
  BY <1>1, PlainRound
<1> DEFINE k == VTop.k
           u == Front(x) \o <<2 * k + 1, 2 * k>>
<1>3. InOrder(u, num_leaf')
  BY <1>1, <1>2, OrderPush
<1>4. /\ inner' = <<>> /\ buf' = <<>> /\ buf_pos' = 0
      /\ PairsOf(inner') /\ HeldLeaf(buf', buf_pos')
      /\ \A y : WithHeld(y, buf', buf_pos') = y
  BY EngineIdle
<1>5. /\ Len(t) < Len(x) => StackOf(WithChildren(Front(stack), k, k), u, t)
      /\ x = t /\ k \notin hidden_nodes =>
           StackOf(WithChildren(Front(stack), k, k), u, Front(t))
      /\ x = t => StackOf(WithChildren(Front(stack), k, Unknown), u, u)
  <2>1. HiddenInv /\ k = Last(x) /\ u = Front(x) \o <<2 * k + 1, 2 * k>> /\ ~IsLeaf(k)
    BY <1>1, <1>2 DEF SignerInv
  <2> HIDE DEF k, u
  <2> QED
    BY <1>2, <2>1, StackPush
<1>6. ASSUME NEW r, WalkAt(r, size', path_idx'), StackOf(stack', u, r),
             hidden = {} => UNCHANGED <<size, path_idx>>
      PROVE  VerifierInv'
  <2>1. IteratorAt(u, r, stack', inner', buf', buf_pos', num_leaf')
    <3> HIDE DEF u
    <3> QED
      BY <1>3, <1>4, <1>6 DEF IteratorAt
  <2> HIDE DEF u
  <2> QED
    BY <1>1, <1>4, <1>6, <2>1, IteratorStep
<1>7. CASE VTop.seed # Unknown /\ ~ReadsPath /\ VSeed = k /\ Len(t) < Len(x)
  BY <1>1, <1>2, <1>5, <1>6, <1>7
<1>8. CASE /\ VTop.seed = Unknown /\ ReadsPath /\ VSeed = k /\ hidden # {}
           /\ x = t /\ k \notin hidden_nodes /\ WalkAt(Front(t), size, path_idx + 1)
  BY <1>1, <1>5, <1>6, <1>8
<1>9. CASE /\ VTop.seed = Unknown /\ ~ReadsPath /\ VSeed = Unknown /\ hidden # {}
           /\ x = t /\ WalkAt(u, SizeAfter(k, size), path_idx)
  <2>1. WalkAt(u, size', path_idx') /\ StackOf(stack', u, u)
    BY <1>1, <1>5, <1>9
  <2> QED
    BY <1>6, <1>9, <2>1
<1> QED
  BY <1>1, <1>2, <1>7, <1>8, <1>9

\* A leaf is returned: the next one, with its seed or with zeroes if it is hidden.
LEMMA PlainReturns ==
  ASSUME SignerInv, VerifierInv, ~batch, UNCHANGED build, UNCHANGED engine, ReturnLeaf
  PROVE  /\ VerifierInv'
         /\ num_leaf \in Leaves /\ FromLeafPosition(VTop.k) = num_leaf
         /\ lseed_out' = IF num_leaf \in hidden THEN ZeroSeed ELSE LeafPosition(num_leaf)
<1>1. /\ InCall /\ IsLeaf(VTop.k)
      /\ path_idx' = IF ReadsPath THEN path_idx + 1 ELSE path_idx
      /\ size' = IF VTop.seed = Unknown /\ ~ReadsPath THEN SizeAfter(VTop.k, size) ELSE size
      /\ stack' = Front(stack)
      /\ UNCHANGED <<hidden, hidden_nodes, signer, build>>
      /\ num_leaf' = num_leaf + 1 /\ ret' = "leaf"
      /\ lseed_out' = IF VSeed = Unknown THEN ZeroSeed ELSE VSeed
  BY DEF ReturnLeaf, TakePath, InCall
<1>2. PICK x, t :
        /\ WalkAt(t, size, path_idx) /\ StackOf(stack, x, t)
        /\ InOrder(x, num_leaf) /\ x \in Seq(Nodes) /\ t \in Seq(Nodes) /\ x # <<>>
        /\ VTop.k = Last(x) /\ VTop.k \in Nodes
        /\ \/ /\ VTop.seed # Unknown /\ ~ReadsPath /\ VSeed = VTop.k
              /\ Len(t) < Len(x) /\ VTop.k \notin hidden_nodes
           \/ /\ VTop.seed = Unknown /\ ReadsPath /\ VSeed = VTop.k /\ hidden # {}
              /\ x = t /\ VTop.k \notin hidden_nodes
              /\ WalkAt(Front(t), size, path_idx + 1)
           \/ /\ VTop.seed = Unknown /\ ~ReadsPath /\ VSeed = Unknown /\ hidden # {}
              /\ x = t
              /\ IsLeaf(VTop.k) => VTop.k \in hidden_nodes /\ WalkAt(Front(t), size, path_idx)
              /\ ~IsLeaf(VTop.k) =>
                   WalkAt(Front(t) \o <<2 * VTop.k + 1, 2 * VTop.k>>,
                          SizeAfter(VTop.k, size), path_idx)
  BY <1>1, PlainRound
<1> DEFINE k == VTop.k
<1>3. /\ num_leaf \in Leaves /\ k = LeafPosition(num_leaf) /\ FromLeafPosition(k) = num_leaf
      /\ InOrder(Front(x), num_leaf')
  BY <1>1, <1>2, OrderPop
<1>4. /\ inner' = <<>> /\ buf' = <<>> /\ buf_pos' = 0
      /\ PairsOf(inner') /\ HeldLeaf(buf', buf_pos')
      /\ \A y : WithHeld(y, buf', buf_pos') = y
  BY EngineIdle
<1>5. /\ Len(t) < Len(x) => StackOf(stack', Front(x), t)
      /\ x = t => StackOf(stack', Front(x), Front(t))
  BY <1>1, <1>2, StackPop
<1>6. k \in hidden_nodes <=> num_leaf \in hidden
  <2>1. PathNodes(hidden, hidden_nodes) /\ hidden \subseteq Leaves
    BY HiddenPaths DEF SignerInv
  <2>2. k \in hidden_nodes => \E i \in hidden : k = LeafPosition(i)
    BY <1>1, <2>1 DEF PathNodes
  <2>3. num_leaf \in hidden => LeafPosition(num_leaf) \in hidden_nodes
    BY <2>1 DEF PathNodes
  <2>4. \A i \in hidden : FromLeafPosition(LeafPosition(i)) = i
    BY <2>1, Positions
  <2> QED
    BY <1>3, <2>2, <2>3, <2>4
<1>7. k # Unknown
  BY <1>2, SeedFacts
<1>8. ASSUME NEW r, WalkAt(r, size', path_idx'), StackOf(stack', Front(x), r),
             hidden = {} => UNCHANGED <<size, path_idx>>
      PROVE  VerifierInv'
  <2>1. IteratorAt(Front(x), r, stack', inner', buf', buf_pos', num_leaf')
    BY <1>3, <1>4, <1>8 DEF IteratorAt
  <2> QED
    BY <1>1, <1>4, <1>8, <2>1, IteratorStep
<1> DEFINE Out == lseed_out' = IF num_leaf \in hidden THEN ZeroSeed ELSE LeafPosition(num_leaf)
<1>9. CASE /\ VTop.seed # Unknown /\ ~ReadsPath /\ VSeed = k
           /\ Len(t) < Len(x) /\ k \notin hidden_nodes
  <2>1. Out
    BY <1>1, <1>3, <1>6, <1>7, <1>9
  <2> QED
    BY <1>1, <1>2, <1>3, <1>5, <1>8, <1>9, <2>1
<1>10. CASE /\ VTop.seed = Unknown /\ ReadsPath /\ VSeed = k /\ hidden # {}
            /\ x = t /\ k \notin hidden_nodes /\ WalkAt(Front(t), size, path_idx + 1)
  <2>1. Out
    BY <1>1, <1>3, <1>6, <1>7, <1>10
  <2> QED
    BY <1>1, <1>3, <1>5, <1>8, <1>10, <2>1
<1>11. CASE /\ VTop.seed = Unknown /\ ~ReadsPath /\ VSeed = Unknown /\ hidden # {}
            /\ x = t /\ k \in hidden_nodes /\ WalkAt(Front(t), size, path_idx)
  <2>1. Out
    BY <1>1, <1>6, <1>11
  <2>2. size' = size
    BY <1>1, <1>11 DEF SizeAfter
  <2> QED
    BY <1>1, <1>3, <1>5, <1>8, <1>11, <2>1, <2>2
<1> QED
  BY <1>1, <1>2, <1>9, <1>10, <1>11

\* A derivation fails: the node was already popped.  The path is never overrun.
LEMMA PlainFails ==
  ASSUME SignerInv, VerifierInv, ~batch, UNCHANGED build, UNCHANGED engine, RoundFails
  PROVE  VerifierInv'
<1>1. InCall /\ PathInBounds
  BY PlainRound DEF RoundFails
<1>2. /\ path_idx' = IF ReadsPath THEN path_idx + 1 ELSE path_idx
      /\ size' = IF VTop.seed = Unknown /\ ~ReadsPath THEN SizeAfter(VTop.k, size) ELSE size
      /\ stack' = Front(stack) /\ ret' = "error"
      /\ VSeed # Unknown
      /\ UNCHANGED <<hidden, hidden_nodes, signer, build>>
      /\ num_leaf' = num_leaf
  BY <1>1 DEF RoundFails, TakePath
<1>3. PICK x, t :
        /\ StackOf(stack, x, t) /\ x \in Seq(Nodes) /\ t \in Seq(Nodes) /\ x # <<>>
        /\ \/ VTop.seed # Unknown /\ ~ReadsPath /\ Len(t) < Len(x)
           \/ /\ VTop.seed = Unknown /\ ReadsPath /\ hidden # {} /\ x = t
              /\ WalkAt(Front(t), size, path_idx + 1)
           \/ VSeed = Unknown
  BY <1>1, PlainRound
<1>4. /\ inner' = <<>> /\ buf' = <<>> /\ buf_pos' = 0
      /\ PairsOf(inner') /\ HeldLeaf(buf', buf_pos')
  BY EngineIdle
<1>5. FramesFit(stack')
  <2>1. \E r \in Seq(Nodes) : StackOf(stack', Front(x), r)
    BY <1>2, <1>3, StackPop, FrontLast
  <2> QED
    BY <2>1, StackFits DEF FramesFit
<1>6. size' \in Int /\ path_idx' \in 0..T_OPEN
  <2>1. size \in Int /\ path_idx \in 0..T_OPEN
    BY DEF VerifierInv
  <2>2. CASE ~ReadsPath /\ VTop.seed # Unknown
    BY <1>2, <2>1, <2>2
  <2>3. CASE ReadsPath /\ hidden # {} /\ WalkAt(Front(t), size, path_idx + 1)
    BY <1>2, <2>1, <2>3, WalkAtFacts
  <2> QED
    BY <1>2, <1>3, <2>2, <2>3
<1>7. num_leaf' \in 0..M
  BY <1>2 DEF VerifierInv
<1> QED
  BY <1>2, <1>4, <1>5, <1>6, <1>7, FailStep

-----------------------------------------------------------------------------
(***************************************************************************)
(* The pair iterators.                                                     *)
(***************************************************************************)

\* A leaf is hidden when its node is on a hidden path.
LEMMA LeafHidden ==
  ASSUME HiddenInv, NEW n \in Leaves
  PROVE  LeafPosition(n) \in hidden_nodes <=> n \in hidden
<1>1. PathNodes(hidden, hidden_nodes) /\ hidden \subseteq Leaves
  BY HiddenPaths
<1>2. LeafPosition(n) \in hidden_nodes => \E i \in hidden : LeafPosition(n) = LeafPosition(i)
  BY <1>1, Positions DEF PathNodes
<1>3. n \in hidden => LeafPosition(n) \in hidden_nodes
  BY <1>1 DEF PathNodes
<1>4. \A i \in hidden : FromLeafPosition(LeafPosition(i)) = i
  BY <1>1, Positions
<1> QED
  BY <1>2, <1>3, <1>4, Positions

\* What is before and what is a last element just added.
LEMMA AppendSplit ==
  ASSUME NEW S, NEW s \in Seq(S), NEW a \in S
  PROVE  Append(s, a) # <<>> /\ Front(Append(s, a)) = s /\ Last(Append(s, a)) = a
<1> DEFINE u == Append(s, a)
           L == Len(s)
<1>1. /\ u \in Seq(S) /\ Len(u) = L + 1 /\ L \in Nat
      /\ \A i \in 1..L : u[i] = s[i]
      /\ u[L + 1] = a
  BY AppendFacts
<1> HIDE DEF u
<1>2. u # <<>>
  BY <1>1
<1>3. Last(u) = a
  BY <1>1, <1>2, FrontLast
<1>4. /\ Front(u) \in Seq(S) /\ Len(Front(u)) = L
      /\ \A i \in 1..L : Front(u)[i] = u[i]
  <2>1. Len(u) - 1 = L
    BY <1>1
  <2> QED
    BY <1>1, <1>2, <2>1, FrontLast
<1>5. Front(u) = [i \in 1..L |-> Front(u)[i]] /\ s = [i \in 1..L |-> s[i]]
  BY <1>1, <1>4
<1>6. Front(u) = s
  BY <1>1, <1>4, <1>5
<1> QED
  BY <1>2, <1>3, <1>6 DEF u

\* Where a running pair iterator is.
LEMMA PairAt ==
  ASSUME SignerInv, VerifierInv, batch, ret = "running"
  PROVE  \E x, t : /\ WalkAt(t, size, path_idx) /\ StackOf(stack, t, t) /\ NodesOf(x, t, inner)
                   /\ InOrder(WithHeld(x, buf, buf_pos), num_leaf)
                   /\ x \in Seq(Nodes) /\ t \in Seq(Nodes)
                   /\ stack = <<>> <=> t = <<>>
<1>1. PICK x, t : /\ WalkAt(t, size, path_idx)
                  /\ IteratorAt(x, t, stack, inner, buf, buf_pos, num_leaf)
  BY DEF VerifierInv
<1>2. /\ StackOf(stack, t, t) /\ NodesOf(x, t, inner)
      /\ InOrder(WithHeld(x, buf, buf_pos), num_leaf)
  BY <1>1 DEF IteratorAt
<1>3. x \in Seq(Nodes) /\ t \in Seq(Nodes)
  BY <1>1, <1>2, WalkAtFacts DEF NodesOf
<1>4. stack = FramesOf(t, Len(t)) /\ Len(t) \in Nat
  BY <1>2, <1>3 DEF StackOf
<1>5. stack = <<>> <=> t = <<>>
  BY <1>3, <1>4, FramesTop
<1> QED
  BY <1>1, <1>2, <1>3, <1>5

\* The second leaf of a pair is returned.
LEMMA BufferReturns ==
  ASSUME SignerInv, VerifierInv, FromBuffer
  PROVE  /\ VerifierInv'
         /\ num_leaf \in Leaves
         /\ lseed_out' = IF num_leaf \in hidden THEN ZeroSeed ELSE LeafPosition(num_leaf)
<1>1. /\ batch /\ ret = "running" /\ buf_pos < Len(buf)
      /\ lseed_out' = buf[buf_pos + 1] /\ buf_pos' = buf_pos + 1
      /\ num_leaf' = num_leaf + 1 /\ ret' = "leaf"
      /\ UNCHANGED <<hidden, hidden_nodes, signer, build, stack, size, path_idx, inner, buf>>
  BY DEF FromBuffer, Buffered, OuterIdle, Fixed, bulk
<1>2. PICK x, t : /\ WalkAt(t, size, path_idx) /\ StackOf(stack, t, t) /\ NodesOf(x, t, inner)
                  /\ InOrder(WithHeld(x, buf, buf_pos), num_leaf)
                  /\ x \in Seq(Nodes) /\ t \in Seq(Nodes)
  BY <1>1, PairAt
<1> DEFINE b == buf[2]
<1>3. /\ HeldLeaf(buf, buf_pos) /\ buf_pos = 1 /\ Len(buf) = 2
      /\ b \in Nodes /\ IsLeaf(b) /\ b \notin hidden_nodes /\ PairsOf(inner)
  BY <1>1 DEF VerifierInv, HeldLeaf
<1>4. InOrder(Append(x, b), num_leaf) /\ lseed_out' = b
  BY <1>1, <1>2, <1>3 DEF WithHeld
<1> HIDE DEF b
<1>5. Append(x, b) # <<>> /\ Front(Append(x, b)) = x /\ Last(Append(x, b)) = b
  BY <1>2, <1>3, AppendSplit
<1>6. num_leaf \in Leaves /\ b = LeafPosition(num_leaf) /\ InOrder(x, num_leaf')
  BY <1>1, <1>3, <1>4, <1>5, OrderPop
<1>7. num_leaf \notin hidden
  BY <1>3, <1>6, LeafHidden DEF SignerInv
<1>8. buf_pos' = 2 /\ ~(buf_pos' < Len(buf')) /\ HeldLeaf(buf', buf_pos') /\ PairsOf(inner')
  BY <1>1, <1>3 DEF HeldLeaf
<1>9. /\ WalkAt(t, size', path_idx')
      /\ IteratorAt(x, t, stack', inner', buf', buf_pos', num_leaf')
  BY <1>1, <1>2, <1>6, <1>8 DEF IteratorAt, WithHeld
<1>10. VerifierInv'
  BY <1>1, <1>8, <1>9, IteratorStep
<1> QED
  BY <1>4, <1>6, <1>7, <1>10

\* The engine takes the top pair: its nodes are the next two.
LEMMA EngineAt ==
  ASSUME SignerInv, VerifierInv, InEngine
  PROVE  /\ batch /\ ret = "running" /\ inner # <<>> /\ ~(buf_pos < Len(buf))
         /\ PairsOf(inner) /\ HeldLeaf(buf, buf_pos) /\ inner \in Seq(PairRecord)
         /\ Top \in PairRecord /\ IsPair(Top) /\ Top.kA \in Nodes /\ Top.kB \in Nodes
         /\ PairsOf(Front(inner))
         /\ \E r, t : /\ WalkAt(t, size, path_idx) /\ StackOf(stack, t, t)
                      /\ NodesOf(r, t, Front(inner)) /\ r \in Seq(Nodes) /\ t \in Seq(Nodes)
                      /\ InOrder(Append(Append(r, Top.kB), Top.kA), num_leaf)
<1>1. batch /\ ret = "running" /\ ~(buf_pos < Len(buf)) /\ inner # <<>>
  BY DEF InEngine, Buffered
<1>2. PICK x, t : /\ WalkAt(t, size, path_idx) /\ StackOf(stack, t, t) /\ NodesOf(x, t, inner)
                  /\ InOrder(WithHeld(x, buf, buf_pos), num_leaf)
                  /\ x \in Seq(Nodes) /\ t \in Seq(Nodes)
  BY <1>1, PairAt
<1>3. InOrder(x, num_leaf)
  BY <1>1, <1>2 DEF WithHeld
<1>4. PairsOf(inner) /\ HeldLeaf(buf, buf_pos) /\ inner \in Seq(PairRecord)
  BY DEF VerifierInv, PairsOf
<1>5. Top \in PairRecord /\ IsPair(Top) /\ PairsOf(Front(inner))
  BY <1>1, <1>4, PairsTop DEF Top
<1>6. Top.kA \in Nodes /\ Top.kB \in Nodes
  BY <1>5 DEF PairRecord
<1>7. PICK r \in Seq(Nodes) : /\ NodesOf(r, t, Front(inner))
                              /\ x = Append(Append(r, Last(inner).kB), Last(inner).kA)
  BY <1>1, <1>2, <1>4, NodesOfPop
<1>8. InOrder(Append(Append(r, Top.kB), Top.kA), num_leaf)
  BY <1>3, <1>7 DEF Top
<1> QED
  BY <1>1, <1>2, <1>4, <1>5, <1>6, <1>7, <1>8

\* The first of two leaves is returned, the second waits.
LEMMA EngineReturns ==
  ASSUME SignerInv, VerifierInv, EngineLeaves
  PROVE  /\ VerifierInv'
         /\ num_leaf \in Leaves
         /\ lseed_out' = IF num_leaf \in hidden THEN ZeroSeed ELSE LeafPosition(num_leaf)
<1>1. /\ InEngine /\ IsLeaf(Top.kA) /\ inner' = Front(inner)
      /\ buf' = <<Top.seedA, Top.seedB>> /\ buf_pos' = 1 /\ lseed_out' = Top.seedA
      /\ num_leaf' = num_leaf + 1 /\ ret' = "leaf"
      /\ UNCHANGED <<hidden, hidden_nodes, signer, build, stack, size, path_idx>>
  BY DEF EngineLeaves, OuterIdle, Fixed, bulk
<1> DEFINE a == Top.kA
           b == Top.kB
<1>2. /\ batch /\ IsPair(Top) /\ a \in Nodes /\ b \in Nodes /\ PairsOf(Front(inner))
  BY <1>1, EngineAt
<1>3. PICK r, t : /\ WalkAt(t, size, path_idx) /\ StackOf(stack, t, t)
                  /\ NodesOf(r, t, Front(inner)) /\ r \in Seq(Nodes) /\ t \in Seq(Nodes)
                  /\ InOrder(Append(Append(r, b), a), num_leaf)
  BY <1>1, EngineAt
<1>4. /\ Top.seedA = a /\ Top.seedB = b /\ IsLeaf(a) /\ IsLeaf(b)
      /\ a \notin hidden_nodes /\ b \notin hidden_nodes
  BY <1>1, <1>2, PairLevel DEF IsPair
<1>5. buf' = <<a, b>> /\ lseed_out' = a
  BY <1>1, <1>4
<1> HIDE DEF a, b
<1> DEFINE y == Append(r, b)
<1>6. y \in Seq(Nodes)
  BY <1>2, <1>3
<1>7. Append(y, a) # <<>> /\ Front(Append(y, a)) = y /\ Last(Append(y, a)) = a
  BY <1>2, <1>6, AppendSplit
<1>8. num_leaf \in Leaves /\ a = LeafPosition(num_leaf) /\ InOrder(y, num_leaf')
  BY <1>1, <1>3, <1>4, <1>7, OrderPop
<1>9. num_leaf \notin hidden
  BY <1>4, <1>8, LeafHidden DEF SignerInv
<1>10. Len(buf') = 2 /\ buf'[2] = b /\ buf'[1 + 1] = b /\ HeldLeaf(buf', buf_pos')
  <2>1. Len(buf') = 2 /\ buf'[2] = b
    BY <1>5
  <2> QED
    BY <1>1, <1>2, <1>4, <2>1 DEF HeldLeaf
<1>11. WithHeld(r, buf', buf_pos') = y
  BY <1>1, <1>10 DEF WithHeld
<1> HIDE DEF y
<1>12. /\ WalkAt(t, size', path_idx') /\ PairsOf(inner')
       /\ IteratorAt(r, t, stack', inner', buf', buf_pos', num_leaf')
  BY <1>1, <1>2, <1>3, <1>8, <1>11 DEF IteratorAt
<1>13. VerifierInv'
  BY <1>1, <1>2, <1>10, <1>12, IteratorStep
<1> QED
  BY <1>5, <1>8, <1>9, <1>13

\* The children of both nodes of the top pair take its place: the stack of pairs
\* still fits.
LEMMA EnginePushes ==
  ASSUME HiddenInv, NEW p, PairsOf(p), p # <<>>, NEW q, q = Last(p), ~IsLeaf(q.kA)
  PROVE  LET s == Append(Front(p), ChildPair(q.kB, q.kB))
         IN  /\ PairsOf(s) /\ PairsOf(Append(s, ChildPair(q.kA, q.kA)))
             /\ IsPair(ChildPair(q.kB, q.kB)) /\ IsPair(ChildPair(q.kA, q.kA))
<1> DEFINE L == Len(p)
           f == Front(p)
           a == q.kA
           b == q.kB
           cA == ChildPair(a, a)
           cB == ChildPair(b, b)
           s == Append(f, cB)
<1>1. /\ q \in PairRecord /\ IsPair(q) /\ Pow2[L] <= a /\ L \in 1..H
      /\ PairsOf(f) /\ Len(f) = L - 1
  BY PairsTop
<1>2. /\ a \in Nodes /\ b \in Nodes /\ b = a + 1 /\ ~IsLeaf(a) /\ ~IsLeaf(b)
      /\ a \notin hidden_nodes /\ b \notin hidden_nodes
  BY <1>1, PairLevel DEF IsPair, PairRecord
<1>3. /\ IsPair(cA) /\ cA.kA = 2 * a
      /\ IsPair(cB) /\ cB.kA = 2 * b
  <2> HIDE DEF a, b
  <2> QED
    BY <1>2, ChildrenPair
<1>4. a \in Nat /\ H \in Nat /\ L \in Nat /\ H \in 0..H /\ L \in 0..H
  <2>1. H \in Nat \ {0}
    BY Sizes
  <2>2. \A k \in Nodes : k \in Nat
    BY NodesSmall
  <2> QED
    BY <1>1, <1>2, <2>1, <2>2
<1>5. L < H
  <2>1. a < M /\ M <= Pow2[H] /\ M \in Nat
    BY <1>2, <1>4, Sizes DEF IsLeaf
  <2>2. Pow2[L] \in Nat /\ Pow2[H] \in Nat
    BY <1>4, Powers
  <2>3. L # H
    <3> HIDE DEF a, L
    <3> QED
      BY <1>1, <1>4, <2>1, <2>2
  <2> QED
    BY <1>1, <1>4, <2>3
<1>6. Pow2[L + 1] = 2 * Pow2[L] /\ Pow2[L] \in Nat
  <2>1. L + 1 \in 1..H /\ (L + 1) - 1 = L
    BY <1>1, <1>4, <1>5
  <2>2. \A k \in 1..H : Pow2[k] = 2 * Pow2[k - 1]
    BY Powers
  <2>3. Pow2[L + 1] = 2 * Pow2[(L + 1) - 1]
    BY <2>1, <2>2
  <2> QED
    BY <1>4, <2>1, <2>3, Powers
<1> HIDE DEF L, a, b, cA, cB
<1>7. Pow2[L + 1] <= cA.kA /\ Pow2[L + 1] <= cB.kA /\ Pow2[L] <= cB.kA
  BY <1>1, <1>2, <1>3, <1>4, <1>6
<1>8. f # <<>> => Pow2[L] <= f[L - 1].kA
  <2> SUFFICES ASSUME f # <<>> PROVE Pow2[L] <= f[L - 1].kA
    OBVIOUS
  <2>1. p \in Seq(PairRecord) /\ \A i \in 1 .. L - 1 : Pow2[i + 1] <= p[i].kA
    BY DEF PairsOf, L
  <2>2. \A i \in 1 .. L - 1 : f[i] = p[i]
    BY <2>1, FrontLast DEF L
  <2>3. f \in Seq(PairRecord)
    BY <1>1 DEF PairsOf
  <2>4. L - 1 \in 1 .. L - 1 /\ (L - 1) + 1 = L
    <3>1. Len(f) # 0
      <4> HIDE DEF f
      <4> QED
        BY <2>3
    <3> QED
      BY <1>1, <1>4, <3>1
  <2> QED
    BY <2>1, <2>2, <2>4
<1> HIDE DEF f
<1>9. (L - 1) + 1 = L /\ L - 1 < H
  BY <1>1, <1>4
<1>10. PairsOf(s)
  <2>1. Len(f) + 1 = L /\ Len(f) < H /\ Len(f) = L - 1
    BY <1>1, <1>9
  <2>2. f # <<>> => Pow2[Len(f) + 1] <= f[Len(f)].kA
    BY <1>8, <2>1
  <2>3. Pow2[Len(f) + 1] <= cB.kA
    BY <1>7, <2>1
  <2> QED
    BY <1>1, <1>3, <2>1, <2>2, <2>3, PairsPush
<1>11. Len(s) = L /\ s[L] = cB
  <2>1. f \in Seq(PairRecord) /\ cB \in PairRecord
    BY <1>1, <1>3 DEF PairsOf, IsPair
  <2>2. Len(s) = Len(f) + 1 /\ s[Len(f) + 1] = cB
    BY <2>1, AppendFacts
  <2> QED
    BY <1>1, <1>9, <2>2
<1> HIDE DEF s
<1>12. PairsOf(Append(s, cA))
  <2>1. Len(s) < H /\ Pow2[Len(s) + 1] <= s[Len(s)].kA /\ Pow2[Len(s) + 1] <= cA.kA
    BY <1>5, <1>7, <1>11
  <2> QED
    BY <1>3, <1>10, <2>1, PairsPush
<1> QED
  BY <1>3, <1>10, <1>12 DEF s, f, cA, cB, a, b

\* A round of the engine that derives.
LEMMA EngineDescends ==
  ASSUME SignerInv, VerifierInv, EngineDerives
  PROVE  VerifierInv'
<1>1. /\ InEngine /\ ~IsLeaf(Top.kA) /\ inner' = Front(inner) \o PushPairs(Top)
      /\ buf' = <<>> /\ buf_pos' = buf_pos
      /\ num_leaf' = num_leaf /\ ret' = "running"
      /\ UNCHANGED <<hidden, hidden_nodes, signer, build, stack, size, path_idx>>
  BY DEF EngineDerives, OuterIdle, Fixed, bulk, InEngine
<1> DEFINE a == Top.kA
           b == Top.kB
           cA == ChildPair(a, a)
           cB == ChildPair(b, b)
           f == Front(inner)
<1>2. /\ batch /\ IsPair(Top) /\ a \in Nodes /\ b \in Nodes /\ PairsOf(inner) /\ inner # <<>>
      /\ HeldLeaf(buf, buf_pos)
  BY <1>1, EngineAt
<1>3. PICK r, t : /\ WalkAt(t, size, path_idx) /\ StackOf(stack, t, t)
                  /\ NodesOf(r, t, f) /\ r \in Seq(Nodes) /\ t \in Seq(Nodes)
                  /\ InOrder(Append(Append(r, b), a), num_leaf)
  BY <1>1, EngineAt
<1>4. /\ Top.seedA = a /\ Top.seedB = b /\ ~IsLeaf(a) /\ ~IsLeaf(b)
      /\ a \notin hidden_nodes /\ b \notin hidden_nodes
  BY <1>1, <1>2, PairLevel DEF IsPair
<1>5. /\ PairsOf(Append(f, cB)) /\ PairsOf(Append(Append(f, cB), cA))
      /\ IsPair(cB) /\ IsPair(cA)
  BY <1>1, <1>2, EnginePushes DEF SignerInv, Top
<1>6. cA.kA = 2 * a /\ cA.kB = 2 * a + 1 /\ cB.kA = 2 * b /\ cB.kB = 2 * b + 1
  <2> HIDE DEF a, b
  <2> QED
    BY <1>2, <1>4, ChildrenPair DEF SignerInv
<1>7. inner' = f \o <<cB, cA>>
  BY <1>1, <1>4 DEF PushPairs
<1>8. f \in Seq(PairRecord) /\ cA \in PairRecord /\ cB \in PairRecord
      /\ Append(f, cB) \in Seq(PairRecord)
  <2>1. PairsOf(f)
    BY <1>2, PairsTop
  <2> QED
    BY <1>5, <2>1 DEF PairsOf, IsPair
<1> HIDE DEF a, b, cA, cB, f
<1>9. inner' = Append(Append(f, cB), cA)
  BY <1>7, <1>8, TwoAppends
<1> DEFINE r1 == Append(Append(r, 2 * b + 1), 2 * b)
           x == Append(Append(r1, 2 * a + 1), 2 * a)
<1>10. NodesOf(x, t, inner')
  <2>1. NodesOf(r1, t, Append(f, cB))
    <3>1. NodesOf(Append(Append(r, cB.kB), cB.kA), t, Append(f, cB))
      BY <1>3, <1>8, NodesOfPush
    <3> QED
      BY <1>6, <3>1
  <2> HIDE DEF r1
  <2>2. NodesOf(Append(Append(r1, cA.kB), cA.kA), t, Append(Append(f, cB), cA))
    BY <1>3, <1>8, <2>1, NodesOfPush
  <2> QED
    BY <1>6, <1>9, <2>2
<1>11. InOrder(x, num_leaf)
  <2>1. /\ 2 * a \in Nodes /\ 2 * a + 1 \in Nodes /\ 2 * b \in Nodes /\ 2 * b + 1 \in Nodes
    BY <1>2, <1>4, NodesSmall
  <2> DEFINE z == r \o <<2 * b + 1, 2 * b>>
  <2>2. z = r1 /\ z \in Seq(Nodes)
    <3> DEFINE c == 2 * b + 1
               d == 2 * b
    <3>1. c \in Nodes /\ d \in Nodes
      BY <2>1
    <3> HIDE DEF c, d
    <3>2. r \o <<c, d>> = Append(Append(r, c), d) /\ Append(Append(r, c), d) \in Seq(Nodes)
      BY <1>3, <3>1, TwoAppends
    <3> QED
      BY <3>2 DEF c, d
  <2>3. InOrder(Append(z, a), num_leaf)
    BY <1>2, <1>3, <1>4, OrderPushTwo
  <2> HIDE DEF z, r1
  <2>4. Append(z, a) # <<>> /\ Front(Append(z, a)) = z /\ Last(Append(z, a)) = a
    BY <1>2, <2>2, AppendSplit
  <2>5. InOrder(z \o <<2 * a + 1, 2 * a>>, num_leaf)
    <3> DEFINE y == Append(z, a)
    <3>1. InOrder(y, num_leaf) /\ y # <<>> /\ Front(y) = z /\ Last(y) = a
      BY <2>3, <2>4
    <3> HIDE DEF y
    <3>2. InOrder(Front(y) \o <<2 * Last(y) + 1, 2 * Last(y)>>, num_leaf)
      BY <1>4, <3>1, OrderPush
    <3> QED
      BY <3>1, <3>2
  <2>6. z \o <<2 * a + 1, 2 * a>> = x
    <3> DEFINE c == 2 * a + 1
               d == 2 * a
    <3>1. c \in Nodes /\ d \in Nodes
      BY <2>1
    <3> HIDE DEF c, d
    <3>2. z \o <<c, d>> = Append(Append(z, c), d)
      BY <2>2, <3>1, TwoAppends
    <3> QED
      BY <2>2, <3>2 DEF c, d
  <2> QED
    BY <2>5, <2>6
<1> HIDE DEF x, r1
<1>12. ~(buf_pos' < Len(buf')) /\ HeldLeaf(buf', buf_pos')
  <2>1. Len(<<>>) = 0 /\ buf_pos \in 0..2
    BY <1>2 DEF HeldLeaf
  <2> QED
    BY <1>1, <2>1 DEF HeldLeaf
<1>13. /\ WalkAt(t, size', path_idx') /\ PairsOf(inner')
       /\ IteratorAt(x, t, stack', inner', buf', buf_pos', num_leaf')
  BY <1>1, <1>2, <1>3, <1>5, <1>9, <1>10, <1>11, <1>12 DEF IteratorAt, WithHeld
<1> QED
  BY <1>1, <1>2, <1>12, <1>13, IteratorStep

\* One in which a derivation fails.
LEMMA EngineStops ==
  ASSUME SignerInv, VerifierInv, EngineFails
  PROVE  VerifierInv'
<1>1. /\ InEngine /\ inner' = Front(inner) /\ buf' = <<>> /\ buf_pos' = buf_pos
      /\ num_leaf' = num_leaf /\ ret' = "error"
      /\ UNCHANGED <<hidden, hidden_nodes, signer, build, stack, size, path_idx>>
  BY DEF EngineFails, OuterIdle, Fixed, bulk
<1>2. batch /\ PairsOf(inner') /\ HeldLeaf(buf, buf_pos)
  BY <1>1, EngineAt
<1>3. HeldLeaf(buf', buf_pos')
  <2>1. Len(<<>>) = 0 /\ buf_pos \in 0..2
    BY <1>2 DEF HeldLeaf
  <2> QED
    BY <1>1, <2>1 DEF HeldLeaf
<1>4. FramesFit(stack') /\ size' \in Int /\ path_idx' \in 0..T_OPEN /\ num_leaf' \in 0..M
  BY <1>1 DEF VerifierInv
<1> QED
  BY <1>1, <1>2, <1>3, <1>4, FailStep

\* The verifier's outer stack: its top node has no seed, and what the signer did
\* there decides.
LEMMA OuterAt ==
  ASSUME SignerInv, VerifierInv, InOuter
  PROVE  /\ batch /\ ret = "running" /\ inner = <<>> /\ ~(buf_pos < Len(buf))
         /\ HeldLeaf(buf, buf_pos) /\ hidden # {} /\ Node \in Nodes
         /\ Reveals(Node, size) => path_idx < T_OPEN
         /\ PathInBounds
         /\ \E t \in Seq(Nodes) :
              /\ t # <<>> /\ Node = Last(t) /\ StackOf(stack, t, t)
              /\ InOrder(t, num_leaf)
              /\ Reveals(Node, size) =>
                   /\ path[path_idx + 1] = Node /\ Node \notin hidden_nodes
                   /\ WalkAt(Front(t), size, path_idx + 1)
              /\ IsLeaf(Node) /\ ~Reveals(Node, size) =>
                   Node \in hidden_nodes /\ WalkAt(Front(t), size, path_idx)
              /\ ~IsLeaf(Node) /\ ~Reveals(Node, size) =>
                   WalkAt(Front(t) \o <<2 * Node + 1, 2 * Node>>, SizeAfter(Node, size), path_idx)
<1>1. batch /\ ret = "running" /\ ~(buf_pos < Len(buf)) /\ inner = <<>> /\ stack # <<>>
  BY DEF InOuter, Buffered
<1>2. PICK x, t : /\ WalkAt(t, size, path_idx) /\ StackOf(stack, t, t) /\ NodesOf(x, t, inner)
                  /\ InOrder(WithHeld(x, buf, buf_pos), num_leaf)
                  /\ x \in Seq(Nodes) /\ t \in Seq(Nodes)
                  /\ stack = <<>> <=> t = <<>>
  BY <1>1, PairAt
<1>3. x = t /\ InOrder(t, num_leaf) /\ t # <<>>
  BY <1>1, <1>2, NodesOfNone DEF WithHeld
<1>4. Node = Last(t)
  BY <1>2, <1>3, StackTop DEF Node, VTop
<1> DEFINE k == Node
<1> HIDE DEF k
<1>5. /\ hidden # {} /\ s_ret = "ok" /\ k \in Nodes
      /\ Revealed(hidden_nodes, k, size) =>
           /\ path_idx < T_OPEN /\ path[path_idx + 1] = k /\ k \notin hidden_nodes
           /\ WalkAt(Front(t), size, path_idx + 1)
      /\ IsLeaf(k) /\ ~Revealed(hidden_nodes, k, size) =>
           k \in hidden_nodes /\ WalkAt(Front(t), size, path_idx)
      /\ ~IsLeaf(k) /\ ~Revealed(hidden_nodes, k, size) =>
           WalkAt(Front(t) \o <<2 * k + 1, 2 * k>>, SizeAfter(k, size), path_idx)
  BY <1>2, <1>3, <1>4, FollowWalk DEF k
<1>6. Reveals(k, size) <=> Revealed(hidden_nodes, k, size)
  BY DEF Reveals
<1>7. PathInBounds
  BY <1>5, <1>6 DEF PathInBounds, ReadsPath, Node, k
<1>8. HeldLeaf(buf, buf_pos)
  BY DEF VerifierInv
<1> QED
  BY <1>1, <1>2, <1>3, <1>4, <1>5, <1>6, <1>7, <1>8 DEF k

\* A leaf that has no seed: the path has it, or it is hidden.
LEMMA OuterReturns ==
  ASSUME SignerInv, VerifierInv, OuterLeaf
  PROVE  /\ VerifierInv'
         /\ num_leaf \in Leaves
         /\ lseed_out' = IF num_leaf \in hidden THEN ZeroSeed ELSE LeafPosition(num_leaf)
<1>1. /\ InOuter /\ IsLeaf(Node) /\ stack' = Front(stack)
      /\ lseed_out' = IF Reveals(Node, size) THEN path[path_idx + 1] ELSE ZeroSeed
      /\ path_idx' = IF Reveals(Node, size) THEN path_idx + 1 ELSE path_idx
      /\ num_leaf' = num_leaf + 1 /\ ret' = "leaf"
      /\ UNCHANGED <<hidden, hidden_nodes, signer, build, size, inner, buf, buf_pos>>
  BY DEF OuterLeaf, Fixed, bulk, engine
<1>2. batch /\ inner = <<>> /\ ~(buf_pos < Len(buf)) /\ HeldLeaf(buf, buf_pos) /\ hidden # {}
  BY <1>1, OuterAt
<1>3. PICK t \in Seq(Nodes) :
        /\ t # <<>> /\ Node = Last(t) /\ StackOf(stack, t, t) /\ InOrder(t, num_leaf)
        /\ Reveals(Node, size) =>
             /\ path[path_idx + 1] = Node /\ Node \notin hidden_nodes
             /\ WalkAt(Front(t), size, path_idx + 1)
        /\ IsLeaf(Node) /\ ~Reveals(Node, size) =>
             Node \in hidden_nodes /\ WalkAt(Front(t), size, path_idx)
  BY <1>1, OuterAt
<1>4. /\ num_leaf \in Leaves /\ Node = LeafPosition(num_leaf)
      /\ InOrder(Front(t), num_leaf')
  BY <1>1, <1>3, OrderPop
<1>5. StackOf(stack', Front(t), Front(t)) /\ Front(t) \in Seq(Nodes)
  BY <1>1, <1>3, StackPop, FrontLast
<1>6. WalkAt(Front(t), size', path_idx')
  BY <1>1, <1>3
<1>7. lseed_out' = IF num_leaf \in hidden THEN ZeroSeed ELSE LeafPosition(num_leaf)
  <2>1. LeafPosition(num_leaf) \in hidden_nodes <=> num_leaf \in hidden
    BY <1>4, LeafHidden DEF SignerInv
  <2> QED
    BY <1>1, <1>3, <1>4, <2>1
<1>8. IteratorAt(Front(t), Front(t), stack', inner', buf', buf_pos', num_leaf')
  BY <1>1, <1>2, <1>4, <1>5, NodesOfNone DEF IteratorAt, WithHeld
<1>9. PairsOf(inner') /\ HeldLeaf(buf', buf_pos')
  BY <1>1, <1>2 DEF VerifierInv
<1>10. VerifierInv'
  BY <1>1, <1>2, <1>6, <1>8, <1>9, IteratorStep
<1> QED
  BY <1>4, <1>7, <1>10

\* A node the path has the seed of is handed to the engine.
LEMMA OuterHands ==
  ASSUME SignerInv, VerifierInv, OuterKnown
  PROVE  VerifierInv'
<1>1. /\ InOuter /\ ~IsLeaf(Node) /\ Reveals(Node, size) /\ stack' = Front(stack)
      /\ path_idx' = path_idx + 1 /\ inner' = <<ChildPair(Node, path[path_idx + 1])>>
      /\ num_leaf' = num_leaf /\ ret' = "running"
      /\ UNCHANGED <<hidden, hidden_nodes, signer, build, size, buf, buf_pos>>
  BY DEF OuterKnown, Fixed, bulk, InOuter
<1>2. batch /\ ~(buf_pos < Len(buf)) /\ HeldLeaf(buf, buf_pos) /\ hidden # {} /\ Node \in Nodes
  BY <1>1, OuterAt
<1>3. PICK t \in Seq(Nodes) :
        /\ t # <<>> /\ Node = Last(t) /\ StackOf(stack, t, t) /\ InOrder(t, num_leaf)
        /\ Reveals(Node, size) =>
             /\ path[path_idx + 1] = Node /\ Node \notin hidden_nodes
             /\ WalkAt(Front(t), size, path_idx + 1)
  BY <1>1, OuterAt
<1> DEFINE k == Node
           q == ChildPair(k, k)
           f == Front(t)
<1>4. /\ IsPair(q) /\ q.kA = 2 * k /\ q.kB = 2 * k + 1 /\ k \in Nodes /\ ~IsLeaf(k)
  BY <1>1, <1>2, <1>3, ChildrenPair DEF SignerInv
<1>5. inner' = <<q>>
  BY <1>1, <1>3
<1>6. f \in Seq(Nodes) /\ StackOf(stack', f, f) /\ WalkAt(f, size', path_idx')
  BY <1>1, <1>3, StackPop, FrontLast
<1>7. InOrder(f \o <<2 * k + 1, 2 * k>>, num_leaf')
  BY <1>1, <1>3, OrderPush
<1> HIDE DEF k, q, f
<1>8. <<q>> = Append(<<>>, q) /\ <<>> \in Seq(PairRecord) /\ q \in PairRecord /\ Len(<<>>) = 0
  BY <1>4 DEF IsPair
<1>9. PairsOf(inner')
  <2>1. PairsOf(<<>>)
    <3>1. 1..0 = {} /\ 1 .. 0 - 1 = {} /\ 0 <= H
      BY Sizes
    <3> QED
      BY <1>8, <3>1 DEF PairsOf
  <2>2. Pow2[0 + 1] <= q.kA /\ 0 < H
    <3>1. 1 \in 1..H /\ H \in Nat /\ 0 < H
      BY Sizes
    <3>2. Pow2[1] = 2 * Pow2[1 - 1] /\ Pow2[0] = 1
      BY <3>1, Powers
    <3>3. k \in Nat \ {0}
      BY <1>4, NodesSmall
    <3> QED
      BY <1>4, <3>1, <3>2, <3>3
  <2> QED
    BY <1>4, <1>5, <1>8, <2>1, <2>2, PairsPush
<1> DEFINE x == Append(Append(f, 2 * k + 1), 2 * k)
<1>10. NodesOf(x, f, inner')
  <2>1. NodesOf(f, f, <<>>)
    BY <1>6, NodesOfNone
  <2>2. NodesOf(Append(Append(f, q.kB), q.kA), f, Append(<<>>, q))
    BY <1>6, <1>8, <2>1, NodesOfPush
  <2> QED
    BY <1>4, <1>5, <1>8, <2>2
<1>11. x = f \o <<2 * k + 1, 2 * k>>
  <2> DEFINE c == 2 * k + 1
             d == 2 * k
  <2>1. c \in Nodes /\ d \in Nodes
    BY <1>4, NodesSmall
  <2> HIDE DEF c, d
  <2>2. f \o <<c, d>> = Append(Append(f, c), d)
    BY <1>6, <2>1, TwoAppends
  <2> QED
    BY <2>2 DEF c, d
<1> HIDE DEF x
<1>12. /\ IteratorAt(x, f, stack', inner', buf', buf_pos', num_leaf')
       /\ HeldLeaf(buf', buf_pos')
  BY <1>1, <1>2, <1>6, <1>7, <1>10, <1>11 DEF IteratorAt, WithHeld
<1> QED
  BY <1>1, <1>2, <1>6, <1>9, <1>12, IteratorStep

\* A node that stays without is expanded where the signer expanded it.
LEMMA OuterDescends ==
  ASSUME SignerInv, VerifierInv, OuterUnknown
  PROVE  VerifierInv'
<1>1. /\ InOuter /\ ~IsLeaf(Node) /\ ~Reveals(Node, size)
      /\ stack' = WithChildren(Front(stack), Node, Unknown) /\ size' = SizeAfter(Node, size)
      /\ num_leaf' = num_leaf /\ ret' = "running"
      /\ UNCHANGED <<hidden, hidden_nodes, signer, build, path_idx, inner, buf, buf_pos>>
  BY DEF OuterUnknown, Fixed, bulk, engine, InOuter
<1>2. batch /\ inner = <<>> /\ ~(buf_pos < Len(buf)) /\ HeldLeaf(buf, buf_pos) /\ hidden # {}
  BY <1>1, OuterAt
<1>3. PICK t \in Seq(Nodes) :
        /\ t # <<>> /\ Node = Last(t) /\ StackOf(stack, t, t) /\ InOrder(t, num_leaf)
        /\ ~IsLeaf(Node) /\ ~Reveals(Node, size) =>
             WalkAt(Front(t) \o <<2 * Node + 1, 2 * Node>>, SizeAfter(Node, size), path_idx)
  BY <1>1, OuterAt
<1> DEFINE u == Front(t) \o <<2 * Node + 1, 2 * Node>>
<1>4. WalkAt(u, size', path_idx') /\ InOrder(u, num_leaf')
  BY <1>1, <1>3, OrderPush
<1>5. u \in Seq(Nodes) /\ StackOf(stack', u, u)
  <2> DEFINE k == Node
  <2>1. HiddenInv /\ k = Last(t) /\ ~IsLeaf(k) /\ u = Front(t) \o <<2 * k + 1, 2 * k>>
    BY <1>1, <1>3 DEF SignerInv
  <2>2. stack' = WithChildren(Front(stack), k, Unknown)
    BY <1>1
  <2> HIDE DEF k, u
  <2>3. PICK x : x = t
    OBVIOUS
  <2>4. /\ HiddenInv /\ StackOf(stack, x, t) /\ x # <<>>
        /\ k = Last(x) /\ ~IsLeaf(k) /\ u = Front(x) \o <<2 * k + 1, 2 * k>>
    BY <1>3, <2>1, <2>3
  <2>5. /\ Len(t) < Len(x) => StackOf(WithChildren(Front(stack), k, k), u, t)
        /\ x = t /\ k \notin hidden_nodes =>
             StackOf(WithChildren(Front(stack), k, k), u, Front(t))
        /\ x = t => StackOf(WithChildren(Front(stack), k, Unknown), u, u)
    BY <2>4, StackPush
  <2> QED
    BY <2>2, <2>3, <2>5 DEF StackOf, Heights
<1> HIDE DEF u
<1>6. /\ IteratorAt(u, u, stack', inner', buf', buf_pos', num_leaf')
      /\ PairsOf(inner') /\ HeldLeaf(buf', buf_pos')
  BY <1>1, <1>2, <1>4, <1>5, NodesOfNone DEF IteratorAt, WithHeld, VerifierInv
<1> QED
  BY <1>1, <1>2, <1>4, <1>6, IteratorStep

\* The children of a known node cannot be derived.  The path is never overrun.
LEMMA OuterStops ==
  ASSUME SignerInv, VerifierInv, OuterFails
  PROVE  VerifierInv'
<1>1. /\ InOuter /\ Reveals(Node, size) /\ stack' = Front(stack) /\ ret' = "error"
      /\ UNCHANGED <<hidden, hidden_nodes, signer, build, size, num_leaf, inner, buf, buf_pos>>
      /\ path_idx' = IF path_idx >= T_OPEN THEN path_idx ELSE path_idx + 1
  BY DEF OuterFails, Fixed, bulk, engine
<1>2. batch /\ HeldLeaf(buf, buf_pos) /\ path_idx < T_OPEN
  BY <1>1, OuterAt
<1>3. PICK t \in Seq(Nodes) : t # <<>> /\ StackOf(stack, t, t)
  BY <1>1, OuterAt
<1>4. FramesFit(stack')
  <2>1. FramesFit(stack)
    BY DEF VerifierInv
  <2>2. stack = FramesOf(t, Len(t)) /\ Len(t) \in Nat
    BY <1>3 DEF StackOf
  <2>3. stack \in Seq([k : Nodes, seed : Int]) /\ stack # <<>>
    BY <1>3, <2>2, FramesTop
  <2> QED
    BY <1>1, <2>1, <2>3, FramesPop
<1>5. size' \in Int /\ path_idx' \in 0..T_OPEN /\ num_leaf' \in 0..M
  BY <1>1, <1>2, Sizes DEF VerifierInv
<1>6. PairsOf(inner') /\ HeldLeaf(buf', buf_pos')
  BY <1>1, <1>2 DEF VerifierInv
<1> QED
  BY <1>1, <1>2, <1>4, <1>5, <1>6, FailStep

\* The signer's pair iterator starts at the children of the root.
LEMMA PairSignerStarts ==
  ASSUME SignerInv, VerifierInv, PairSignerInit
  PROVE  VerifierInv'
<1>1. /\ batch /\ hidden = {} /\ stack' = <<>> /\ num_leaf' = 0
      /\ inner' = <<ChildPair(1, 1)>> /\ buf' = <<>> /\ buf_pos' = 0
      /\ ret' \in {"ready", "error"}
      /\ UNCHANGED <<hidden, hidden_nodes, signer, build, size, path_idx>>
  BY DEF PairSignerInit, IsSigner, bulk
<1> DEFINE q == ChildPair(1, 1)
<1>2. 1 \in Nodes /\ 1 \notin hidden_nodes /\ HiddenInv
  BY <1>1, NoneHidden, NodesSmall DEF SignerInv
<1>3. ~IsLeaf(1)
  <2>1. M \in Nat \ {0} /\ M % 2 = 0
    BY Sizes, PairAssumption
  <2> QED
    BY <2>1 DEF IsLeaf
<1>4. IsPair(q) /\ q.kA = 2 /\ q.kB = 3
  <2>1. 2 * 1 = 2 /\ 2 * 1 + 1 = 3
    OBVIOUS
  <2> QED
    BY <1>2, <1>3, <2>1, ChildrenPair
<1>5. 2 \in Nodes /\ 3 \in Nodes
  BY <1>2, <1>3, NodesSmall
<1> HIDE DEF q
<1>6. <<q>> = Append(<<>>, q) /\ <<>> \in Seq(PairRecord) /\ q \in PairRecord /\ Len(<<>>) = 0
  BY <1>4 DEF IsPair
<1>7. PairsOf(<<>>)
  <2>1. 1..0 = {} /\ 1 .. 0 - 1 = {} /\ 0 <= H
    BY Sizes
  <2> QED
    BY <1>6, <2>1 DEF PairsOf
<1>8. PairsOf(inner')
  <2>1. Pow2[0 + 1] <= q.kA /\ 0 < H
    <3>1. 1 \in 1..H /\ 0 < H
      BY Sizes
    <3>2. Pow2[1] = 2 * Pow2[1 - 1] /\ Pow2[0] = 1
      BY <3>1, Powers
    <3> QED
      BY <1>4, <3>1, <3>2
  <2> QED
    BY <1>1, <1>4, <1>6, <1>7, <2>1, PairsPush DEF q
<1>9. <<>> \in Seq(Nodes) /\ NodesOf(<<>>, <<>>, <<>>)
  <2>1. <<>> \in Seq(Nodes)
    OBVIOUS
  <2> QED
    BY <2>1, NodesOfNone
<1>10. NodesOf(<<3, 2>>, <<>>, inner')
  <2>1. NodesOf(Append(Append(<<>>, q.kB), q.kA), <<>>, Append(<<>>, q))
    BY <1>6, <1>9, NodesOfPush
  <2>2. Append(Append(<<>>, 3), 2) = <<3, 2>>
    <3> DEFINE e == <<>>
    <3>1. e \o <<3, 2>> = <<3, 2>> /\ e \in Seq(Nodes)
      OBVIOUS
    <3> HIDE DEF e
    <3>2. e \o <<3, 2>> = Append(Append(e, 3), 2)
      BY <1>5, <3>1, TwoAppends
    <3> QED
      BY <3>1, <3>2 DEF e
  <2> QED
    BY <1>1, <1>4, <1>6, <2>1, <2>2 DEF q
<1>11. InOrder(<<3, 2>>, 0)
  <2> DEFINE x == <<1>>
  <2>1. InOrder(x, 0) /\ x # <<>> /\ Last(x) = 1 /\ Front(x) = <<>>
    BY OrderStart, RootFrames DEF Front
  <2> HIDE DEF x
  <2>2. InOrder(Front(x) \o <<2 * Last(x) + 1, 2 * Last(x)>>, 0)
    BY <1>3, <2>1, OrderPush
  <2>3. <<>> \o <<2 * 1 + 1, 2 * 1>> = <<3, 2>>
    OBVIOUS
  <2> QED
    BY <2>1, <2>2, <2>3
<1>12. StackOf(stack', <<>>, <<>>)
  <2>1. Heights(<<>>)
    BY <1>9, Sizes DEF Heights
  <2>2. FramesOf(<<>>, 0) = <<>> /\ Len(<<>>) = 0
    BY DEF FramesOf
  <2> QED
    BY <1>1, <2>1, <2>2 DEF StackOf
<1>13. ~(buf_pos' < Len(buf')) /\ HeldLeaf(buf', buf_pos')
  BY <1>1, <1>6 DEF HeldLeaf
<1>14. IteratorAt(<<3, 2>>, <<>>, stack', inner', buf', buf_pos', num_leaf')
  BY <1>1, <1>10, <1>11, <1>12, <1>13 DEF IteratorAt, WithHeld
<1>15. WalkAt(<<>>, size', path_idx')
  BY <1>1 DEF WalkAt
<1>16. CASE ret' = "ready"
  BY <1>1, <1>8, <1>13, <1>14, <1>15, <1>16, IteratorStep
<1>17. CASE ret' = "error"
  <2>1. FramesFit(stack') /\ num_leaf' \in 0..M
    BY <1>9, <1>14, IteratorFits
  <2>2. size' \in Int /\ path_idx' \in 0..T_OPEN
    BY <1>1 DEF VerifierInv
  <2> QED
    BY <1>1, <1>8, <1>13, <1>17, <2>1, <2>2, FailStep
<1> QED
  BY <1>1, <1>16, <1>17

\* The verifier's starts at the root, with no pair.
LEMMA PairVerifierStarts ==
  ASSUME SignerInv, VerifierInv, PairVerifierInit
  PROVE  VerifierInv'
<1>1. /\ batch /\ s_ret = "ok" /\ hidden # {} /\ num_leaf' = 0 /\ path_idx' = 0
      /\ inner' = <<>> /\ buf' = <<>> /\ buf_pos' = 0
      /\ size' = Cardinality(hidden_nodes) - 2 * TAU + 1
      /\ \/ ret' = "error" /\ UNCHANGED stack
         \/ ret' = "ready" /\ stack' = <<Frame(1, Unknown)>>
      /\ UNCHANGED <<hidden, hidden_nodes, signer, build>>
  BY DEF PairVerifierInit, VerifierInit, bulk
<1>2. WalkAt(<<1>>, size', path_idx')
  BY <1>1, WalkAtStart
<1>3. PairsOf(inner') /\ HeldLeaf(buf', buf_pos') /\ ~(buf_pos' < Len(buf'))
  <2>1. 1..0 = {} /\ 1 .. 0 - 1 = {} /\ 0 <= H /\ Len(<<>>) = 0 /\ <<>> \in Seq(PairRecord)
    BY Sizes
  <2> QED
    BY <1>1, <2>1 DEF PairsOf, HeldLeaf
<1>4. CASE ret' = "ready" /\ stack' = <<Frame(1, Unknown)>>
  <2>1. StackOf(stack', <<1>>, <<1>>) /\ <<1>> \in Seq(Nodes)
    <3>1. 1+1..1 = {} /\ 1 <= 1
      OBVIOUS
    <3> QED
      BY <1>4, <3>1, RootFrames DEF StackOf
  <2>2. IteratorAt(<<1>>, <<1>>, stack', inner', buf', buf_pos', num_leaf')
    BY <1>1, <1>3, <2>1, OrderStart, NodesOfNone DEF IteratorAt, WithHeld
  <2> QED
    BY <1>1, <1>2, <1>3, <1>4, <2>2, IteratorStep
<1>5. CASE ret' = "error" /\ UNCHANGED stack
  <2>1. size' \in Int /\ path_idx' \in 0..T_OPEN
    BY <1>1, <1>2, WalkAtFacts
  <2>2. FramesFit(stack') /\ num_leaf' \in 0..M
    BY <1>1, <1>5, Sizes DEF VerifierInv
  <2> QED
    BY <1>1, <1>3, <1>5, <2>1, <2>2, FailStep
<1> QED
  BY <1>1, <1>4, <1>5

\* Nothing is left: all leaves have been returned, all of the path has been used.
LEMMA PairEnds ==
  ASSUME SignerInv, VerifierInv, PairExhausted
  PROVE  VerifierInv'
<1>1. /\ batch /\ ret = "running" /\ ~(buf_pos < Len(buf)) /\ inner = <<>> /\ stack = <<>>
      /\ buf' = (IF IsSigner THEN <<>> ELSE buf) /\ ret' = "done"
      /\ UNCHANGED <<hidden, hidden_nodes, signer, build, stack, size, path_idx, num_leaf,
                     inner, buf_pos>>
  BY DEF PairExhausted, OuterIdle, Fixed, bulk, Buffered
<1>2. PICK x, t : /\ WalkAt(t, size, path_idx) /\ StackOf(stack, t, t) /\ NodesOf(x, t, inner)
                  /\ InOrder(WithHeld(x, buf, buf_pos), num_leaf)
                  /\ x \in Seq(Nodes) /\ t \in Seq(Nodes)
                  /\ stack = <<>> <=> t = <<>>
  BY <1>1, PairAt
<1>3. t = <<>> /\ x = <<>> /\ InOrder(<<>>, num_leaf)
  BY <1>1, <1>2, NodesOfNone DEF WithHeld
<1>4. num_leaf' = M /\ (hidden # {} => path_idx' = T_OPEN)
  BY <1>1, <1>2, <1>3, OrderEnd, WalkAtFacts
<1>5. HeldLeaf(buf', buf_pos') /\ ~(buf_pos' < Len(buf'))
  <2>1. HeldLeaf(buf, buf_pos)
    BY DEF VerifierInv
  <2>2. HeldLeaf(<<>>, buf_pos) /\ ~(buf_pos < Len(<<>>))
    <3>1. Len(<<>>) = 0 /\ buf_pos \in 0..2
      BY <2>1 DEF HeldLeaf
    <3> QED
      BY <3>1 DEF HeldLeaf
  <2> QED
    BY <1>1, <2>1, <2>2
<1>6. /\ IteratorAt(x, t, stack', inner', buf', buf_pos', num_leaf')
      /\ WalkAt(t, size', path_idx') /\ PairsOf(inner')
  BY <1>1, <1>2, <1>3, <1>5 DEF IteratorAt, WithHeld, VerifierInv
<1> QED
  BY <1>1, <1>4, <1>5, <1>6, IteratorStep

-----------------------------------------------------------------------------
(***************************************************************************)
(* The invariant of the whole.                                             *)
(***************************************************************************)

\* What a bulk expansion has written so far.
BulkInv ==
  /\ lseed \in [Leaves -> Int]
  /\ build = "bulk" =>
       \A i \in Leaves : i < num_leaf =>
         lseed[i] = IF i \in hidden THEN ZeroSeed ELSE LeafPosition(i)

\* The iterators leave the challenge and the signer alone.
LEMMA SignerKept ==
  ASSUME SignerInv, UNCHANGED <<hidden, hidden_nodes, signer>>
  PROVE  SignerInv'
<1>1. /\ hidden' = hidden /\ hidden_nodes' = hidden_nodes
      /\ s_stack' = s_stack /\ s_size' = s_size /\ s_ret' = s_ret /\ path' = path
      /\ hidden_lseeds' = hidden_lseeds
  BY DEF signer
<1> QED
  BY <1>1 DEF SignerInv, HiddenInv, SignerAt, Placed

\* While the signer runs there is no verifier, and no signer's iterator.
LEMMA VerifierKept ==
  ASSUME SignerInv, VerifierInv, SignerProgress \/ SignerFails, UNCHANGED <<bulk, engine>>
  PROVE  VerifierInv'
<1>1. /\ s_ret = "running"
      /\ hidden' = hidden /\ hidden_nodes' = hidden_nodes
      /\ stack' = stack /\ size' = size /\ path_idx' = path_idx /\ num_leaf' = num_leaf
      /\ ret' = ret
  BY DEF SignerProgress, SignerFails, SignerReveals, SignerExpands, SignerKeepsHidden,
         SignerEnds, SignerRunning, verifier
<1>2. build' = build /\ inner' = inner /\ buf' = buf /\ buf_pos' = buf_pos
  BY DEF bulk, engine
<1>3. hidden # {}
  BY <1>1 DEF SignerInv
<1>4. \A x : ~WalkAt(x, size, path_idx)
  BY <1>1, <1>3 DEF WalkAt
<1>5. ret' \in {"none", "error"}
  BY <1>1, <1>4 DEF VerifierInv
<1>6. build' \in {"plain", "batch", "bulk"}
  BY <1>2 DEF VerifierInv
<1>7. FramesFit(stack)'
  BY <1>1, <1>2 DEF VerifierInv, FramesFit, batch
<1>8. PairsOf(inner)' /\ HeldLeaf(buf, buf_pos)'
  BY <1>1, <1>2 DEF VerifierInv, PairsOf, IsPair, HeldLeaf
<1> QED
  BY <1>1, <1>2, <1>5, <1>6, <1>7, <1>8 DEF VerifierInv, batch

\* Nothing changes.
LEMMA VerifierStays ==
  ASSUME SignerInv, VerifierInv, UNCHANGED <<hidden, hidden_nodes, signer>>,
         stack' = stack, size' = size, path_idx' = path_idx, num_leaf' = num_leaf, ret' = ret,
         build' = build, inner' = inner, buf' = buf, buf_pos' = buf_pos
  PROVE  VerifierInv'
<1>1. /\ FramesFit(stack') /\ size' \in Int /\ path_idx' \in 0..T_OPEN /\ num_leaf' \in 0..M
      /\ PairsOf(inner') /\ HeldLeaf(buf', buf_pos')
      /\ ~batch => inner' = <<>> /\ buf' = <<>> /\ buf_pos' = 0
      /\ ret \in {"none", "ready", "running", "leaf", "done", "error"}
      /\ ret' = "done" => num_leaf' = M /\ (hidden # {} => path_idx' = T_OPEN)
  BY DEF VerifierInv
<1>2. CASE ret \in {"none", "error"}
  <2>1. ret' \in {"none", "error"} /\ UNCHANGED <<hidden, hidden_nodes, signer, build>>
    BY <1>2
  <2> QED
    BY <1>1, <2>1, FailStep
<1>3. CASE ret \in {"ready", "running", "leaf", "done"}
  <2>1. PICK x, t : /\ WalkAt(t, size, path_idx)
                    /\ IteratorAt(x, t, stack, inner, buf, buf_pos, num_leaf)
    BY <1>3 DEF VerifierInv
  <2>2. /\ WalkAt(t, size', path_idx')
        /\ IteratorAt(x, t, stack', inner', buf', buf_pos', num_leaf')
        /\ ret' \in {"ready", "running", "leaf", "done"}
        /\ UNCHANGED <<hidden, hidden_nodes, signer, build>> /\ UNCHANGED <<size, path_idx>>
    BY <1>3, <2>1
  <2> QED
    BY <1>1, <2>2, IteratorStep
<1> QED
  BY <1>1, <1>2, <1>3

\* Steps of the plain iterators, also those that a bulk expansion makes.
LEMMA PlainSteps ==
  ASSUME SignerInv, VerifierInv, ~batch, UNCHANGED build, UNCHANGED engine,
         \/ SignerIteratorInit \/ VerifierInit \/ Call \/ PlainProgress \/ RoundFails
  PROVE  VerifierInv' /\ UNCHANGED <<hidden, hidden_nodes, signer>>
<1>1. CASE SignerIteratorInit
  BY <1>1, PlainStart DEF SignerIteratorInit
<1>2. CASE VerifierInit
  BY <1>2, PlainStart DEF VerifierInit
<1>3. CASE Call
  BY <1>3, CallKeeps DEF Call
<1>4. CASE DescendNode
  BY <1>4, PlainDescends DEF DescendNode
<1>5. CASE ReturnLeaf
  BY <1>5, PlainReturns DEF ReturnLeaf
<1>6. CASE Exhausted
  BY <1>6, PlainEnds DEF Exhausted
<1>7. CASE RoundFails
  BY <1>7, PlainFails DEF RoundFails
<1> QED
  BY <1>1, <1>2, <1>3, <1>4, <1>5, <1>6, <1>7 DEF PlainProgress

\* Steps of the pair iterators.
LEMMA PairSteps ==
  ASSUME SignerInv, VerifierInv,
         \/ PairSignerInit \/ PairVerifierInit \/ PairCall \/ PairProgress
         \/ EngineFails \/ OuterFails
  PROVE  VerifierInv' /\ UNCHANGED <<hidden, hidden_nodes, signer>>
<1>1. CASE PairSignerInit
  BY <1>1, PairSignerStarts DEF PairSignerInit
<1>2. CASE PairVerifierInit
  BY <1>2, PairVerifierStarts DEF PairVerifierInit, VerifierInit
<1>3. CASE PairCall
  <2>1. Call /\ UNCHANGED build /\ UNCHANGED engine
    BY <1>3 DEF PairCall, bulk
  <2> QED
    BY <2>1, CallKeeps DEF Call
<1>4. CASE FromBuffer
  BY <1>4, BufferReturns DEF FromBuffer, OuterIdle, Fixed
<1>5. CASE EngineLeaves
  BY <1>5, EngineReturns DEF EngineLeaves, OuterIdle, Fixed
<1>6. CASE EngineDerives
  BY <1>6, EngineDescends DEF EngineDerives, OuterIdle, Fixed
<1>7. CASE OuterLeaf
  BY <1>7, OuterReturns DEF OuterLeaf, Fixed
<1>8. CASE OuterKnown
  BY <1>8, OuterHands DEF OuterKnown, Fixed
<1>9. CASE OuterUnknown
  BY <1>9, OuterDescends DEF OuterUnknown, Fixed
<1>10. CASE PairExhausted
  BY <1>10, PairEnds DEF PairExhausted, OuterIdle, Fixed
<1>11. CASE EngineFails
  BY <1>11, EngineStops DEF EngineFails, OuterIdle, Fixed
<1>12. CASE OuterFails
  BY <1>12, OuterStops DEF OuterFails, Fixed
<1> QED
  BY <1>1, <1>2, <1>3, <1>4, <1>5, <1>6, <1>7, <1>8, <1>9, <1>10, <1>11, <1>12
     DEF PairProgress

\* The leaves that have been written, when nothing or one more is.
LEMMA BulkKept ==
  ASSUME BulkInv, UNCHANGED <<hidden, bulk>>, UNCHANGED num_leaf \/ build # "bulk"
  PROVE  BulkInv'
BY DEF BulkInv, bulk

\* A bulk expansion writes each leaf at its number.
LEMMA BulkWrites ==
  ASSUME SignerInv, VerifierInv, BulkInv, BulkLeaf
  PROVE  BulkInv'
<1>1. /\ build = "bulk" /\ ReturnLeaf /\ UNCHANGED build /\ UNCHANGED engine
      /\ lseed' = [lseed EXCEPT ![StoredAt(VTop.k)] = lseed_out']
  BY DEF BulkLeaf
<1>2. /\ num_leaf \in Leaves /\ FromLeafPosition(VTop.k) = num_leaf
      /\ lseed_out' = IF num_leaf \in hidden THEN ZeroSeed ELSE LeafPosition(num_leaf)
  BY <1>1, PlainReturns DEF batch
<1>3. hidden' = hidden /\ num_leaf' = num_leaf + 1
  BY <1>1 DEF ReturnLeaf
<1>4. lseed' = [lseed EXCEPT ![num_leaf] = lseed_out']
  BY <1>1, <1>2 DEF StoredAt
<1>5. lseed_out' \in Int
  <2>1. LeafPosition(num_leaf) \in Nodes
    BY <1>2, Positions
  <2> QED
    BY <1>2, <2>1, NodesSmall DEF ZeroSeed
<1>6. lseed' \in [Leaves -> Int]
  BY <1>2, <1>4, <1>5 DEF BulkInv
<1>7. ASSUME NEW i \in Leaves, i < num_leaf'
      PROVE  lseed'[i] = IF i \in hidden THEN ZeroSeed ELSE LeafPosition(i)
  <2>1. CASE i = num_leaf
    BY <1>2, <1>4, <2>1 DEF BulkInv
  <2>2. CASE i # num_leaf
    <3>1. i < num_leaf
      BY <1>2, <1>3, <1>7, <2>2 DEF Leaves
    <3> QED
      BY <1>1, <1>4, <2>2, <3>1 DEF BulkInv
  <2> QED
    BY <2>1, <2>2
<1> QED
  BY <1>3, <1>6, <1>7 DEF BulkInv

\* The inductive invariant.
GGMInv == SignerInv /\ VerifierInv /\ BulkInv

\* Initially.
LEMMA GGMInit == PairInit => GGMInv
<1> SUFFICES ASSUME PairInit PROVE GGMInv
  OBVIOUS
<1>1. Init /\ build \in {"plain", "batch", "bulk"} /\ lseed = [i \in Leaves |-> Junk]
      /\ inner = <<>> /\ buf = <<>> /\ buf_pos = 0
  BY DEF PairInit
<1>2. stack = <<>> /\ size = 0 /\ path_idx = 0 /\ num_leaf = 0 /\ ret = "none"
  BY <1>1 DEF Init
<1>3. SignerInv
  BY <1>1, SignerInit
<1>4. Len(<<>>) = 0 /\ 1..0 = {} /\ 1 .. 0 - 1 = {} /\ <<>> \in Seq(PairRecord)
  OBVIOUS
<1>5. FramesFit(stack) /\ PairsOf(inner) /\ HeldLeaf(buf, buf_pos)
  BY <1>1, <1>2, <1>4, Sizes DEF FramesFit, PairsOf, HeldLeaf
<1>6. VerifierInv
  BY <1>1, <1>2, <1>5, Sizes DEF VerifierInv
<1>7. BulkInv
  <2>1. \A i \in Leaves : ~(i < num_leaf)
    BY <1>2 DEF Leaves
  <2> QED
    BY <1>1, <2>1 DEF BulkInv, Junk
<1> QED
  BY <1>3, <1>6, <1>7 DEF GGMInv

\* Every step keeps it.
LEMMA GGMNext == GGMInv /\ [Next]_vars => GGMInv'
<1> SUFFICES ASSUME GGMInv, [Next]_vars PROVE GGMInv'
  OBVIOUS
<1>1. SignerInv /\ VerifierInv /\ BulkInv
  BY DEF GGMInv
<1>2. CASE Signer
  <2>1. (SignerProgress \/ SignerFails) /\ UNCHANGED <<bulk, engine>>
    BY <1>2 DEF Signer
  <2>2. SignerInv' /\ VerifierInv'
    BY <1>1, <2>1, SignerNext, VerifierKept
  <2>3. UNCHANGED <<hidden, bulk>> /\ UNCHANGED num_leaf
    BY <2>1 DEF SignerProgress, SignerFails, SignerReveals, SignerExpands, SignerKeepsHidden,
                SignerEnds, verifier
  <2>4. BulkInv'
    BY <1>1, <2>3, BulkKept
  <2> QED
    BY <2>2, <2>4 DEF GGMInv
<1>3. CASE Plain
  <2>1. /\ ~batch /\ build # "bulk" /\ UNCHANGED build /\ UNCHANGED engine /\ UNCHANGED bulk
        /\ \/ SignerIteratorInit \/ VerifierInit \/ Call \/ PlainProgress \/ RoundFails
    BY <1>3 DEF Plain, batch, bulk
  <2>2. VerifierInv' /\ UNCHANGED <<hidden, hidden_nodes, signer>>
    BY <1>1, <2>1, PlainSteps
  <2> QED
    BY <1>1, <2>1, <2>2, SignerKept, BulkKept DEF GGMInv
<1>4. CASE \/ PairSignerInit \/ PairVerifierInit \/ PairCall \/ PairProgress
           \/ EngineFails \/ OuterFails
  <2>1. VerifierInv' /\ UNCHANGED <<hidden, hidden_nodes, signer>>
    BY <1>1, <1>4, PairSteps
  <2>2. batch /\ UNCHANGED bulk
    BY <1>4 DEF PairSignerInit, PairVerifierInit, PairCall, PairProgress, EngineFails, OuterFails,
                FromBuffer, EngineLeaves, EngineDerives, OuterLeaf, OuterKnown, OuterUnknown,
                PairExhausted, OuterIdle, Fixed, InEngine, InOuter
  <2>3. build # "bulk"
    BY <2>2 DEF batch
  <2> QED
    BY <1>1, <2>1, <2>2, <2>3, SignerKept, BulkKept DEF GGMInv
<1>5. CASE BulkInit
  <2>1. /\ ~batch /\ UNCHANGED build /\ UNCHANGED engine
        /\ (SignerIteratorInit \/ VerifierInit)
        /\ lseed' = [i \in Leaves |-> Junk]
    BY <1>5 DEF BulkInit, batch
  <2>2. VerifierInv' /\ UNCHANGED <<hidden, hidden_nodes, signer>>
    BY <1>1, <2>1, PlainSteps
  <2>3. BulkInv'
    <3>1. num_leaf' = 0
      BY <2>1 DEF SignerIteratorInit, VerifierInit
    <3>2. \A i \in Leaves : ~(i < num_leaf')
      BY <3>1 DEF Leaves
    <3> QED
      BY <2>1, <3>2 DEF BulkInv, Junk
  <2> QED
    BY <1>1, <2>2, <2>3, SignerKept DEF GGMInv
<1>6. CASE BulkLeaf
  <2>1. /\ ~batch /\ UNCHANGED build /\ UNCHANGED engine /\ PlainProgress
    BY <1>6 DEF BulkLeaf, batch, PlainProgress
  <2>2. VerifierInv' /\ UNCHANGED <<hidden, hidden_nodes, signer>>
    BY <1>1, <2>1, PlainSteps
  <2> QED
    BY <1>1, <1>6, <2>2, SignerKept, BulkWrites DEF GGMInv
<1>7. CASE BulkCall \/ BulkRound \/ BulkFails
  <2>1. /\ ~batch /\ UNCHANGED build /\ UNCHANGED engine /\ UNCHANGED bulk
        /\ Call \/ PlainProgress \/ RoundFails
    BY <1>7 DEF BulkCall, BulkRound, BulkFails, batch, PlainProgress, bulk
  <2>2. VerifierInv' /\ UNCHANGED <<hidden, hidden_nodes, signer>>
    BY <1>1, <2>1, PlainSteps
  <2>3. UNCHANGED num_leaf
    BY <1>7 DEF BulkCall, BulkRound, BulkFails, Call, DescendNode, Exhausted, RoundFails
  <2> QED
    BY <1>1, <2>1, <2>2, <2>3, SignerKept, BulkKept DEF GGMInv
<1>8. CASE UNCHANGED vars
  <2>1. /\ UNCHANGED <<hidden, hidden_nodes, signer>> /\ UNCHANGED <<hidden, bulk>>
        /\ UNCHANGED num_leaf
        /\ hidden' = hidden /\ hidden_nodes' = hidden_nodes /\ s_ret' = s_ret /\ path' = path
        /\ stack' = stack /\ size' = size /\ path_idx' = path_idx /\ ret' = ret
        /\ build' = build /\ inner' = inner /\ buf' = buf /\ buf_pos' = buf_pos
    BY <1>8 DEF vars, opening, verifier, signer, bulk, engine
  <2>2. VerifierInv'
    BY <1>1, <2>1, VerifierStays
  <2> QED
    BY <1>1, <2>1, <2>2, SignerKept, BulkKept DEF GGMInv
<1> QED
  BY <1>2, <1>3, <1>4, <1>5, <1>6, <1>7, <1>8 DEF Next

\* The signer and every iterator, in every build, keep the invariant.
THEOREM GGMInvariant == Spec => []GGMInv
<1> QED
  BY GGMInit, GGMNext, PTL DEF Spec

-----------------------------------------------------------------------------
(***************************************************************************)
(* What the invariant says of the opening.                                 *)
(***************************************************************************)

\* Every index is in range.
LEMMA GGMTypes == GGMInv => TypeOK
<1> SUFFICES ASSUME GGMInv PROVE TypeOK
  OBVIOUS
<1>1. /\ HiddenInv /\ s_ret \in {"none", "running", "ok", "error"}
      /\ s_size \in Int /\ Len(s_stack) <= H + 1
      /\ \A j \in 1..Len(s_stack) : s_stack[j].k \in Nodes
      /\ path \in Seq(Nodes \ hidden_nodes) /\ Len(path) <= T_OPEN
      /\ hidden_lseeds \in [0..TAU-1 -> Seeds]
  BY DEF GGMInv, SignerInv
<1>2. /\ ret \in {"none", "ready", "running", "leaf", "done", "error"}
      /\ size \in Int /\ path_idx \in 0..T_OPEN /\ num_leaf \in 0..M
      /\ Len(stack) <= H + 1 /\ \A j \in 1..Len(stack) : stack[j].k \in Nodes
  BY DEF GGMInv, VerifierInv, FramesFit
<1>3. hidden \subseteq Leaves /\ hidden_nodes \subseteq Nodes
  BY <1>1, HiddenPaths DEF PathNodes
<1>4. path \in Seq(Seeds)
  <2>1. Nodes \ hidden_nodes \subseteq Seeds
    BY DEF Seeds
  <2> QED
    BY <1>1, <2>1
<1> QED
  BY <1>1, <1>2, <1>3, <1>4 DEF TypeOK, StacksFit

\* What is revealed fits what is left of the path, and the path is used up.
LEMMA GGMBudget == GGMInv => BudgetExact
<1> SUFFICES ASSUME GGMInv PROVE BudgetExact
  OBVIOUS
<1>1. SignerInv /\ VerifierInv
  BY DEF GGMInv
<1>2. ASSUME s_ret = "running"
      PROVE  /\ s_stack # <<>> /\ Reveals(SignerTop.k, s_size) => Len(path) < T_OPEN
             /\ s_stack = <<>> => Len(path) = T_OPEN /\ s_size = T_OPEN
  <2>1. PICK w, n : /\ IsWalk(hidden_nodes, w, n) /\ \A i \in 0..n : WalkOK(hidden_nodes, w[i])
                    /\ n \in Nat /\ SignerAt(w[n])
    BY <1>1, <1>2, SignerWalks
  <2>2. hidden \in OpeningSets /\ hidden \subseteq Leaves /\ PathNodes(hidden, hidden_nodes)
    BY <1>1, <1>2, SignerWalks
  <2> DEFINE acc == w[n]
  <2>3. WalkOK(hidden_nodes, acc) /\ SignerAt(acc)
    <3>1. n \in 0..n
      BY <2>1
    <3> QED
      BY <2>1, <3>1
  <2> HIDE DEF acc
  <2>4. acc.stack \in Seq(Nodes)
    BY <2>3, WalkFrames
  <2>5. s_stack = FramesOf(acc.stack, 0) /\ s_size = acc.size /\ path = acc.nodes
    BY <2>3 DEF SignerAt
  <2>6. /\ s_stack = <<>> <=> acc.stack = <<>>
        /\ acc.stack # <<>> => SignerTop.k = Last(acc.stack)
    BY <2>4, <2>5, FramesTop DEF SignerTop
  <2>7. ASSUME s_stack # <<>>, Reveals(SignerTop.k, s_size) PROVE Len(path) < T_OPEN
    <3>1. acc.stack # <<>> /\ Last(acc.stack) \notin hidden_nodes
      BY <2>6, <2>7 DEF Reveals, Revealed
    <3> QED
      BY <2>2, <2>3, <2>5, <3>1, RevealedFits
  <2>8. s_stack = <<>> => Len(path) = T_OPEN /\ s_size = T_OPEN
    BY <2>2, <2>3, <2>5, <2>6, WalkEnds
  <2> QED
    BY <2>7, <2>8
<1>3. ASSUME InCall PROVE PathInBounds
  <2>1. CASE ~batch
    BY <1>1, <1>3, <2>1, PlainRound
  <2>2. CASE batch
    <3>1. ret = "running" /\ stack # <<>>
      BY <1>3 DEF InCall
    <3>2. PICK t : /\ WalkAt(t, size, path_idx) /\ StackOf(stack, t, t)
                   /\ t \in Seq(Nodes) /\ (stack = <<>> <=> t = <<>>)
      BY <1>1, <2>2, <3>1, PairAt
    <3>3. PICK k : k = Last(t)
      OBVIOUS
    <3>4. VTop.k = k
      BY <3>1, <3>2, <3>3, StackTop DEF VTop
    <3>5. Revealed(hidden_nodes, k, size) => path_idx < T_OPEN
      BY <1>1, <3>1, <3>2, <3>3, FollowWalk
    <3> QED
      BY <3>4, <3>5 DEF PathInBounds, ReadsPath, Reveals
  <2> QED
    BY <2>1, <2>2
<1>4. ret = "done" => num_leaf = M /\ (hidden # {} => path_idx = T_OPEN)
  BY <1>1 DEF VerifierInv
<1> QED
  BY <1>2, <1>3, <1>4 DEF BudgetExact

\* No ancestor of a hidden leaf is revealed, and its seed is where it belongs.
LEMMA GGMHidden == GGMInv => HiddenLeavesKept
<1> SUFFICES ASSUME GGMInv PROVE HiddenLeavesKept
  OBVIOUS
<1>1. SignerInv /\ HiddenInv /\ path \in Seq(Nodes \ hidden_nodes)
  BY DEF GGMInv, SignerInv
<1>2. NothingHiddenRevealed
  <2> SUFFICES ASSUME NEW j \in 1..Len(path), NEW i \in hidden
               PROVE  path[j] \notin Ancestors(LeafPosition(i))
    BY DEF NothingHiddenRevealed
  <2>1. path[j] \notin hidden_nodes
    BY <1>1
  <2>2. \A g : Under(LeafPosition(i), g) => g \in hidden_nodes
    BY <1>1, HiddenPaths DEF PathNodes
  <2> QED
    BY <2>1, <2>2 DEF Under
<1>3. HiddenSeedsPlaced
  <2> SUFFICES ASSUME s_ret = "ok", NEW e \in 0..TAU-1
               PROVE  \E i \in hidden : i % TAU = e /\ hidden_lseeds[e] = LeafPosition(i)
    BY DEF HiddenSeedsPlaced
  <2>1. PICK w, n : /\ \A i \in 0..n : WalkOK(hidden_nodes, w[i])
                    /\ n \in Nat /\ SignerAt(w[n]) /\ Placed(w[n].stack)
    BY <1>1, SignerWalks
  <2>2. hidden \in OpeningSets
    BY <1>1, SignerWalks
  <2> DEFINE acc == w[n]
  <2>3. WalkOK(hidden_nodes, acc) /\ SignerAt(acc) /\ Placed(acc.stack)
    <3>1. n \in 0..n
      BY <2>1
    <3> QED
      BY <2>1, <3>1
  <2> HIDE DEF acc
  <2>4. acc.stack \in Seq(Nodes) /\ s_stack = FramesOf(acc.stack, 0) /\ s_stack = <<>>
    BY <1>1, <2>3, WalkFrames DEF SignerAt, SignerInv
  <2>5. acc.stack = <<>>
    BY <2>4, FramesTop
  <2>6. \A i \in hidden : hidden_lseeds[i % TAU] = LeafPosition(i)
    BY <2>3, <2>5 DEF Placed, Covered
  <2>7. PICK i \in hidden : i % TAU = e
    BY <2>2, OpeningSetFacts
  <2> QED
    BY <2>6, <2>7
<1> QED
  BY <1>2, <1>3 DEF HiddenLeavesKept

\* What the stacks, the buffer and the path hold between rounds.
LEMMA GGMEngine == GGMInv => EngineInvariant
<1> SUFFICES ASSUME GGMInv PROVE EngineInvariant
  OBVIOUS
<1>1. /\ SignerInv /\ VerifierInv /\ PairsOf(inner) /\ HeldLeaf(buf, buf_pos) /\ FramesFit(stack)
      /\ ret = "done" /\ hidden # {} => path_idx = T_OPEN
  BY DEF GGMInv, VerifierInv
<1>2. /\ Len(inner) <= H /\ \A i \in 1..Len(inner) : IsPair(inner[i])
  BY <1>1 DEF PairsOf
<1>3. EngineTypeOK
  <2>1. \A i \in 1..Len(inner) : {inner[i].kA, inner[i].kB} \subseteq Nodes
    BY <1>2 DEF IsPair, PairRecord
  <2>2. Len(buf) \in {0, 2} /\ buf_pos \in 0..2
    BY <1>1 DEF HeldLeaf
  <2>3. \A l \in {0, 2} : l <= 2
    OBVIOUS
  <2> QED
    BY <1>2, <2>1, <2>2, <2>3 DEF EngineTypeOK
<1>4. PairsTogether
  <2> SUFFICES ASSUME NEW i \in 1..Len(inner)
               PROVE  /\ inner[i].kB = inner[i].kA + 1 /\ inner[i].kA % 2 = 0
                      /\ inner[i].seedA = inner[i].kA /\ inner[i].seedB = inner[i].kB
                      /\ IsLeaf(inner[i].kA) <=> IsLeaf(inner[i].kB)
                      /\ {inner[i].kA, inner[i].kB} \cap hidden_nodes = {}
    BY DEF PairsTogether
  <2>1. IsPair(inner[i])
    BY <1>2
  <2>2. IsLeaf(inner[i].kA) <=> IsLeaf(inner[i].kB)
    BY <2>1, PairLevel
  <2> QED
    BY <2>1, <2>2 DEF IsPair
<1>5. PathUsedUp
  <2>1. batch => \A i \in 1..Len(stack) : stack[i].seed = Unknown
    BY <1>1 DEF FramesFit
  <2>2. InOuter /\ Reveals(Node, size) => path_idx < T_OPEN
    BY <1>1, OuterAt
  <2> QED
    BY <1>1, <2>1, <2>2 DEF PathUsedUp, IsSigner
<1> QED
  BY <1>3, <1>4, <1>5 DEF EngineInvariant

-----------------------------------------------------------------------------
(***************************************************************************)
(* The kept tree, and the expansions in one call.                          *)
(***************************************************************************)

\* The children of node k written to the tree.
StoreChildren(node, k) ==
  LET left == LeftSeed(k, node[k])
  IN  [node EXCEPT ![2 * k] = left, ![2 * k + 1] = XorBlocks(left, node[k])]

RootOnly == [n \in Nodes |-> IF n = 1 THEN 1 ELSE Junk]

\* The tree after each of n nodes, as a function with the equation of expanded.
IsExpanded(f, n) ==
  f = [k \in 0..n |-> IF k = 0 THEN RootOnly ELSE StoreChildren(f[k - 1], k)]

\* There are such functions.
LEMMA ExpandedExist == \E f : IsExpanded(f, M - 1)
<1> DEFINE Bad == {n \in Nat : ~ \E f : IsExpanded(f, n)}
<1>1. ASSUME Bad # {} PROVE FALSE
  <2>1. Bad \subseteq Nat
    OBVIOUS
  <2> HIDE DEF Bad
  <2>2. PICK n \in Bad : \A m \in Bad : n <= m
    BY <1>1, <2>1, Smallest
  <2>3. n \in Nat /\ ~ \E f : IsExpanded(f, n)
    BY <2>2 DEF Bad
  <2>4. CASE n = 0
    <3> DEFINE g == [k \in 0..0 |-> RootOnly]
    <3>1. IsExpanded(g, 0)
      BY DEF IsExpanded
    <3> QED
      BY <2>3, <2>4, <3>1
  <2>5. CASE n # 0
    <3>1. n - 1 \in Nat /\ n - 1 \notin Bad
      BY <2>2, <2>3, <2>5
    <3>2. PICK f : IsExpanded(f, n - 1)
      BY <3>1 DEF Bad
    <3>3. \A k \in 0..(n-1) : f[k] = IF k = 0 THEN RootOnly ELSE StoreChildren(f[k - 1], k)
      BY <3>2 DEF IsExpanded
    <3> DEFINE g == [k \in 0..n |-> IF k = n THEN StoreChildren(f[n - 1], n) ELSE f[k]]
    <3>4. ASSUME NEW k \in 0..n PROVE g[k] = IF k = 0 THEN RootOnly ELSE StoreChildren(g[k - 1], k)
      <4>1. CASE k = n
        <5>1. g[n - 1] = f[n - 1]
          BY <2>3, <2>5
        <5> QED
          BY <2>5, <4>1, <5>1
      <4>2. CASE k # n
        <5>1. k \in 0..(n - 1) /\ (k # 0 => k - 1 \in 0..n /\ k - 1 # n)
          BY <2>3, <4>2
        <5> QED
          BY <3>3, <4>2, <5>1
      <4> QED
        BY <4>1, <4>2
    <3>5. g = [k \in 0..n |-> IF k = 0 THEN RootOnly ELSE StoreChildren(g[k - 1], k)]
      BY <3>4
    <3>6. IsExpanded(g, n)
      BY <3>5 DEF IsExpanded
    <3> QED
      BY <2>3, <3>6
  <2> QED
    BY <2>4, <2>5
<1> HIDE DEF Bad
<1>2. M - 1 \in Nat
  BY Sizes
<1>3. M - 1 \notin Bad
  BY <1>1
<1> QED
  BY <1>2, <1>3 DEF Bad

\* The nodes whose parents have been visited have their seeds.
SeedsUpTo(node, k) ==
  /\ node \in [Nodes -> Int]
  /\ \A n \in Nodes : n = 1 \/ n \div 2 <= k => node[n] = n

\* One node more.
LEMMA StoreChildrenKeeps ==
  ASSUME NEW node, NEW k \in 1..M-1, SeedsUpTo(node, k - 1)
  PROVE  SeedsUpTo(StoreChildren(node, k), k)
<1>1. /\ k \in Nat \ {0} /\ k \in Nodes /\ ~IsLeaf(k)
      /\ 2 * k \in Nodes /\ 2 * k + 1 \in Nodes /\ k \div 2 <= k - 1
  BY Sizes DEF Nodes, IsLeaf
<1>2. node \in [Nodes -> Int] /\ \A n \in Nodes : n = 1 \/ n \div 2 <= k - 1 => node[n] = n
  BY DEF SeedsUpTo
<1>3. node[k] = k
  BY <1>1, <1>2
<1> DEFINE new == [node EXCEPT ![2 * k] = 2 * k, ![2 * k + 1] = 2 * k + 1]
<1>4. StoreChildren(node, k) = new
  BY <1>1, <1>3, SeedFacts DEF StoreChildren
<1>5. new \in [Nodes -> Int]
  BY <1>1, <1>2
<1>6. ASSUME NEW n \in Nodes, n = 1 \/ n \div 2 <= k PROVE new[n] = n
  <2>1. n \in Nat \ {0}
    BY NodesSmall
  <2>2. CASE n = 2 * k + 1
    BY <1>1, <1>2, <2>2
  <2>3. CASE n = 2 * k
    BY <1>1, <1>2, <2>3
  <2>4. CASE n # 2 * k /\ n # 2 * k + 1
    <3>1. n = 1 \/ n \div 2 <= k - 1
      BY <1>1, <1>6, <2>1, <2>4
    <3>2. new[n] = node[n]
      BY <1>2, <2>4
    <3> QED
      BY <1>2, <3>1, <3>2
  <2> QED
    BY <2>2, <2>3, <2>4
<1> HIDE DEF new
<1>7. SeedsUpTo(new, k)
  BY <1>5, <1>6 DEF SeedsUpTo
<1> QED
  BY <1>4, <1>7

\* The kept tree has every node's own seed.
LEMMA TreeExpanded == \A n \in Nodes : ExpandedTree[n] = n
<1>0. M \in Nat \ {0}
  BY Sizes
<1> DEFINE f == CHOOSE g : IsExpanded(g, M - 1)
<1>1. IsExpanded(f, M - 1)
  BY ExpandedExist
<1>2. ExpandedTree = f[M - 1]
  BY DEF ExpandedTree, IsExpanded, StoreChildren, RootOnly
<1> HIDE DEF f
<1>3. \A k \in 0..M-1 : f[k] = IF k = 0 THEN RootOnly ELSE StoreChildren(f[k - 1], k)
  BY <1>1 DEF IsExpanded
<1>4. SeedsUpTo(RootOnly, 0)
  <2>1. \A n \in Nodes : n \in Nat \ {0} /\ (n \div 2 <= 0 => n = 1)
    BY NodesSmall
  <2> QED
    BY <2>1 DEF SeedsUpTo, RootOnly, Junk
<1> DEFINE Bad == {k \in 0..M-1 : ~SeedsUpTo(f[k], k)}
<1>5. ASSUME Bad # {} PROVE FALSE
  <2>1. Bad \subseteq Nat
    BY <1>0
  <2> HIDE DEF Bad
  <2>2. PICK k \in Bad : \A m \in Bad : k <= m
    BY <1>5, <2>1, Smallest
  <2>3. k \in 0..M-1 /\ ~SeedsUpTo(f[k], k)
    BY <2>2 DEF Bad
  <2>4. k # 0
    BY <1>3, <1>4, <2>3
  <2>5. k \in 1..M-1 /\ k - 1 \in 0..M-1 /\ k - 1 \notin Bad
    BY <1>0, <2>2, <2>3, <2>4
  <2>6. SeedsUpTo(f[k - 1], k - 1)
    BY <2>5 DEF Bad
  <2>7. f[k] = StoreChildren(f[k - 1], k)
    BY <1>3, <2>3, <2>4
  <2> QED
    BY <2>3, <2>5, <2>6, <2>7, StoreChildrenKeeps
<1>6. M - 1 \in 0..M-1 /\ M - 1 \notin Bad
  BY <1>0, <1>5
<1>7. SeedsUpTo(f[M - 1], M - 1)
  BY <1>6
<1>8. \A n \in Nodes : n \div 2 <= M - 1
  BY <1>0 DEF Nodes
<1> QED
  BY <1>2, <1>7, <1>8 DEF SeedsUpTo

\* What a bulk expansion has written when it ends.
LEMMA GGMBulk == GGMInv => BulkExact
<1> SUFFICES ASSUME GGMInv, build = "bulk", num_leaf = M
             PROVE  lseed = [i \in Leaves |-> IF i \in hidden THEN ZeroSeed ELSE ExpandedLeaves[i]]
  BY DEF BulkExact
<1>1. BulkInv
  BY DEF GGMInv
<1>2. lseed \in [Leaves -> Int]
  BY <1>1 DEF BulkInv
<1>3. ASSUME NEW i \in Leaves
      PROVE  lseed[i] = IF i \in hidden THEN ZeroSeed ELSE ExpandedLeaves[i]
  <2>1. i < num_leaf
    BY Sizes DEF Leaves
  <2>2. lseed[i] = IF i \in hidden THEN ZeroSeed ELSE LeafPosition(i)
    BY <1>1, <2>1 DEF BulkInv
  <2>3. LeafPosition(i) \in Nodes
    BY Positions
  <2>4. ExpandedLeaves[i] = LeafPosition(i)
    BY <2>3, TreeExpanded DEF ExpandedLeaves
  <2> QED
    BY <2>2, <2>4
<1> QED
  BY <1>2, <1>3

-----------------------------------------------------------------------------
(***************************************************************************)
(* The iterators implement the stream of leaves.                           *)
(***************************************************************************)

\* A leaf is returned.
LEMMA StreamLeaf ==
  ASSUME hidden' = hidden, ret = "running", ret' = "leaf",
         num_leaf \in Leaves, num_leaf' = num_leaf + 1,
         lseed_out' = IF num_leaf \in hidden THEN ZeroSeed ELSE LeafPosition(num_leaf)
  PROVE  Stream!Next
<1>1. Stream!Leaf
  BY DEF Stream!Leaf
<1> QED
  BY <1>1 DEF Stream!Next

\* There are no more.
LEMMA StreamDone ==
  ASSUME hidden' = hidden, ret = "running", ret' = "done",
         num_leaf = M, num_leaf' = num_leaf, lseed_out' = lseed_out
  PROVE  Stream!Next
<1>1. num_leaf \notin Leaves
  BY Sizes DEF Leaves
<1>2. Stream!Done
  BY <1>1 DEF Stream!Done
<1> QED
  BY <1>2 DEF Stream!Next

\* A call fails.
LEMMA StreamFail ==
  ASSUME hidden' = hidden, ret = "running", ret' = "error"
  PROVE  Stream!Next
<1>1. Stream!Fail
  BY DEF Stream!Fail
<1> QED
  BY <1>1 DEF Stream!Next

\* A call starts.
LEMMA StreamCall == ASSUME Call PROVE Stream!Next
<1>1. Stream!Call
  BY DEF Stream!Call, Call
<1> QED
  BY <1>1 DEF Stream!Next

\* The iterator is initialised again.
LEMMA StreamRestart ==
  ASSUME hidden' = hidden, ret \notin {"running", "ready"}, num_leaf' = 0,
         ret' \in {"ready", "error"}
  PROVE  Stream!Next
<1>1. Stream!Restart
  BY DEF Stream!Restart
<1> QED
  BY <1>1 DEF Stream!Next

\* A round within a call shows nothing.
LEMMA StreamStutter ==
  ASSUME hidden' = hidden, ret' = ret, num_leaf' = num_leaf, lseed_out' = lseed_out
  PROVE  UNCHANGED Stream!vars
BY DEF Stream!vars

\* Steps of the plain iterators.
LEMMA PlainStream ==
  ASSUME SignerInv, VerifierInv, ~batch, UNCHANGED build, UNCHANGED engine,
         \/ SignerIteratorInit \/ VerifierInit \/ Call \/ PlainProgress \/ RoundFails
  PROVE  [Stream!Next]_(Stream!vars)
<1>1. CASE SignerIteratorInit \/ VerifierInit
  BY <1>1, StreamRestart DEF SignerIteratorInit, VerifierInit
<1>2. CASE Call
  BY <1>2, StreamCall
<1>3. CASE DescendNode
  BY <1>3, StreamStutter DEF DescendNode
<1>4. CASE ReturnLeaf
  <2>1. /\ num_leaf \in Leaves
        /\ lseed_out' = IF num_leaf \in hidden THEN ZeroSeed ELSE LeafPosition(num_leaf)
    BY <1>4, PlainReturns
  <2> QED
    BY <1>4, <2>1, StreamLeaf DEF ReturnLeaf, InCall
<1>5. CASE Exhausted
  <2>1. VerifierInv'
    BY <1>5, PlainEnds
  <2>2. num_leaf' = num_leaf /\ ret' = "done" /\ ret = "running"
    BY <1>5 DEF Exhausted
  <2>3. num_leaf = M
    BY <2>1, <2>2 DEF VerifierInv
  <2> QED
    BY <1>5, <2>3, StreamDone DEF Exhausted
<1>6. CASE RoundFails
  BY <1>6, StreamFail DEF RoundFails, InCall
<1> QED
  BY <1>1, <1>2, <1>3, <1>4, <1>5, <1>6 DEF PlainProgress

\* Steps of the pair iterators.
LEMMA PairStream ==
  ASSUME SignerInv, VerifierInv,
         \/ PairSignerInit \/ PairVerifierInit \/ PairCall \/ PairProgress
         \/ EngineFails \/ OuterFails
  PROVE  [Stream!Next]_(Stream!vars)
<1>1. CASE PairSignerInit \/ PairVerifierInit
  BY <1>1, StreamRestart DEF PairSignerInit, PairVerifierInit, VerifierInit
<1>2. CASE PairCall
  BY <1>2, StreamCall DEF PairCall
<1>3. CASE FromBuffer
  <2>1. /\ num_leaf \in Leaves
        /\ lseed_out' = IF num_leaf \in hidden THEN ZeroSeed ELSE LeafPosition(num_leaf)
    BY <1>3, BufferReturns
  <2> QED
    BY <1>3, <2>1, StreamLeaf DEF FromBuffer, OuterIdle, Fixed
<1>4. CASE EngineLeaves
  <2>1. /\ num_leaf \in Leaves
        /\ lseed_out' = IF num_leaf \in hidden THEN ZeroSeed ELSE LeafPosition(num_leaf)
    BY <1>4, EngineReturns
  <2> QED
    BY <1>4, <2>1, StreamLeaf DEF EngineLeaves, InEngine, OuterIdle, Fixed
<1>5. CASE OuterLeaf
  <2>1. /\ num_leaf \in Leaves
        /\ lseed_out' = IF num_leaf \in hidden THEN ZeroSeed ELSE LeafPosition(num_leaf)
    BY <1>5, OuterReturns
  <2> QED
    BY <1>5, <2>1, StreamLeaf DEF OuterLeaf, InOuter, Fixed
<1>6. CASE EngineDerives \/ OuterKnown \/ OuterUnknown
  BY <1>6, StreamStutter DEF EngineDerives, OuterKnown, OuterUnknown, OuterIdle, Fixed
<1>7. CASE PairExhausted
  <2>1. VerifierInv'
    BY <1>7, PairEnds
  <2>2. num_leaf' = num_leaf /\ ret' = "done" /\ ret = "running"
    BY <1>7 DEF PairExhausted
  <2>3. num_leaf = M
    BY <2>1, <2>2 DEF VerifierInv
  <2> QED
    BY <1>7, <2>3, StreamDone DEF PairExhausted, OuterIdle, Fixed
<1>8. CASE EngineFails \/ OuterFails
  BY <1>8, StreamFail DEF EngineFails, OuterFails, InEngine, InOuter, OuterIdle, Fixed
<1> QED
  BY <1>1, <1>2, <1>3, <1>4, <1>5, <1>6, <1>7, <1>8 DEF PairProgress

\* Every step is one of the stream, or shows nothing.
LEMMA StreamStep == GGMInv /\ [Next]_vars => [Stream!Next]_(Stream!vars)
<1> SUFFICES ASSUME GGMInv, [Next]_vars PROVE [Stream!Next]_(Stream!vars)
  OBVIOUS
<1>1. SignerInv /\ VerifierInv
  BY DEF GGMInv
<1>2. CASE Signer
  BY <1>2, StreamStutter DEF Signer, SignerProgress, SignerFails, SignerReveals, SignerExpands,
                             SignerKeepsHidden, SignerEnds, verifier
<1>3. CASE Plain
  <2>1. /\ ~batch /\ UNCHANGED build /\ UNCHANGED engine
        /\ \/ SignerIteratorInit \/ VerifierInit \/ Call \/ PlainProgress \/ RoundFails
    BY <1>3 DEF Plain, batch, bulk
  <2> QED
    BY <1>1, <2>1, PlainStream
<1>4. CASE \/ PairSignerInit \/ PairVerifierInit \/ PairCall \/ PairProgress
           \/ EngineFails \/ OuterFails
  BY <1>1, <1>4, PairStream
<1>5. CASE BulkInit \/ BulkCall \/ BulkLeaf \/ BulkRound \/ BulkFails
  <2>1. /\ ~batch /\ UNCHANGED build /\ UNCHANGED engine
        /\ \/ SignerIteratorInit \/ VerifierInit \/ Call \/ PlainProgress \/ RoundFails
    BY <1>5 DEF BulkInit, BulkCall, BulkLeaf, BulkRound, BulkFails, batch, bulk, PlainProgress
  <2> QED
    BY <1>1, <2>1, PlainStream
<1>6. CASE UNCHANGED vars
  BY <1>6, StreamStutter DEF vars, opening, verifier
<1> QED
  BY <1>2, <1>3, <1>4, <1>5, <1>6 DEF Next

-----------------------------------------------------------------------------
(***************************************************************************)
(* What holds of every number of executions, of evaluations and of seeds   *)
(* in an opening that the tree allows.                                     *)
(***************************************************************************)

\* Frames, budgets and indices stay in their ranges, whatever fails
\* (ggm_tree_large_common_impl.c, ggm_tree_large_incr.c, ggm_tree_large_dfs.c).
THEOREM GGMTypeOK == Spec => []TypeOK
<1> QED
  BY GGMInvariant, GGMTypes, PTL

\* The size of an opening is that of the frontier of the hidden paths, every valid
\* set is opened with exactly T_OPEN seeds, and neither end meets its overrun guard
\* (GetSensitiveNodeIndexes, ExpandPath_dfs, GetNextLeafPartial).
THEOREM GGMOpeningExact == Spec => []OpeningExact
<1>1. GGMInv => OpeningExact
  BY HiddenExact, GGMBudget DEF GGMInv, SignerInv, OpeningExact
<1> QED
  BY <1>1, GGMInvariant, PTL

\* No entry of a path is an ancestor of a hidden leaf, and each execution is handed
\* the seed of its own (ExpandPath_dfs, Open).
THEOREM GGMHiddenLeavesKept == Spec => []HiddenLeavesKept
<1> QED
  BY GGMInvariant, GGMHidden, PTL

\* The pair engine works on siblings with their own seeds, its stack fits, and the
\* verifier's uses all of the path (run_pair_engine, GetNextLeafPartial_batch).
THEOREM GGMEngineInvariant == Spec => []EngineInvariant
<1> QED
  BY GGMInvariant, GGMEngine, PTL

\* An expansion in one call has written every leaf as the kept tree has it (Expand,
\* ExpandLeavesOnly_dfs, PartiallyExpand_dfs).
THEOREM GGMBulkExact == Spec => []BulkExact
<1> QED
  BY GGMInvariant, GGMBulk, PTL

\* Each iterator of each build is a stream of the leaves in order, with the seeds of
\* the tree and zeroes for the hidden ones: LeafStream without its liveness.
THEOREM GGMStream == Spec => Stream!Init /\ [][Stream!Next]_(Stream!vars)
<1>1. PairInit => Stream!Init
  BY DEF PairInit, Init, Stream!Init
<1> QED
  BY <1>1, StreamStep, GGMInvariant, PTL DEF Spec

-----------------------------------------------------------------------------
(***************************************************************************)
(* The breadth-first expansion (LargeGGMBfs).                              *)
(***************************************************************************)

\* A walk of n rounds, as a function with the equation of GetNodeIndexesInPath.
IsWalkOf(w, hn, n) ==
  w = [i \in 0..n |-> IF i = 0 THEN WalkStart(hn) ELSE WalkRound(hn, w[i - 1])]

\* There are such functions.
LEMMA WalkExist == ASSUME NEW hn PROVE \E w : IsWalkOf(w, hn, 2 * M)
<1> DEFINE Bad == {n \in Nat : ~ \E w : IsWalkOf(w, hn, n)}
<1>1. ASSUME Bad # {} PROVE FALSE
  <2>1. Bad \subseteq Nat
    OBVIOUS
  <2> HIDE DEF Bad
  <2>2. PICK n \in Bad : \A m \in Bad : n <= m
    BY <1>1, <2>1, Smallest
  <2>3. n \in Nat /\ ~ \E w : IsWalkOf(w, hn, n)
    BY <2>2 DEF Bad
  <2>4. CASE n = 0
    <3> DEFINE g == [k \in 0..0 |-> WalkStart(hn)]
    <3>1. IsWalkOf(g, hn, 0)
      BY DEF IsWalkOf
    <3> QED
      BY <2>3, <2>4, <3>1
  <2>5. CASE n # 0
    <3>1. n - 1 \in Nat /\ n - 1 \notin Bad
      BY <2>2, <2>3, <2>5
    <3>2. PICK w : IsWalkOf(w, hn, n - 1)
      BY <3>1 DEF Bad
    <3>3. \A k \in 0..(n-1) : w[k] = IF k = 0 THEN WalkStart(hn) ELSE WalkRound(hn, w[k - 1])
      BY <3>2 DEF IsWalkOf
    <3> DEFINE g == [k \in 0..n |-> IF k = n THEN WalkRound(hn, w[n - 1]) ELSE w[k]]
    <3>4. ASSUME NEW k \in 0..n
          PROVE  g[k] = IF k = 0 THEN WalkStart(hn) ELSE WalkRound(hn, g[k - 1])
      <4>1. CASE k = n
        <5>1. g[n - 1] = w[n - 1]
          BY <2>3, <2>5
        <5> QED
          BY <2>5, <4>1, <5>1
      <4>2. CASE k # n
        <5>1. k \in 0..(n - 1) /\ (k # 0 => k - 1 \in 0..n /\ k - 1 # n)
          BY <2>3, <4>2
        <5> QED
          BY <3>3, <4>2, <5>1
      <4> QED
        BY <4>1, <4>2
    <3>5. IsWalkOf(g, hn, n)
      BY <3>4 DEF IsWalkOf
    <3> QED
      BY <2>3, <3>5
  <2> QED
    BY <2>4, <2>5
<1>2. 2 * M \in Nat
  BY Sizes
<1>3. 2 * M \notin Bad
  BY <1>1
<1> QED
  BY <1>2, <1>3

\* A leaf that is not hidden is below a node revealed so far, or is still to be met.
LeavesKept(hn, acc) ==
  \A n \in Nodes \ hn :
    IsLeaf(n) => Covered(acc.nodes, n) \/ Covered(acc.stack, n)

\* What is below the nodes of a sequence and one more.
LEMMA CoveredAppend ==
  ASSUME NEW s \in Seq(Nodes), NEW k \in Nodes, NEW n
  PROVE  Covered(Append(s, k), n) <=> Covered(s, n) \/ Under(n, k)
<1>1. /\ Len(Append(s, k)) = Len(s) + 1 /\ Len(s) \in Nat
      /\ \A i \in 1..Len(s) : Append(s, k)[i] = s[i]
      /\ Append(s, k)[Len(s) + 1] = k
  BY AppendFacts
<1> DEFINE u == Append(s, k)
           L == Len(s)
<1> HIDE DEF u, L
<1>2. /\ \A i \in 1..L+1 : i = L + 1 \/ i \in 1..L
      /\ \A i \in 1..L : i \in 1..L+1
      /\ L + 1 \in 1..L+1
  BY <1>1 DEF L
<1>3. Len(u) = L + 1 /\ (\A i \in 1..L : u[i] = s[i]) /\ u[L + 1] = k
  BY <1>1 DEF u, L
<1>4. (\E i \in 1..L+1 : Under(n, u[i])) <=> (\E i \in 1..L : Under(n, s[i])) \/ Under(n, k)
  BY <1>2, <1>3
<1> QED
  BY <1>3, <1>4 DEF Covered, u, L

\* A round loses no leaf.
LEMMA LeavesKeptRound ==
  ASSUME NEW hid, hid \subseteq Leaves, NEW hn, PathNodes(hid, hn), NEW acc, WalkOK(hn, acc),
         LeavesKept(hn, acc)
  PROVE  LeavesKept(hn, WalkRound(hn, acc))
<1> DEFINE t == acc.stack
           k == Last(t)
           new == WalkRound(hn, acc)
<1>1. /\ acc \in [stack : Seq(Nodes), nodes : Seq(Nodes), size : Int]
      /\ t \in Seq(Nodes) /\ acc.nodes \in Seq(Nodes)
  <2>1. acc \in [stack : Seq(Nodes), nodes : Seq(Nodes \ hn), size : Int]
    BY DEF WalkOK
  <2>2. Seq(Nodes \ hn) \subseteq Seq(Nodes)
    OBVIOUS
  <2> QED
    BY <2>1, <2>2
<1>2. t # <<>> => k \in Nodes
  BY <1>1, FrontLast
<1> SUFFICES ASSUME NEW n \in Nodes \ hn, IsLeaf(n)
             PROVE  Covered(new.nodes, n) \/ Covered(new.stack, n)
  BY DEF LeavesKept
<1>3. Covered(acc.nodes, n) \/ Covered(t, n)
  BY DEF LeavesKept
<1>4. t # <<>> =>
        /\ Covered(t, n) <=> Covered(Front(t), n) \/ Under(n, k)
        /\ ~IsLeaf(k) => (Covered(t, n) <=> Covered(Front(t) \o <<2 * k + 1, 2 * k>>, n))
        /\ IsLeaf(k) /\ Under(n, k) => n = k
  BY <1>1, Covers
<1>5. t # <<>> => (Covered(Append(acc.nodes, k), n) <=> Covered(acc.nodes, n) \/ Under(n, k))
  BY <1>1, <1>2, CoveredAppend
<1> HIDE DEF k
<1>6. \/ t = <<>> /\ new = acc
      \/ t # <<>> /\ new.stack = Front(t) /\ new.nodes = Append(acc.nodes, k)
      \/ t # <<>> /\ IsLeaf(k) /\ k \in hn /\ new.stack = Front(t) /\ new.nodes = acc.nodes
      \/ /\ t # <<>> /\ ~IsLeaf(k) /\ new.nodes = acc.nodes
         /\ new.stack = Front(t) \o <<2 * k + 1, 2 * k>>
  BY <1>1 DEF WalkRound, Revealed, k
<1> HIDE DEF t, new
<1> QED
  BY <1>3, <1>4, <1>5, <1>6 DEF t

\* On the way up from a node on no hidden path to one that is, there is a pending node.
LEMMA PendingAbove ==
  ASSUME NEW hid, hid \subseteq Leaves, NEW hn, PathNodes(hid, hn),
         NEW n \in Nodes \ hn, NEW g \in hn, Under(n, g)
  PROVE  \E f \in Nodes \ hn : f \div 2 \in hn /\ Under(f, g)
<1> DEFINE S == {c \in Nodes : c \notin hn \/ ~Under(c, g)}
<1> SUFFICES ASSUME ~ \E f \in Nodes \ hn : f \div 2 \in hn /\ Under(f, g) PROVE FALSE
  OBVIOUS
<1>1. S \subseteq Nat /\ n \in S
  BY NodesSmall
<1>2. ASSUME NEW c \in S, c > 1 PROVE c \div 2 \in S
  <2>1. c \in Nodes /\ c \div 2 \in Nodes
    BY <1>2, NodesSmall
  <2>2. ASSUME c \div 2 \in hn, Under(c \div 2, g) PROVE FALSE
    <3>1. c # 1 /\ Under(c, c)
      BY <1>2, <2>1, UnderSelf
    <3>2. Under(c, c \div 2)
      BY <2>1, <3>1, UnderParent
    <3>3. Under(c, g)
      BY <2>1, <2>2, <3>2, UnderTransitive
    <3> QED
      BY <2>1, <2>2, <3>3
  <2> QED
    BY <2>1, <2>2
<1> HIDE DEF S
<1>3. g \in S
  BY <1>1, <1>2, ClosedUpwards
<1>4. g \in Nodes
  BY DEF PathNodes
<1> QED
  BY <1>3, <1>4, UnderSelf DEF S

\* The nodes of an opening of full length are on no hidden path, and every leaf that is
\* not hidden is below one of them.
OpeningNodes(hn, nodes) ==
  /\ nodes \in Seq(Nodes \ hn) /\ Len(nodes) = T_OPEN
  /\ \A n \in Nodes \ hn : IsLeaf(n) => Covered(nodes, n)

\* GetNodeIndexesInPath returns such nodes, when it returns the right number.
LEMMA PathIsOpening ==
  ASSUME NEW hid \in OpeningSets, NEW hn, hn = ToSet(GetSensitiveNodeIndexes(hid)),
         Cardinality(hn) - 2 * TAU + 1 <= T_OPEN,
         NEW nodes, nodes = GetNodeIndexesInPath(hn), Len(nodes) = T_OPEN
  PROVE  OpeningNodes(hn, nodes)
<1>1. hid \subseteq Leaves /\ PathNodes(hid, hn)
  BY OpeningSetFacts, SensitivePaths
<1>2. OpeningSize(hid) <= T_OPEN
  BY FrontierSize DEF OpeningSize
<1> DEFINE w == CHOOSE f : IsWalkOf(f, hn, 2 * M)
<1>3. IsWalkOf(w, hn, 2 * M)
  BY WalkExist
<1>4. nodes = w[2 * M].nodes
  BY DEF GetNodeIndexesInPath, IsWalkOf
<1> HIDE DEF w
<1>5. 2 * M \in Nat
  BY Sizes
<1>6. \A i \in 0..2*M-1 : i + 1 \in 0..2*M /\ i + 1 # 0 /\ (i + 1) - 1 = i
  BY <1>5
<1>7. IsWalk(hn, w, 2 * M)
  <2>1. 0 \in 0..2*M
    BY <1>5
  <2> QED
    BY <1>3, <1>5, <1>6, <2>1 DEF IsWalk, IsWalkOf
<1>8. \A i \in 0..2*M : WalkOK(hn, w[i])
  BY <1>2, <1>7, WalksOK
<1>9. LeavesKept(hn, w[0])
  <2>1. w[0].stack = <<1>>
    BY <1>7 DEF IsWalk, WalkStart
  <2> QED
    BY <2>1, CoveredOne, UnderRoot DEF LeavesKept
<1>10. ASSUME NEW i \in 0..2*M-1, LeavesKept(hn, w[i]) PROVE LeavesKept(hn, w[i + 1])
  <2>1. WalkOK(hn, w[i]) /\ w[i + 1] = WalkRound(hn, w[i])
    BY <1>5, <1>7, <1>8 DEF IsWalk
  <2> QED
    BY <1>1, <1>10, <2>1, LeavesKeptRound
<1> DEFINE Bad == {i \in 0..2*M : ~LeavesKept(hn, w[i])}
<1>11. ASSUME Bad # {} PROVE FALSE
  <2>1. Bad \subseteq Nat
    OBVIOUS
  <2> HIDE DEF Bad
  <2>2. PICK i \in Bad : \A m \in Bad : i <= m
    BY <1>11, <2>1, Smallest
  <2>3. i \in 0..2*M /\ ~LeavesKept(hn, w[i])
    BY <2>2 DEF Bad
  <2>4. i # 0
    BY <1>9, <2>3
  <2>5. i - 1 \in 0..2*M-1 /\ i - 1 \in 0..2*M /\ (i - 1) + 1 = i /\ i - 1 \notin Bad
    BY <1>5, <2>2, <2>3, <2>4
  <2>6. LeavesKept(hn, w[i - 1])
    BY <2>5 DEF Bad
  <2>7. LeavesKept(hn, w[(i - 1) + 1])
    BY <1>10, <2>5, <2>6
  <2> QED
    BY <2>3, <2>5, <2>7
<1> DEFINE acc == w[2 * M]
<1>12. WalkOK(hn, acc) /\ LeavesKept(hn, acc)
  BY <1>5, <1>8, <1>11
<1> HIDE DEF acc
<1>13. /\ acc.nodes = nodes /\ nodes \in Seq(Nodes \ hn) /\ acc.stack \in Seq(Nodes)
       /\ Cardinality(Pending(hn, acc.stack)) = 0
  <2>1. /\ acc.nodes \in Seq(Nodes \ hn) /\ acc.stack \in Seq(Nodes)
        /\ acc.size = Len(acc.nodes) + Cardinality(Pending(hn, acc.stack))
        /\ acc.size <= T_OPEN
    BY <1>12 DEF WalkOK
  <2>2. acc.nodes = nodes
    BY <1>4 DEF acc
  <2>3. Cardinality(Pending(hn, acc.stack)) \in Nat /\ T_OPEN \in Nat
    BY PendingFinite, Sizes
  <2> QED
    BY <2>1, <2>2, <2>3
<1>14. Pending(hn, acc.stack) = {}
  BY <1>13, PendingFinite, FS_EmptySet
<1>15. ASSUME NEW n \in Nodes \ hn, Covered(acc.stack, n) PROVE FALSE
  <2>1. PICK i \in 1..Len(acc.stack) : Under(n, acc.stack[i])
    BY <1>15 DEF Covered
  <2> DEFINE g == acc.stack[i]
  <2>2. g \in Nodes
    BY <1>13
  <2>3. CASE g \notin hn
    <3>1. g \in Pending(hn, acc.stack)
      BY <2>2, <2>3 DEF Pending
    <3> QED
      BY <1>14, <3>1
  <2>4. CASE g \in hn
    <3>1. PICK f \in Nodes \ hn : f \div 2 \in hn /\ Under(f, g)
      BY <1>1, <2>1, <2>4, PendingAbove
    <3>2. f \in Pending(hn, acc.stack)
      BY <3>1 DEF Pending
    <3> QED
      BY <1>14, <3>2
  <2> QED
    BY <2>3, <2>4
<1> QED
  BY <1>12, <1>13, <1>15 DEF OpeningNodes, LeavesKept

\* Types, and what a batch holds.
BfsTyped == BfsTypeOK /\ b_batch \in Seq(Nodes)

\* The signer's arrays hold the seeds of the levels derived so far; what is opened has
\* the right length, and the seeds opened are those of the nodes of the opening.
SignerBuilds ==
  /\ b_pc = "leaves" =>
       b_j \in 0..H-1 /\ \A n \in 0..Pow2[b_j]-1 : b_cur[n] = Pow2[b_j] + n
  /\ b_pc \in {"leaves", "expand"} => b_node[1] = 1
  /\ b_pc \in {"expand", "opened", "partial", "done"} =>
       \A i \in Leaves : b_lseed[i] = LeafPosition(i)
  /\ b_pc = "expand" => \A n \in Nodes : n < 2 * Pow2[b_j] => b_node[n] = n
  /\ b_pc \in {"opened", "partial", "done"} =>
       /\ \A n \in Nodes : b_node[n] = n
       /\ \A e \in Executions : b_hidden_lseeds[e] = LeafPosition(HiddenLeaf(e))
       /\ OpeningNodes(HiddenNodes, GetNodeIndexesInPath(HiddenNodes))
       /\ \A pos \in 1..T_OPEN : b_path[pos] = GetNodeIndexesInPath(HiddenNodes)[pos]

\* The children of the marked nodes the sweep has passed are marked, but for those of the
\* batch.
SweptClosed ==
  \A k \in b_assigned :
    ~IsLeaf(k) /\ k < Pow2[b_j] + b_ki /\ k \notin ToSet(b_batch) =>
      {2 * k, 2 * k + 1} \subseteq b_assigned

\* Marked nodes are on no hidden path and hold their seeds; those of the path are marked.
VerifierSweeps ==
  /\ b_pc \in {"leaves", "expand", "opened"} => b_batch = <<>> /\ b_ki = 0
  /\ b_pc \in {"partial", "done"} =>
       /\ b_assigned \subseteq Nodes \ HiddenNodes
       /\ ToSet(GetNodeIndexesInPath(HiddenNodes)) \subseteq b_assigned
       /\ \A k \in b_assigned : b_vnode[k] = k
       /\ ToSet(b_batch) \subseteq b_assigned
       /\ b_j < H => b_ki <= Internal(b_j)
       /\ b_j = H => b_ki = 0 /\ b_batch = <<>>
       /\ SweptClosed
  /\ b_pc = "done" =>
       /\ b_j = H
       /\ \A i \in Leaves : b_vlseed[i] = IF LeafPosition(i) \in HiddenNodes
                                          THEN ZeroSeed ELSE LeafPosition(i)

\* The inductive invariant of the breadth-first expansion.
BfsInv == BfsTyped /\ SignerBuilds /\ VerifierSweeps

\* The sizes of the levels.
LEMMA LevelSizes ==
  ASSUME NEW d \in 0..H-1
  PROVE  /\ d \in Nat /\ d \in 0..H /\ d + 1 \in 1..H /\ d + 1 \in 0..H
         /\ Pow2[d] \in Nat \ {0} /\ Pow2[d + 1] = 2 * Pow2[d] /\ Pow2[d] <= Pow2[H - 1]
         /\ Internal(d) \in Nat /\ Internal(d) <= Pow2[d] /\ Pow2[d] + Internal(d) <= M
         /\ d < H - 1 => Internal(d) = Pow2[d] /\ 2 * Pow2[d] <= Pow2[H - 1]
         /\ d = H - 1 => Pow2[d] + Internal(d) = M /\ Internal(d) = BFS_NB_INT_H1
         /\ BFS_NB_INT_H1 \in Nat /\ NB_DEEP_LEAVES = 2 * BFS_NB_INT_H1
<1>0. H \in Nat \ {0} /\ M \in Nat \ {0} /\ TwoH = 2 * Pow2[H - 1] /\ M <= TwoH
      /\ Pow2[H - 1] < M /\ Pow2[H - 1] \in Nat \ {0} /\ NB_DEEP_LEAVES = 2 * M - TwoH
  BY Sizes
<1>1. d \in Nat /\ d \in 0..H /\ d + 1 \in 1..H /\ d + 1 \in 0..H /\ (d + 1) - 1 = d
      /\ H - 1 \in 0..H
  BY <1>0
<1>2. Pow2[d] \in Nat \ {0} /\ Pow2[d + 1] = 2 * Pow2[d]
  BY <1>1, Powers
<1>3. d < H - 1 => 2 * Pow2[d] <= Pow2[H - 1]
  BY <1>1, PowersGrow
<1>4. BFS_NB_INT_H1 = M - Pow2[H - 1] /\ BFS_NB_INT_H1 \in Nat
  BY <1>0 DEF BFS_NB_INT_H1
<1>5. d = H - 1 => Pow2[d] = Pow2[H - 1]
  OBVIOUS
<1>6. d < H - 1 \/ d = H - 1
  BY <1>0
<1>7. Internal(d) = IF d < H - 1 THEN Pow2[d] ELSE BFS_NB_INT_H1
  BY DEF Internal
<1> QED
  BY <1>0, <1>1, <1>2, <1>3, <1>4, <1>5, <1>6, <1>7

\* The seeds derived from the seed of a node are those of its children.
LEMMA ChildSeed ==
  ASSUME NEW n \in Nat, n \div 2 \in Nodes
  PROVE  Child(n \div 2, n \div 2, n % 2) = n
<1> DEFINE k == n \div 2
<1>1. n = 2 * k + (n % 2) /\ n % 2 \in {0, 1} /\ k \in Nodes
  BY DivMod
<1>2. LeftSeed(k, k) = 2 * k /\ XorBlocks(2 * k, k) = 2 * k + 1
  BY <1>1, SeedFacts
<1>3. Child(k, k, n % 2) = IF n % 2 = 0 THEN 2 * k ELSE 2 * k + 1
  BY <1>2 DEF Child
<1> HIDE DEF k
<1>4. CASE n % 2 = 0
  <2>1. n = 2 * k
    BY <1>1, <1>4, NodesSmall
  <2> QED
    BY <1>3, <1>4, <2>1 DEF k
<1>5. CASE n % 2 = 1
  BY <1>1, <1>3, <1>5 DEF k
<1> QED
  BY <1>1, <1>4, <1>5

\* The children of the first nodes of a level.
LEMMA DerivedLevel ==
  ASSUME NEW d \in 0..H-1, NEW count \in Nat, count <= Internal(d),
         NEW src, \A n \in 0..count-1 : src[n] = Pow2[d] + n,
         NEW dst, NEW n \in Nat, n \in DOMAIN dst, n < 2 * count
  PROVE  DeriveLevel(Pow2[d], src, count, dst)[n] = 2 * Pow2[d] + n
<1>1. /\ Pow2[d] \in Nat \ {0} /\ Pow2[d] + Internal(d) <= M /\ Internal(d) \in Nat
      /\ M \in Nat
  BY LevelSizes, Sizes
<1> DEFINE p == Pow2[d]
           h == n \div 2
<1>2. h \in Nat /\ n % 2 \in {0, 1} /\ n = 2 * h + (n % 2)
  BY DivMod
<1>3. h \in 0..count-1
  BY <1>2
<1>4. src[h] = p + h /\ p + h \in Nodes
  BY <1>1, <1>3 DEF Nodes
<1>5. (2 * p + n) \div 2 = p + h /\ (2 * p + n) % 2 = n % 2 /\ 2 * p + n \in Nat
  <2>1. 2 * p + n = (p + h) * 2 + (n % 2) /\ p + h \in Nat /\ n % 2 \in 0 .. 2 - 1
        /\ 2 \in Nat \ {0}
    BY <1>1, <1>2
  <2> HIDE DEF p, h
  <2>2. (2 * p + n) \div 2 = p + h /\ (2 * p + n) % 2 = n % 2
    BY <2>1, DivModUnique
  <2> QED
    BY <1>1, <2>2 DEF p
<1>6. DeriveLevel(p, src, count, dst)[n] = Child(p + h, src[h], n % 2)
  BY DEF DeriveLevel
<1> HIDE DEF p, h
<1>7. Child(p + h, p + h, n % 2) = 2 * p + n
  BY <1>4, <1>5, ChildSeed
<1> QED
  BY <1>4, <1>6, <1>7 DEF p

\* The hidden leaves of the executions are an opening set, and the nodes above them do not
\* change.
LEMMA BfsHidden ==
  ASSUME BfsTypeOK
  PROVE  /\ {HiddenLeaf(e) : e \in Executions} \in OpeningSets
         /\ PathNodes({HiddenLeaf(e) : e \in Executions}, HiddenNodes)
<1> DEFINE hid == {HiddenLeaf(e) : e \in Executions}
<1>1. b_hidden \in [0..TAU-1 -> 0..N-1]
  BY DEF BfsTypeOK, Executions
<1>2. hid = HiddenLeaves(b_hidden)
  BY DEF HiddenLeaves, HiddenLeaf, Executions
<1>3. hid \in OpeningSets
  BY <1>1, <1>2 DEF OpeningSets
<1> HIDE DEF hid
<1>4. PathNodes(hid, ToSet(GetSensitiveNodeIndexes(hid)))
  BY <1>3, OpeningSetFacts, SensitivePaths
<1> QED
  BY <1>3, <1>4 DEF HiddenNodes, hid

LEMMA HiddenStays ==
  ASSUME b_hidden' = b_hidden
  PROVE  HiddenNodes' = HiddenNodes /\ \A e : HiddenLeaf(e)' = HiddenLeaf(e)
BY DEF HiddenNodes, HiddenLeaf

\* The invariant holds before the first step.
LEMMA BfsInitInv == BfsInit => BfsInv
<1> SUFFICES ASSUME BfsInit PROVE BfsInv
  OBVIOUS
<1>1. /\ H \in Nat \ {0} /\ M \in Nat \ {0} /\ Pow2[H - 1] \in Nat \ {0} /\ Pow2[0] = 1
      /\ 0 \in 0..H-1 /\ 0 \in 0..H
  BY Sizes, Powers
<1>2. {1, Junk, ZeroSeed} \subseteq Seeds /\ BFS_MAX_LEVEL_NODES \in Nat \ {0}
  BY <1>1, NodesSmall DEF Seeds, BFS_MAX_LEVEL_NODES
<1>3. 0 \in LevelArray /\ 1 \in 0..2*M-1
  BY <1>1, <1>2 DEF LevelArray
<1>4. b_cur \in [LevelArray -> Seeds] /\ b_nxt \in [LevelArray -> Seeds] /\ b_cur[0] = 1
  BY <1>2, <1>3 DEF BfsInit, Unwritten
<1>5. b_node \in [0..2*M-1 -> Seeds] /\ b_vnode \in [0..2*M-1 -> Seeds] /\ b_node[1] = 1
  BY <1>2, <1>3 DEF BfsInit, Unwritten
<1>6. b_lseed \in [Leaves -> Seeds] /\ b_vlseed \in [Leaves -> Seeds]
  BY <1>2 DEF BfsInit, Unwritten
<1>7. /\ b_width \in Widths /\ b_hidden \in [Executions -> 0..N-1]
      /\ b_assigned = {} /\ b_batch = <<>> /\ b_j = 0 /\ b_ki = 0 /\ b_pc = "leaves"
  BY DEF BfsInit
<1>8. b_width \in Nat \ {0} /\ Len(b_batch) = 0 /\ ToSet(b_batch) = {} /\ b_batch \in Seq(Nodes)
  BY <1>7, WidthsAssumption DEF ToSet
<1>9. BfsTyped
  BY <1>1, <1>2, <1>4, <1>5, <1>6, <1>7, <1>8 DEF BfsTyped, BfsTypeOK
<1>10. SignerBuilds
  BY <1>1, <1>4, <1>5, <1>7 DEF SignerBuilds
<1>11. VerifierSweeps
  BY <1>7 DEF VerifierSweeps
<1> QED
  BY <1>9, <1>10, <1>11 DEF BfsInv

\* A level of the rolling buffers.
LEMMA LeavesLevelInv == ASSUME BfsInv, LeavesLevel PROVE BfsInv'
<1>1. /\ b_pc = "leaves" /\ b_j \in 0..H-1 /\ b_j < H - 1 /\ b_pc' = b_pc
      /\ b_cur' = DeriveLevel(Pow2[b_j], b_cur, Pow2[b_j], b_nxt)
      /\ b_nxt' = b_cur /\ b_j' = b_j + 1
      /\ UNCHANGED <<b_width, b_hidden, b_lseed, b_node, revealed, b_vnode, b_assigned,
                     b_batch, b_vlseed, b_ki>>
  BY DEF LeavesLevel, BfsInv, SignerBuilds, VerifierIdle
<1>2. /\ Pow2[b_j] \in Nat \ {0} /\ Pow2[b_j + 1] = 2 * Pow2[b_j]
      /\ Internal(b_j) = Pow2[b_j] /\ 2 * Pow2[b_j] <= Pow2[H - 1]
      /\ b_j + 1 \in 0..H /\ b_j + 1 \in 0..H-1
      /\ Pow2[H - 1] \in Nat \ {0} /\ Pow2[H - 1] < M /\ M \in Nat
  BY <1>1, LevelSizes, Sizes
<1>3. /\ b_cur \in [LevelArray -> Seeds] /\ b_nxt \in [LevelArray -> Seeds]
      /\ b_batch \in Seq(Nodes) /\ b_batch = <<>> /\ b_ki = 0
      /\ \A n \in 0..Pow2[b_j]-1 : b_cur[n] = Pow2[b_j] + n
  BY <1>1 DEF BfsInv, BfsTyped, BfsTypeOK, SignerBuilds, VerifierSweeps
<1> DEFINE p == Pow2[b_j]
           new == DeriveLevel(p, b_cur, p, b_nxt)
<1>4. /\ new = [n \in LevelArray |-> IF n < 2 * p THEN Child(p + n \div 2, b_cur[n \div 2], n % 2)
                                                  ELSE b_nxt[n]]
      /\ LevelArray \subseteq Nat
  BY <1>3 DEF DeriveLevel, LevelArray
<1>5. ASSUME NEW n \in LevelArray, n < 2 * p PROVE new[n] = 2 * p + n
  <2>1. DOMAIN b_nxt = LevelArray /\ n \in Nat /\ n \in DOMAIN b_nxt
    BY <1>3, <1>4
  <2>2. p \in Nat /\ p <= Internal(b_j)
    BY <1>2
  <2> QED
    BY <1>1, <1>3, <1>5, <2>1, <2>2, DerivedLevel
<1>6. \A n \in 0..2*p-1 : n \in LevelArray /\ n < 2 * p
  BY <1>2 DEF LevelArray, BFS_MAX_LEVEL_NODES
<1>7. \A n \in LevelArray : n < 2 * p => 2 * p + n \in Seeds
  BY <1>2, <1>4 DEF Seeds, Nodes
<1>8. new \in [LevelArray -> Seeds]
  <2>1. \A n \in LevelArray : ~(n < 2 * p) => new[n] \in Seeds
    BY <1>3, <1>4
  <2> HIDE DEF p
  <2>2. \A n \in LevelArray : new[n] \in Seeds
    BY <1>5, <1>7, <2>1
  <2> QED
    BY <1>4, <2>2
<1>9. \A n \in 0..Pow2[b_j + 1]-1 : new[n] = Pow2[b_j + 1] + n
  BY <1>2, <1>5, <1>6
<1>10. BfsTyped'
  <2>1. ToSet(b_batch') = {}
    BY <1>1, <1>3 DEF ToSet
  <2> QED
    BY <1>1, <1>2, <1>3, <1>8, <2>1 DEF BfsTyped, BfsTypeOK, BfsInv
<1>11. SignerBuilds'
  <2>1. b_cur' = new /\ b_node' = b_node
    BY <1>1
  <2> HIDE DEF new
  <2> QED
    BY <1>1, <1>2, <1>9, <2>1 DEF SignerBuilds, BfsInv
<1>12. VerifierSweeps'
  BY <1>1, <1>3 DEF VerifierSweeps
<1> QED
  BY <1>10, <1>11, <1>12 DEF BfsInv

\* The leaves, from the last level.
LEMMA LeavesLastInv == ASSUME BfsInv, LeavesLast PROVE BfsInv'
<1> DEFINE p == Pow2[H - 1]
           q == BFS_NB_INT_H1
           deep == DeriveLevel(BFS_MAX_LEVEL_NODES, b_cur, q, Unwritten(0..NB_DEEP_LEAVES-1))
           shallow == q..p-1
           new == [i \in Leaves |->
                     IF i < NB_DEEP_LEAVES THEN deep[i]
                     ELSE IF \E k \in shallow : ShallowSlot(k) = i
                     THEN b_cur[CHOOSE k \in shallow : ShallowSlot(k) = i] ELSE Junk]
<1>1. /\ b_pc = "leaves" /\ b_j = H - 1 /\ b_lseed' = new /\ b_pc' = "expand" /\ b_j' = 0
      /\ UNCHANGED <<b_width, b_hidden, rolling, b_node, revealed, b_vnode, b_assigned,
                     b_batch, b_vlseed, b_ki>>
  BY DEF LeavesLast, VerifierIdle, BFS_MAX_LEVEL_NODES
<1>2. /\ H \in Nat \ {0} /\ H - 1 \in 0..H-1 /\ Pow2[0] = 1 /\ 0 \in 0..H
      /\ p \in Nat \ {0} /\ TwoH = 2 * p /\ p + q = M /\ q \in Nat /\ Internal(H - 1) = q
      /\ NB_DEEP_LEAVES = 2 * q /\ M \in Nat /\ q <= p
  BY Sizes, LevelSizes, Powers
<1>3. /\ \A n \in 0..p-1 : b_cur[n] = p + n
      /\ b_batch \in Seq(Nodes) /\ b_batch = <<>> /\ b_ki = 0
  BY <1>1 DEF BfsInv, BfsTyped, SignerBuilds, VerifierSweeps
<1>4. ASSUME NEW i \in Leaves PROVE new[i] = LeafPosition(i)
  <2>1. i \in Nat /\ i < M
    BY <1>2 DEF Leaves
  <2>2. CASE i < NB_DEEP_LEAVES
    <3> DEFINE dst == Unwritten(0..NB_DEEP_LEAVES-1)
    <3>1. DOMAIN dst = 0..NB_DEEP_LEAVES-1 /\ i \in 0..NB_DEEP_LEAVES-1 /\ i < 2 * q
      BY <1>2, <2>1, <2>2 DEF Unwritten
    <3>2. \A n \in 0..q-1 : b_cur[n] = p + n
      BY <1>2, <1>3
    <3> HIDE DEF dst
    <3>3. DeriveLevel(p, b_cur, q, dst)[i] = 2 * p + i
      <4>1. /\ H - 1 \in 0..H-1 /\ q \in Nat /\ q <= Internal(H - 1)
            /\ (\A n \in 0..q-1 : b_cur[n] = Pow2[H - 1] + n)
            /\ i \in Nat /\ i \in DOMAIN dst /\ i < 2 * q
        BY <1>2, <2>1, <3>1, <3>2
      <4> QED
        BY <4>1, DerivedLevel
    <3>4. new[i] = deep[i] /\ deep[i] = DeriveLevel(p, b_cur, q, dst)[i]
      BY <2>2 DEF dst, BFS_MAX_LEVEL_NODES
    <3> QED
      BY <1>2, <2>1, <2>2, <3>3, <3>4 DEF LeafPosition
  <2>3. CASE ~(i < NB_DEEP_LEAVES)
    <3>1. i - q \in shallow /\ ShallowSlot(i - q) = i
      BY <1>2, <2>1, <2>3 DEF ShallowSlot
    <3>2. \A k \in shallow : ShallowSlot(k) = i => k = i - q
      BY <1>2, <2>1 DEF ShallowSlot
    <3>3. (CHOOSE k \in shallow : ShallowSlot(k) = i) = i - q
      BY <3>1, <3>2
    <3>4. new[i] = b_cur[CHOOSE k \in shallow : ShallowSlot(k) = i]
      BY <2>3, <3>1
    <3>5. i - q \in 0..p-1
      BY <1>2, <2>1, <3>1
    <3> HIDE DEF new, p, q, shallow
    <3>6. new[i] = p + (i - q)
      BY <1>3, <3>3, <3>4, <3>5
    <3>7. p + (i - q) = TwoH + i - M
      BY <1>2, <2>1 DEF p, q
    <3> QED
      BY <2>3, <3>6, <3>7 DEF LeafPosition
  <2> QED
    BY <2>2, <2>3
<1>5. new \in [Leaves -> Seeds]
  <2>1. DOMAIN new = Leaves /\ new = [i \in Leaves |-> new[i]]
    OBVIOUS
  <2> HIDE DEF new
  <2> QED
    BY <1>4, <2>1, Positions DEF Seeds
<1> HIDE DEF new
<1>6. BfsTyped'
  <2>1. ToSet(b_batch') = {}
    BY <1>1, <1>3 DEF ToSet
  <2> QED
    BY <1>1, <1>2, <1>3, <1>5, <2>1 DEF BfsTyped, BfsTypeOK, BfsInv, rolling
<1>7. SignerBuilds'
  <2>1. b_node[1] = 1 /\ b_node' = b_node
    BY <1>1 DEF BfsInv, SignerBuilds
  <2>2. \A n \in Nodes : n < 2 * Pow2[0] => b_node[n] = n
    BY <1>2, <2>1, NodesSmall
  <2> QED
    BY <1>1, <1>4, <2>1, <2>2 DEF SignerBuilds
<1>8. VerifierSweeps'
  BY <1>1, <1>3 DEF VerifierSweeps
<1> QED
  BY <1>6, <1>7, <1>8 DEF BfsInv

\* A level of the tree that is expanded in place.
LEMMA ExpandLevelInv == ASSUME BfsInv, ExpandLevel PROVE BfsInv'
<1> DEFINE p == Pow2[b_j]
           q == Internal(b_j)
           new == [n \in 0..2*M-1 |-> IF n \div 2 \in p..p+q-1
                                      THEN Child(n \div 2, b_node[n \div 2], n % 2)
                                      ELSE b_node[n]]
<1>1. /\ b_node \in [0..2*M-1 -> Seeds] /\ b_j \in 0..H
      /\ b_batch \in Seq(Nodes) /\ b_batch = <<>> /\ b_ki = 0
      /\ \A n \in Nodes : n < 2 * p => b_node[n] = n
      /\ b_node[1] = 1 /\ \A i \in Leaves : b_lseed[i] = LeafPosition(i)
  BY DEF BfsInv, BfsTyped, BfsTypeOK, SignerBuilds, VerifierSweeps, ExpandLevel
<1>2. /\ b_pc = "expand" /\ b_j < H /\ b_j' = b_j + 1 /\ b_node' = new /\ b_pc' = b_pc
      /\ UNCHANGED <<b_width, b_hidden, rolling, b_lseed, revealed, b_vnode, b_assigned,
                     b_batch, b_vlseed, b_ki>>
  BY <1>1 DEF ExpandLevel, VerifierIdle
<1>3. b_j \in 0..H-1
  BY <1>1, <1>2, Sizes
<1>4. /\ p \in Nat \ {0} /\ q \in Nat /\ q <= p /\ p + q <= M /\ Pow2[b_j + 1] = 2 * p
      /\ b_j < H - 1 => q = p
      /\ b_j = H - 1 => p + q = M
      /\ b_j < H - 1 \/ b_j = H - 1
      /\ b_j + 1 \in 0..H /\ M \in Nat \ {0}
  BY <1>3, LevelSizes, Sizes
<1>5. ASSUME NEW n \in 0..2*M-1, n \div 2 \in p..p+q-1 PROVE new[n] = n /\ n \in Nodes
  <2>1. n \in Nat /\ n \div 2 \in Nodes /\ n \div 2 < 2 * p
    BY <1>4, <1>5 DEF Nodes
  <2>2. new[n] = Child(n \div 2, b_node[n \div 2], n % 2)
    BY <1>5
  <2>3. b_node[n \div 2] = n \div 2
    BY <1>1, <2>1
  <2> HIDE DEF p, q, new
  <2>4. new[n] = n
    BY <2>1, <2>2, <2>3, ChildSeed
  <2>5. n \in Nodes
    <3>1. n # 0
      BY <1>4, <1>5
    <3> QED
      BY <1>4, <1>5, <3>1 DEF Nodes
  <2> QED
    BY <2>4, <2>5
<1>6. ASSUME NEW n \in Nodes, n < 2 * Pow2[b_j + 1] PROVE new[n] = n
  <2>1. n \in 0..2*M-1 /\ n \in Nat \ {0} /\ n < 4 * p /\ n < 2 * M
    <3> HIDE DEF p
    <3> QED
      BY <1>4, <1>6 DEF Nodes
  <2>2. CASE n \div 2 \in p..p+q-1
    BY <1>5, <2>1, <2>2
  <2>3. CASE n \div 2 \notin p..p+q-1
    <3>1. n < 2 * p
      <4> HIDE DEF p, q
      <4>1. n \div 2 < p \/ n \div 2 >= p + q
        BY <1>4, <2>1, <2>3
      <4>2. n \div 2 < 2 * p /\ n \div 2 < M
        BY <1>4, <2>1
      <4>3. n \div 2 < p
        BY <1>4, <2>1, <4>1, <4>2
      <4> QED
        BY <1>4, <2>1, <4>3
    <3>2. new[n] = b_node[n]
      BY <2>1, <2>3
    <3> QED
      BY <1>1, <3>1, <3>2
  <2> QED
    BY <2>2, <2>3
<1>7. new \in [0..2*M-1 -> Seeds]
  <2>1. \A n \in 0..2*M-1 : n \div 2 \notin p..p+q-1 => new[n] = b_node[n]
    OBVIOUS
  <2>2. new = [n \in 0..2*M-1 |-> new[n]]
    OBVIOUS
  <2> HIDE DEF new, p, q
  <2>3. \A n \in 0..2*M-1 : new[n] \in Seeds
    BY <1>1, <1>5, <2>1 DEF Seeds
  <2> QED
    BY <2>2, <2>3
<1>8. new[1] = 1
  <2>1. 1 \in Nodes /\ 1 < 2 * Pow2[b_j + 1]
    BY <1>4, NodesSmall
  <2> QED
    BY <1>6, <2>1
<1> HIDE DEF new, p, q
<1>9. BfsTyped'
  <2>1. ToSet(b_batch') = {}
    BY <1>1, <1>2 DEF ToSet
  <2> QED
    BY <1>1, <1>2, <1>4, <1>7, <2>1 DEF BfsTyped, BfsTypeOK, BfsInv, rolling
<1>10. SignerBuilds'
  BY <1>1, <1>2, <1>6, <1>8 DEF SignerBuilds
<1>11. VerifierSweeps'
  BY <1>1, <1>2 DEF VerifierSweeps
<1> QED
  BY <1>9, <1>10, <1>11 DEF BfsInv

\* The opening, from the expanded tree.
LEMMA ExpandPathInv == ASSUME BfsInv, ExpandPathEnds PROVE BfsInv'
<1> DEFINE nodes == GetNodeIndexesInPath(HiddenNodes)
           hid == {HiddenLeaf(e) : e \in Executions}
<1>1. /\ b_pc = "expand" /\ b_j = H
      /\ UNCHANGED <<b_width, b_hidden, rolling, b_lseed, b_node, b_j, b_vnode, b_assigned,
                     b_batch, b_vlseed, b_ki>>
      /\ \/ /\ Cardinality(HiddenNodes) - 2 * TAU + 1 <= T_OPEN /\ Len(nodes) = T_OPEN
            /\ b_path' = [pos \in 1..T_OPEN |-> b_node[nodes[pos]]]
            /\ b_hidden_lseeds' = [e \in Executions |-> b_node[LeafPosition(HiddenLeaf(e))]]
            /\ b_pc' = "opened"
         \/ b_pc' = "error" /\ UNCHANGED revealed
  BY DEF ExpandPathEnds, VerifierIdle
<1>2. /\ BfsTypeOK /\ b_batch \in Seq(Nodes) /\ b_batch = <<>> /\ b_ki = 0
      /\ \A n \in Nodes : n < 2 * Pow2[H] => b_node[n] = n
      /\ \A i \in Leaves : b_lseed[i] = LeafPosition(i)
  BY <1>1 DEF BfsInv, BfsTyped, SignerBuilds, VerifierSweeps
<1>3. \A n \in Nodes : b_node[n] = n
  BY <1>2, NodesSmall, Sizes
<1>4. HiddenNodes' = HiddenNodes /\ \A e : HiddenLeaf(e)' = HiddenLeaf(e)
  BY <1>1, HiddenStays
<1>5. BfsTyped'
  <2>1. b_batch' = <<>> /\ ToSet(b_batch') = {} /\ b_batch' = b_batch
    BY <1>1, <1>2 DEF ToSet
  <2>2. b_pc' \in {"opened", "error"}
    BY <1>1
  <2> QED
    BY <1>1, <1>2, <2>1, <2>2 DEF BfsTyped, BfsTypeOK, rolling
<1>6. VerifierSweeps'
  BY <1>1, <1>2 DEF VerifierSweeps
<1>7. SignerBuilds'
  <2>1. CASE b_pc' = "error"
    BY <2>1 DEF SignerBuilds
  <2>2. CASE b_pc' = "opened"
    <3>1. /\ Cardinality(HiddenNodes) - 2 * TAU + 1 <= T_OPEN /\ Len(nodes) = T_OPEN
          /\ b_path' = [pos \in 1..T_OPEN |-> b_node[nodes[pos]]]
          /\ b_hidden_lseeds' = [e \in Executions |-> b_node[LeafPosition(HiddenLeaf(e))]]
      BY <1>1, <2>2
    <3>2. hid \in OpeningSets /\ hid \subseteq Leaves /\ \A e \in Executions : HiddenLeaf(e) \in hid
      BY <1>2, BfsHidden, OpeningSetFacts
    <3>3. HiddenNodes = ToSet(GetSensitiveNodeIndexes(hid))
      BY DEF HiddenNodes
    <3> HIDE DEF nodes, hid
    <3>4. OpeningNodes(HiddenNodes, nodes)
      BY <3>1, <3>2, <3>3, PathIsOpening DEF nodes
    <3>5. ASSUME NEW pos \in 1..T_OPEN PROVE b_path'[pos] = nodes[pos]
      <4>1. nodes[pos] \in Nodes
        BY <3>4 DEF OpeningNodes
      <4> QED
        BY <1>3, <3>1, <4>1
    <3>6. \A e \in Executions : b_hidden_lseeds'[e] = LeafPosition(HiddenLeaf(e))
      BY <1>3, <3>1, <3>2, Positions
    <3>7. nodes' = nodes
      BY <1>4 DEF nodes
    <3> QED
      BY <1>1, <1>2, <1>3, <1>4, <2>2, <3>4, <3>5, <3>6, <3>7 DEF SignerBuilds, nodes
  <2> QED
    BY <1>1, <2>1, <2>2
<1> QED
  BY <1>5, <1>6, <1>7 DEF BfsInv

\* What the signer leaves the verifier stays as it is.
LEMMA SignerIdleKeeps ==
  ASSUME BfsInv, SignerIdle, b_pc \in {"opened", "partial"}, b_pc' \in {"partial", "done"}
  PROVE  /\ SignerBuilds' /\ HiddenNodes' = HiddenNodes
         /\ UNCHANGED <<b_width, b_hidden, b_cur, b_nxt, b_lseed, b_node>>
         /\ OpeningNodes(HiddenNodes, GetNodeIndexesInPath(HiddenNodes))
<1>1. UNCHANGED <<b_width, b_hidden, b_cur, b_nxt, b_lseed, b_node, b_path, b_hidden_lseeds>>
  BY DEF SignerIdle, rolling, revealed
<1>2. HiddenNodes' = HiddenNodes /\ \A e : HiddenLeaf(e)' = HiddenLeaf(e)
  BY <1>1, HiddenStays
<1>3. /\ \A i \in Leaves : b_lseed[i] = LeafPosition(i)
      /\ \A n \in Nodes : b_node[n] = n
      /\ \A e \in Executions : b_hidden_lseeds[e] = LeafPosition(HiddenLeaf(e))
      /\ OpeningNodes(HiddenNodes, GetNodeIndexesInPath(HiddenNodes))
      /\ \A pos \in 1..T_OPEN : b_path[pos] = GetNodeIndexesInPath(HiddenNodes)[pos]
  BY DEF BfsInv, SignerBuilds
<1>4. SignerBuilds'
  BY <1>1, <1>2, <1>3 DEF SignerBuilds
<1> QED
  BY <1>1, <1>2, <1>3, <1>4

\* The verifier starts from the path.
LEMMA CopyPathInv == ASSUME BfsInv, CopyPath PROVE BfsInv'
<1> DEFINE nodes == GetNodeIndexesInPath(HiddenNodes)
<1>1. /\ b_pc = "opened" /\ b_pc' = "partial" /\ b_j' = 0 /\ b_ki' = 0
      /\ b_batch' = b_batch /\ b_vlseed' = b_vlseed /\ SignerIdle
      /\ b_vnode' = [n \in DOMAIN b_vnode |->
                       IF \E pos \in 1..Len(nodes) : nodes[pos] = n
                       THEN b_path[CHOOSE pos \in 1..Len(nodes) : nodes[pos] = n]
                       ELSE b_vnode[n]]
      /\ b_assigned' = ToSet(nodes)
  BY DEF CopyPath
<1>2. /\ SignerBuilds' /\ HiddenNodes' = HiddenNodes
      /\ UNCHANGED <<b_width, b_hidden, b_cur, b_nxt, b_lseed, b_node>>
      /\ OpeningNodes(HiddenNodes, nodes)
  BY <1>1, SignerIdleKeeps
<1>3. /\ BfsTypeOK /\ b_batch = <<>>
      /\ \A pos \in 1..T_OPEN : b_path[pos] = nodes[pos]
  BY <1>1 DEF BfsInv, BfsTyped, SignerBuilds, VerifierSweeps
<1> HIDE DEF nodes
<1>4. /\ nodes \in Seq(Nodes \ HiddenNodes) /\ Len(nodes) = T_OPEN
      /\ ToSet(nodes) = {nodes[pos] : pos \in 1..T_OPEN}
      /\ ToSet(nodes) \subseteq Nodes \ HiddenNodes
  BY <1>2 DEF OpeningNodes, ToSet
<1>5. DOMAIN b_vnode = 0..2*M-1 /\ b_vnode \in [0..2*M-1 -> Seeds] /\ Nodes \subseteq 0..2*M-1
  BY <1>3, Sizes DEF BfsTypeOK, Nodes
<1>6. ASSUME NEW n \in 0..2*M-1
      PROVE  b_vnode'[n] = IF n \in ToSet(nodes) THEN n ELSE b_vnode[n]
  <2>1. n \in ToSet(nodes) <=> \E pos \in 1..Len(nodes) : nodes[pos] = n
    BY <1>4
  <2>2. ASSUME n \in ToSet(nodes)
        PROVE  b_path[CHOOSE pos \in 1..Len(nodes) : nodes[pos] = n] = n
    <3> DEFINE at == CHOOSE pos \in 1..Len(nodes) : nodes[pos] = n
    <3>1. at \in 1..Len(nodes) /\ nodes[at] = n
      BY <2>1, <2>2
    <3> HIDE DEF at
    <3>2. b_path[at] = n
      BY <1>3, <1>4, <3>1
    <3> QED
      BY <3>2 DEF at
  <2> QED
    BY <1>1, <1>5, <2>1, <2>2
<1>7. b_vnode' \in [0..2*M-1 -> Seeds]
  <2>1. \A n \in 0..2*M-1 : b_vnode'[n] \in Seeds
    BY <1>4, <1>5, <1>6 DEF Seeds
  <2>2. b_vnode' = [n \in 0..2*M-1 |-> b_vnode'[n]]
    BY <1>1, <1>5
  <2> QED
    BY <2>1, <2>2
<1>8. /\ Pow2[0] = 1 /\ 0 \in 0..H /\ H # 0 /\ BFS_MAX_LEVEL_NODES \in Nat
      /\ ToSet(<<>>) = {} /\ <<>> \in Seq(Nodes)
  BY Powers, Sizes DEF BFS_MAX_LEVEL_NODES, ToSet
<1>9. BfsTyped'
  BY <1>1, <1>2, <1>3, <1>4, <1>7, <1>8 DEF BfsTyped, BfsTypeOK
<1>10. VerifierSweeps'
  <2>1. \A k \in b_assigned' : b_vnode'[k] = k
    BY <1>1, <1>4, <1>5, <1>6
  <2>2. SweptClosed'
    <3>1. \A k \in Nodes : ~(k < Pow2[0] + 0)
      BY <1>8, NodesSmall
    <3> QED
      BY <1>1, <1>4, <3>1 DEF SweptClosed
  <2>3. 0 \in 0..H-1 /\ 0 <= Internal(0)
    <3>1. 0 \in 0..H-1
      BY Sizes
    <3> QED
      BY <3>1, LevelSizes
  <2>4. nodes' = nodes
    BY <1>2 DEF nodes
  <2>5. Internal(b_j)' = Internal(b_j')
    BY DEF Internal, BFS_NB_INT_H1
  <2> QED
    BY <1>1, <1>2, <1>3, <1>4, <1>8, <2>1, <2>2, <2>3, <2>4, <2>5 DEF VerifierSweeps, nodes
<1> QED
  BY <1>2, <1>9, <1>10 DEF BfsInv

\* A batch is of one node at least.
LEMMA WidthIsNat == ASSUME BfsInv PROVE b_width \in Nat \ {0}
<1>1. b_width \in Widths
  BY DEF BfsInv, BfsTyped, BfsTypeOK
<1> QED
  BY <1>1, WidthsAssumption

\* What deriving the children of marked nodes does.
Derived(ks) ==
  /\ b_vnode' \in [0..2*M-1 -> Seeds]
  /\ b_assigned' \subseteq Nodes \ HiddenNodes
  /\ b_assigned \subseteq b_assigned'
  /\ \A k \in b_assigned' : b_vnode'[k] = k
  /\ \A k \in ks : {2 * k, 2 * k + 1} \subseteq b_assigned'
  /\ \A c \in b_assigned' : c \in b_assigned \/ \E k \in ks : c \in {2 * k, 2 * k + 1}

LEMMA DeriveMarks ==
  ASSUME BfsInv, b_pc = "partial", NEW ks, ks \subseteq b_assigned, \A k \in ks : ~IsLeaf(k),
         Derive(ks)
  PROVE  Derived(ks)
<1>1. /\ b_vnode' = [n \in DOMAIN b_vnode |->
                       IF n \div 2 \in ks THEN Child(n \div 2, b_vnode[n \div 2], n % 2)
                       ELSE b_vnode[n]]
      /\ b_assigned' = b_assigned \cup {2 * k : k \in ks} \cup {2 * k + 1 : k \in ks}
  BY DEF Derive, Marked
<1>2. /\ BfsTypeOK /\ b_vnode \in [0..2*M-1 -> Seeds]
      /\ b_assigned \subseteq Nodes \ HiddenNodes
      /\ \A k \in b_assigned : b_vnode[k] = k
  BY DEF BfsInv, BfsTyped, BfsTypeOK, VerifierSweeps
<1>3. PICK hid : hid \subseteq Leaves /\ PathNodes(hid, HiddenNodes)
  BY <1>2, BfsHidden, OpeningSetFacts
<1>4. ASSUME NEW k \in ks
      PROVE  /\ k \in Nat \ {0} /\ k \in Nodes
             /\ 2 * k \in Nodes \ HiddenNodes /\ 2 * k + 1 \in Nodes \ HiddenNodes
  <2>1. k \in Nodes \ HiddenNodes /\ ~IsLeaf(k) /\ k \in Nat \ {0}
    BY <1>2, NodesSmall
  <2>2. 2 * k \in Nodes /\ 2 * k + 1 \in Nodes
    BY <2>1, NodesSmall
  <2>3. (2 * k) \div 2 = k /\ (2 * k + 1) \div 2 = k /\ 2 * k > 1 /\ 2 * k + 1 > 1
    BY <2>1
  <2>4. \A c \in HiddenNodes : c > 1 => c \div 2 \in HiddenNodes
    BY <1>3 DEF PathNodes
  <2> QED
    BY <2>1, <2>2, <2>3, <2>4
<1>5. Nodes \subseteq 0..2*M-1 /\ \A n \in 0..2*M-1 : n \in Nat
  BY Sizes DEF Nodes
<1>6. ASSUME NEW n \in 0..2*M-1, n \div 2 \in ks PROVE b_vnode'[n] = n /\ n \in Nodes
  <2>1. n \in Nat /\ n \div 2 \in Nodes /\ b_vnode[n \div 2] = n \div 2
    BY <1>2, <1>4, <1>5, <1>6
  <2>2. b_vnode'[n] = Child(n \div 2, b_vnode[n \div 2], n % 2)
    BY <1>1, <1>2, <1>6
  <2>3. b_vnode'[n] = n
    BY <2>1, <2>2, ChildSeed
  <2>4. n \div 2 \in Nat \ {0}
    BY <2>1, NodesSmall
  <2>5. n # 0
    BY <2>1, <2>4
  <2>6. n \in Nodes
    BY <2>5, Sizes DEF Nodes
  <2> QED
    BY <2>3, <2>6
<1>7. \A n \in 0..2*M-1 : n \div 2 \notin ks => b_vnode'[n] = b_vnode[n]
  BY <1>1, <1>2
<1>8. b_vnode' \in [0..2*M-1 -> Seeds]
  <2>1. \A n \in 0..2*M-1 : b_vnode'[n] \in Seeds
    BY <1>2, <1>6, <1>7 DEF Seeds
  <2>2. b_vnode' = [n \in 0..2*M-1 |-> b_vnode'[n]]
    BY <1>1, <1>2
  <2> QED
    BY <2>1, <2>2
<1>9. ASSUME NEW c \in b_assigned', c \notin b_assigned
      PROVE  \E k \in ks : c \in {2 * k, 2 * k + 1}
  BY <1>1, <1>9
<1>10. b_assigned' \subseteq Nodes \ HiddenNodes
  BY <1>1, <1>2, <1>4
<1>11. ASSUME NEW c \in b_assigned' PROVE b_vnode'[c] = c
  <2>1. c \in 0..2*M-1
    BY <1>5, <1>10
  <2>2. CASE c \div 2 \in ks
    BY <1>6, <2>1, <2>2
  <2>3. CASE c \div 2 \notin ks
    <3>1. c \in b_assigned
      <4>1. SUFFICES ASSUME c \notin b_assigned PROVE FALSE
        OBVIOUS
      <4>2. PICK k \in ks : c \in {2 * k, 2 * k + 1}
        BY <1>9, <4>1
      <4>3. c \div 2 = k
        BY <1>4, <4>2
      <4> QED
        BY <2>3, <4>3
    <3> QED
      BY <1>2, <1>7, <2>1, <2>3, <3>1
  <2> QED
    BY <2>2, <2>3
<1>12. \A k \in ks : {2 * k, 2 * k + 1} \subseteq b_assigned'
  BY <1>1
<1> QED
  BY <1>1, <1>8, <1>9, <1>10, <1>11, <1>12 DEF Derived

\* The node that the sweep looks at has children.
LEMMA ScannedNode ==
  ASSUME BfsInv, Scanning
  PROVE  /\ b_j \in 0..H-1 /\ b_ki \in Nat
         /\ Pow2[b_j] \in Nat \ {0} /\ Pow2[b_j] + b_ki \in Nodes /\ ~IsLeaf(Pow2[b_j] + b_ki)
         /\ b_ki + 1 <= Internal(b_j) /\ b_ki + 1 \in 0..BFS_MAX_LEVEL_NODES
         /\ Pow2[b_j] + (b_ki + 1) <= 2 * Pow2[b_j] /\ Pow2[b_j] + (b_ki + 1) <= M
<1>1. b_j \in 0..H /\ b_j < H /\ b_ki \in 0..BFS_MAX_LEVEL_NODES /\ b_ki < Internal(b_j)
  BY DEF BfsInv, BfsTyped, BfsTypeOK, Scanning
<1>2. b_j \in 0..H-1 /\ M \in Nat \ {0} /\ Pow2[H - 1] \in Nat \ {0}
  BY <1>1, Sizes
<1>3. /\ Pow2[b_j] \in Nat \ {0} /\ Pow2[b_j] <= Pow2[H - 1] /\ Internal(b_j) \in Nat
      /\ Internal(b_j) <= Pow2[b_j] /\ Pow2[b_j] + Internal(b_j) <= M
  BY <1>2, LevelSizes
<1>4. BFS_MAX_LEVEL_NODES = Pow2[H - 1]
  BY DEF BFS_MAX_LEVEL_NODES
<1> QED
  BY <1>1, <1>2, <1>3, <1>4 DEF Nodes, IsLeaf

\* Nodes of a batch, which have children.
LEMMA BatchNodes ==
  ASSUME BfsInv, b_pc = "partial"
  PROVE  /\ b_batch \in Seq(Nodes) /\ ToSet(b_batch) \subseteq b_assigned
         /\ \A k \in ToSet(b_batch) :
              /\ k \in Nat /\ Pow2[b_j] <= k /\ k < Pow2[b_j] + b_ki /\ ~IsLeaf(k)
<1>1. /\ b_batch \in Seq(Nodes) /\ ToSet(b_batch) \subseteq b_assigned
      /\ ToSet(b_batch) \subseteq Pow2[b_j]..Pow2[b_j]+b_ki-1
      /\ b_j \in 0..H /\ b_ki \in Nat
      /\ b_j < H => b_ki <= Internal(b_j)
      /\ b_j = H => b_batch = <<>>
  BY DEF BfsInv, BfsTyped, BfsTypeOK, VerifierSweeps
<1>2. CASE b_j = H
  BY <1>1, <1>2 DEF ToSet
<1>3. CASE b_j # H
  <2>1. b_j \in 0..H-1 /\ b_j < H /\ M \in Nat
    BY <1>1, <1>3, Sizes
  <2>2. /\ Pow2[b_j] \in Nat /\ Pow2[b_j] + Internal(b_j) <= M /\ Internal(b_j) \in Nat
    BY <2>1, LevelSizes
  <2> QED
    BY <1>1, <2>1, <2>2 DEF IsLeaf
<1> QED
  BY <1>2, <1>3

\* A node joins the batch, or is passed, or completes the batch.
LEMMA ScanInv == ASSUME BfsInv, Scan PROVE BfsInv'
<1> DEFINE k == Pow2[b_j] + b_ki
           joined == IF k \in b_assigned THEN Append(b_batch, k) ELSE b_batch
           nodes == GetNodeIndexesInPath(HiddenNodes)
<1>1. /\ Scanning /\ b_pc = "partial" /\ b_j < H /\ b_ki' = b_ki + 1
      /\ UNCHANGED <<b_vlseed, b_j, b_pc>> /\ SignerIdle
      /\ IF Len(joined) = b_width
         THEN b_batch' = <<>> /\ Derive(ToSet(joined))
         ELSE b_batch' = joined /\ UNCHANGED <<b_vnode, b_assigned>>
  BY DEF Scan, Scanning
<1>2. /\ SignerBuilds' /\ HiddenNodes' = HiddenNodes
      /\ UNCHANGED <<b_width, b_hidden, b_cur, b_nxt, b_lseed, b_node>>
  BY <1>1, SignerIdleKeeps
<1>3. /\ b_j \in 0..H-1 /\ b_ki \in Nat
      /\ Pow2[b_j] \in Nat \ {0} /\ k \in Nodes /\ k \in Nat /\ ~IsLeaf(k)
      /\ b_ki + 1 <= Internal(b_j) /\ b_ki + 1 \in 0..BFS_MAX_LEVEL_NODES
      /\ Pow2[b_j] + (b_ki + 1) <= 2 * Pow2[b_j]
  BY <1>1, ScannedNode, NodesSmall
<1>4. /\ BfsTypeOK /\ b_batch \in Seq(Nodes)
      /\ b_assigned \subseteq Nodes \ HiddenNodes /\ ToSet(nodes) \subseteq b_assigned
      /\ \A c \in b_assigned : b_vnode[c] = c
      /\ ToSet(b_batch) \subseteq b_assigned
      /\ SweptClosed /\ Len(b_batch) < b_width /\ b_width \in Nat \ {0}
  BY <1>1, WidthIsNat DEF BfsInv, BfsTyped, BfsTypeOK, VerifierSweeps
<1>5. \A c \in ToSet(b_batch) : c \in Nat /\ Pow2[b_j] <= c /\ c < Pow2[b_j] + b_ki /\ ~IsLeaf(c)
  BY <1>1, BatchNodes
<1>6. /\ joined \in Seq(Nodes) /\ Len(joined) <= b_width /\ Len(joined) \in Nat
      /\ ToSet(joined) = IF k \in b_assigned THEN ToSet(b_batch) \cup {k} ELSE ToSet(b_batch)
  <2>1. /\ Append(b_batch, k) \in Seq(Nodes) /\ Len(Append(b_batch, k)) = Len(b_batch) + 1
        /\ Len(b_batch) \in Nat /\ ToSet(Append(b_batch, k)) = ToSet(b_batch) \cup {k}
    BY <1>3, <1>4, AppendFacts
  <2> HIDE DEF k
  <2>2. CASE k \in b_assigned
    BY <1>4, <2>1, <2>2
  <2>3. CASE k \notin b_assigned
    BY <1>4, <2>1, <2>3
  <2> QED
    BY <2>2, <2>3
<1>7. /\ ToSet(joined) \subseteq b_assigned
      /\ \A c \in ToSet(joined) : c \in Nat /\ Pow2[b_j] <= c
                                  /\ c < Pow2[b_j] + (b_ki + 1) /\ ~IsLeaf(c)
  <2>1. Pow2[b_j] <= k /\ k < Pow2[b_j] + (b_ki + 1)
    BY <1>3
  <2>2. \A c \in Nat : c < Pow2[b_j] + b_ki => c < Pow2[b_j] + (b_ki + 1)
    BY <1>3
  <2> HIDE DEF k, joined
  <2> QED
    BY <1>3, <1>4, <1>5, <1>6, <2>1, <2>2
<1>8. \A c \in b_assigned : ~IsLeaf(c) /\ c < Pow2[b_j] + (b_ki + 1) /\ c \notin ToSet(joined) =>
        {2 * c, 2 * c + 1} \subseteq b_assigned
  <2>1. ASSUME NEW c \in b_assigned, ~IsLeaf(c), c < Pow2[b_j] + (b_ki + 1),
               c \notin ToSet(joined)
        PROVE  {2 * c, 2 * c + 1} \subseteq b_assigned
    <3>1. c # k /\ c \notin ToSet(b_batch)
      <4> HIDE DEF k, joined
      <4> QED
        BY <1>6, <2>1
    <3>2. c \in Nat
      BY <1>4, NodesSmall
    <3>3. c < Pow2[b_j] + b_ki
      BY <1>3, <2>1, <3>1, <3>2
    <3> QED
      BY <1>4, <2>1, <3>1, <3>3 DEF SweptClosed
  <2> QED
    BY <2>1
<1>9. nodes' = nodes /\ Internal(b_j)' = Internal(b_j) /\ Pow2[b_j]' = Pow2[b_j]
  BY <1>1, <1>2 DEF Internal
<1> HIDE DEF k, joined, nodes
<1>10. CASE Len(joined) = b_width
  <2>1. b_batch' = <<>> /\ Derive(ToSet(joined)) /\ ToSet(<<>>) = {} /\ Len(<<>>) = 0
        /\ <<>> \in Seq(Nodes)
    BY <1>1, <1>10 DEF ToSet
  <2>2. Derived(ToSet(joined))
    BY <1>1, <1>7, <2>1, DeriveMarks
  <2>3. BfsTyped'
    BY <1>1, <1>2, <1>3, <1>4, <2>1, <2>2 DEF BfsTyped, BfsTypeOK, Derived
  <2>4. SweptClosed'
    <3>1. ASSUME NEW c \in b_assigned', ~IsLeaf(c), c < Pow2[b_j] + (b_ki + 1)
          PROVE  {2 * c, 2 * c + 1} \subseteq b_assigned'
      <4>1. CASE c \in ToSet(joined)
        BY <2>2, <4>1 DEF Derived
      <4>2. CASE c \in b_assigned /\ c \notin ToSet(joined)
        BY <1>8, <2>2, <3>1, <4>2 DEF Derived
      <4>3. CASE c \notin b_assigned
        <5>1. PICK d \in ToSet(joined) : c \in {2 * d, 2 * d + 1}
          BY <2>2, <4>3 DEF Derived
        <5>2. d \in Nat /\ Pow2[b_j] <= d
          BY <1>7
        <5> QED
          BY <1>3, <3>1, <5>1, <5>2
      <4> QED
        BY <4>1, <4>2, <4>3
    <3> QED
      BY <1>1, <1>9, <3>1 DEF SweptClosed
  <2>5. VerifierSweeps'
    <3>1. /\ b_assigned' \subseteq Nodes \ HiddenNodes /\ ToSet(nodes) \subseteq b_assigned'
          /\ \A c \in b_assigned' : b_vnode'[c] = c
          /\ ToSet(b_batch') \subseteq b_assigned'
      BY <1>4, <2>1, <2>2 DEF Derived
    <3> QED
      BY <1>1, <1>2, <1>3, <1>9, <2>1, <2>4, <3>1 DEF VerifierSweeps, nodes
  <2> QED
    BY <1>2, <2>3, <2>5 DEF BfsInv
<1>11. CASE Len(joined) # b_width
  <2>1. b_batch' = joined /\ b_vnode' = b_vnode /\ b_assigned' = b_assigned
        /\ Len(joined) < b_width
    BY <1>1, <1>4, <1>6, <1>11
  <2>2. ToSet(joined) \subseteq Pow2[b_j]..Pow2[b_j]+(b_ki+1)-1
    <3>1. \A c \in ToSet(joined) : c \in Nat /\ Pow2[b_j] <= c /\ c < Pow2[b_j] + (b_ki + 1)
      BY <1>7
    <3>2. Pow2[b_j] \in Int /\ b_ki \in Int
      BY <1>3
    <3> QED
      BY <3>1, <3>2
  <2>3. BfsTyped'
    BY <1>1, <1>2, <1>3, <1>4, <1>6, <2>1, <2>2 DEF BfsTyped, BfsTypeOK
  <2>4. SweptClosed'
    BY <1>1, <1>8, <1>9, <2>1 DEF SweptClosed
  <2>5. VerifierSweeps'
    BY <1>1, <1>2, <1>3, <1>4, <1>7, <1>9, <2>1, <2>4 DEF VerifierSweeps, nodes
  <2> QED
    BY <1>2, <2>3, <2>5 DEF BfsInv
<1> QED
  BY <1>10, <1>11

\* Part of the tail of a level is derived, and leaves the batch.
LEMMA TailPartInv ==
  ASSUME BfsInv, Swept, NEW ks, NEW rest \in Seq(Nodes),
         ks \subseteq ToSet(b_batch), ToSet(rest) \subseteq ToSet(b_batch),
         ToSet(b_batch) \subseteq ks \cup ToSet(rest), Len(rest) <= Len(b_batch),
         Derive(ks), b_batch' = rest, UNCHANGED <<b_vlseed, b_j, b_ki, b_pc>>, SignerIdle
  PROVE  BfsInv'
<1> DEFINE nodes == GetNodeIndexesInPath(HiddenNodes)
<1>1. /\ b_pc = "partial" /\ b_pc' = b_pc /\ b_j < H /\ b_ki = Internal(b_j)
      /\ b_j' = b_j /\ b_ki' = b_ki /\ b_vlseed' = b_vlseed
  BY DEF Swept
<1>2. /\ SignerBuilds' /\ HiddenNodes' = HiddenNodes
      /\ UNCHANGED <<b_width, b_hidden, b_cur, b_nxt, b_lseed, b_node>>
  BY <1>1, SignerIdleKeeps
<1>3. /\ BfsTypeOK /\ b_j \in 0..H /\ b_ki \in Nat /\ ToSet(nodes) \subseteq b_assigned
      /\ SweptClosed /\ b_width \in Nat \ {0} /\ Len(b_batch) < b_width
      /\ b_assigned \subseteq Nodes
      /\ b_batch \in Seq(Nodes) /\ ToSet(b_batch) \subseteq Pow2[b_j]..Pow2[b_j]+b_ki-1
  BY <1>1, WidthIsNat DEF BfsInv, BfsTyped, BfsTypeOK, VerifierSweeps
<1>4. /\ ToSet(b_batch) \subseteq b_assigned
      /\ \A c \in ToSet(b_batch) : c \in Nat /\ Pow2[b_j] <= c /\ ~IsLeaf(c)
  BY <1>1, BatchNodes
<1>5. b_j \in 0..H-1 /\ ~(b_j = H)
  BY <1>1, <1>3, Sizes
<1>6. /\ Pow2[b_j] \in Nat \ {0} /\ Internal(b_j) \in Nat /\ Internal(b_j) <= Pow2[b_j]
  BY <1>5, LevelSizes
<1>7. Len(rest) \in Nat /\ Len(b_batch) \in Nat /\ Len(rest) < b_width
  <2>1. Len(rest) \in Nat /\ Len(b_batch) \in Nat
    BY <1>3
  <2> QED
    BY <1>3, <2>1
<1> HIDE DEF nodes
<1>8. Derived(ks)
  BY <1>1, <1>4, DeriveMarks
<1>9. nodes' = nodes /\ Internal(b_j)' = Internal(b_j) /\ Pow2[b_j]' = Pow2[b_j]
  BY <1>1, <1>2 DEF nodes, Internal
<1>10. BfsTyped'
  <2>1. ToSet(rest) \subseteq Pow2[b_j]..Pow2[b_j]+b_ki-1
    BY <1>3
  <2> QED
    BY <1>1, <1>2, <1>3, <1>7, <1>8, <2>1 DEF BfsTyped, BfsTypeOK, Derived
<1>11. SweptClosed'
  <2>1. ASSUME NEW c \in b_assigned', ~IsLeaf(c), c < Pow2[b_j] + b_ki, c \notin ToSet(rest)
        PROVE  {2 * c, 2 * c + 1} \subseteq b_assigned'
    <3>1. CASE c \in ks
      BY <1>8, <3>1 DEF Derived
    <3>2. CASE c \in b_assigned /\ c \notin ks
      <4>1. c \notin ToSet(b_batch)
        BY <2>1, <3>2
      <4>2. {2 * c, 2 * c + 1} \subseteq b_assigned
        BY <1>3, <2>1, <3>2, <4>1 DEF SweptClosed
      <4> QED
        BY <1>8, <4>2 DEF Derived
    <3>3. CASE c \notin b_assigned
      <4>1. PICK d \in ks : c \in {2 * d, 2 * d + 1}
        BY <1>8, <3>3 DEF Derived
      <4>2. d \in Nat /\ Pow2[b_j] <= d
        BY <1>4
      <4> QED
        BY <1>1, <1>3, <1>6, <2>1, <4>1, <4>2
    <3> QED
      BY <3>1, <3>2, <3>3
  <2> QED
    BY <1>1, <2>1 DEF SweptClosed
<1>12. VerifierSweeps'
  <2>1. /\ b_assigned' \subseteq Nodes \ HiddenNodes /\ ToSet(nodes) \subseteq b_assigned'
        /\ \A c \in b_assigned' : b_vnode'[c] = c
        /\ ToSet(b_batch') \subseteq b_assigned'
    BY <1>3, <1>4, <1>8 DEF Derived
  <2>2. b_ki <= Internal(b_j)
    BY <1>1, <1>6
  <2> QED
    BY <1>1, <1>2, <1>5, <1>9, <1>11, <2>1, <2>2 DEF VerifierSweeps, nodes
<1> QED
  BY <1>2, <1>10, <1>12 DEF BfsInv

\* Of a tail of four or more, the first four are derived, and the others are the batch.
LEMMA TailOfFourInv == ASSUME BfsInv, TailOfFour PROVE BfsInv'
<1> DEFINE ks == {b_batch[b] : b \in 1..4}
           rest == ShiftedDown
<1>1. /\ Swept /\ Len(b_batch) >= 4 /\ Derive(ks) /\ b_batch' = rest
      /\ UNCHANGED <<b_vlseed, b_j, b_ki, b_pc>> /\ SignerIdle
  BY DEF TailOfFour
<1>2. b_batch \in Seq(Nodes) /\ Len(b_batch) \in Nat
  BY DEF BfsInv, BfsTyped
<1>3. /\ rest \in Seq(Nodes) /\ Len(rest) = Len(b_batch) - 4
      /\ \A b \in 1..Len(b_batch)-4 : rest[b] = b_batch[b + 4]
  <2>1. Len(b_batch) - 4 \in Nat
    BY <1>1, <1>2
  <2>2. \A b \in 1..Len(b_batch)-4 : b + 4 \in 1..Len(b_batch) /\ b_batch[b + 4] \in Nodes
    BY <1>2
  <2>3. rest = [b \in 1..Len(b_batch)-4 |-> b_batch[b + 4]]
    BY DEF ShiftedDown
  <2> HIDE DEF rest
  <2>4. DOMAIN rest = 1..Len(b_batch)-4 /\ \A b \in 1..Len(b_batch)-4 : rest[b] = b_batch[b + 4]
    BY <2>3
  <2>5. rest \in Seq(Nodes)
    BY <2>1, <2>2, <2>3
  <2>6. Len(rest) = Len(b_batch) - 4
    BY <2>1, <2>4, <2>5
  <2> QED
    BY <2>4, <2>5, <2>6
<1>4. ks \subseteq ToSet(b_batch)
  BY <1>1, <1>2 DEF ToSet
<1>5. ToSet(rest) \subseteq ToSet(b_batch)
  <2> HIDE DEF rest
  <2>1. ASSUME NEW b \in 1..Len(rest) PROVE rest[b] = b_batch[b + 4] /\ b + 4 \in 1..Len(b_batch)
    BY <1>1, <1>2, <1>3
  <2>2. DOMAIN rest = 1..Len(rest) /\ DOMAIN b_batch = 1..Len(b_batch)
    BY <1>2, <1>3
  <2> QED
    BY <2>1, <2>2 DEF ToSet
<1>6. ToSet(b_batch) \subseteq ks \cup ToSet(rest)
  <2> HIDE DEF rest
  <2>1. DOMAIN rest = 1..Len(rest) /\ DOMAIN b_batch = 1..Len(b_batch)
    BY <1>2, <1>3
  <2>2. ASSUME NEW b \in 1..Len(b_batch) PROVE b_batch[b] \in ks \cup ToSet(rest)
    <3>1. CASE b <= 4
      <4>1. b \in 1..4
        BY <1>2, <3>1
      <4> QED
        BY <4>1
    <3>2. CASE b > 4
      <4>1. b - 4 \in 1..Len(b_batch)-4 /\ (b - 4) + 4 = b
        BY <1>2, <3>2
      <4>2. rest[b - 4] = b_batch[b] /\ b - 4 \in 1..Len(rest)
        BY <1>3, <4>1
      <4> QED
        BY <2>1, <4>2 DEF ToSet
    <3> QED
      BY <1>2, <3>1, <3>2
  <2> HIDE DEF ks
  <2> QED
    BY <2>1, <2>2 DEF ToSet
<1>7. Len(rest) <= Len(b_batch)
  BY <1>2, <1>3
<1> HIDE DEF ks, rest
<1> QED
  BY <1>1, <1>3, <1>4, <1>5, <1>6, <1>7, TailPartInv

\* One of the last nodes of a tail is derived.
LEMMA TailNodeInv == ASSUME BfsInv, TailNode PROVE BfsInv'
<1> DEFINE ks == {Head(b_batch)}
           rest == Tail(b_batch)
<1>1. /\ Swept /\ Len(b_batch) \in 1..3 /\ Derive(ks) /\ b_batch' = rest
      /\ UNCHANGED <<b_vlseed, b_j, b_ki, b_pc>> /\ SignerIdle
  BY DEF TailNode
<1>2. b_batch \in Seq(Nodes) /\ Len(b_batch) \in Nat /\ b_batch # <<>>
  BY <1>1 DEF BfsInv, BfsTyped
<1>3. /\ rest \in Seq(Nodes) /\ Len(rest) = Len(b_batch) - 1 /\ Head(b_batch) = b_batch[1]
      /\ \A b \in 1..Len(rest) : rest[b] = b_batch[b + 1]
  BY <1>1, <1>2
<1> HIDE DEF rest
<1>4. DOMAIN rest = 1..Len(rest) /\ DOMAIN b_batch = 1..Len(b_batch)
  BY <1>2, <1>3
<1>5. ks \subseteq ToSet(b_batch)
  BY <1>1, <1>3, <1>4 DEF ToSet
<1>6. ToSet(rest) \subseteq ToSet(b_batch)
  <2>1. \A b \in 1..Len(rest) : rest[b] = b_batch[b + 1] /\ b + 1 \in 1..Len(b_batch)
    BY <1>2, <1>3
  <2> QED
    BY <1>4, <2>1 DEF ToSet
<1>7. ToSet(b_batch) \subseteq ks \cup ToSet(rest)
  <2>1. ASSUME NEW b \in 1..Len(b_batch) PROVE b_batch[b] \in ks \cup ToSet(rest)
    <3>1. CASE b = 1
      BY <1>3, <3>1
    <3>2. CASE b # 1
      <4>1. b - 1 \in 1..Len(rest) /\ (b - 1) + 1 = b
        BY <1>2, <1>3, <3>2
      <4>2. rest[b - 1] = b_batch[b]
        BY <1>3, <4>1
      <4> QED
        BY <1>4, <4>1, <4>2 DEF ToSet
    <3> QED
      BY <3>1, <3>2
  <2> HIDE DEF ks
  <2> QED
    BY <1>4, <2>1 DEF ToSet
<1>8. Len(rest) <= Len(b_batch)
  BY <1>2, <1>3
<1> HIDE DEF ks
<1> QED
  BY <1>1, <1>3, <1>5, <1>6, <1>7, <1>8, TailPartInv

\* The next level begins when nothing is left of this one.
LEMMA LevelEndsInv == ASSUME BfsInv, LevelEnds PROVE BfsInv'
<1> DEFINE nodes == GetNodeIndexesInPath(HiddenNodes)
<1>1. /\ b_pc = "partial" /\ b_pc' = b_pc /\ b_j < H /\ b_ki = Internal(b_j)
      /\ b_batch = <<>> /\ b_j' = b_j + 1 /\ b_ki' = 0
      /\ UNCHANGED <<b_vnode, b_assigned, b_batch, b_vlseed>> /\ SignerIdle
  BY DEF LevelEnds, Swept
<1>2. /\ SignerBuilds' /\ HiddenNodes' = HiddenNodes
      /\ UNCHANGED <<b_width, b_hidden, b_cur, b_nxt, b_lseed, b_node>>
  BY <1>1, SignerIdleKeeps
<1>3. /\ BfsTypeOK /\ b_j \in 0..H /\ ToSet(nodes) \subseteq b_assigned
      /\ SweptClosed /\ b_width \in Nat \ {0}
      /\ b_assigned \subseteq Nodes \ HiddenNodes
      /\ \A c \in b_assigned : b_vnode[c] = c
  BY <1>1, WidthIsNat DEF BfsInv, BfsTyped, BfsTypeOK, VerifierSweeps
<1>5. b_j \in 0..H-1
  BY <1>1, <1>3, Sizes
<1>6. /\ Pow2[b_j] \in Nat \ {0} /\ Pow2[b_j + 1] = 2 * Pow2[b_j] /\ b_j + 1 \in 0..H
      /\ b_j < H - 1 => Internal(b_j) = Pow2[b_j]
      /\ b_j = H - 1 => Pow2[b_j] + Internal(b_j) = M
      /\ M \in Nat
  BY <1>5, LevelSizes, Sizes
<1>7. /\ ToSet(<<>>) = {} /\ Len(<<>>) = 0 /\ <<>> \in Seq(Nodes)
      /\ ToSet(b_batch) = {} /\ ToSet(b_batch') = {} /\ BFS_MAX_LEVEL_NODES \in Nat
  BY <1>1, Sizes DEF ToSet, BFS_MAX_LEVEL_NODES
<1> HIDE DEF nodes
<1>9. nodes' = nodes
  BY <1>2 DEF nodes
<1>10. BfsTyped'
  BY <1>1, <1>2, <1>3, <1>6, <1>7 DEF BfsTyped, BfsTypeOK
<1>11. SweptClosed'
  <2>1. ASSUME NEW c \in b_assigned, ~IsLeaf(c), c < Pow2[b_j + 1] + 0
        PROVE  {2 * c, 2 * c + 1} \subseteq b_assigned
    <3>1. c \in Nat /\ c < M
      BY <1>3, <2>1, NodesSmall, Sizes DEF IsLeaf
    <3>2. c < Pow2[b_j] + Internal(b_j)
      <4>1. CASE b_j < H - 1
        BY <1>6, <2>1, <3>1, <4>1
      <4>2. CASE b_j = H - 1
        BY <1>6, <3>1, <4>2
      <4> QED
        BY <1>5, <4>1, <4>2, Sizes
    <3> QED
      BY <1>1, <1>3, <1>7, <2>1, <3>2 DEF SweptClosed
  <2> QED
    BY <1>1, <2>1 DEF SweptClosed
<1>12. VerifierSweeps'
  <2>1. b_j + 1 < H => 0 <= Internal(b_j + 1)
    <3>1. ASSUME b_j + 1 < H PROVE b_j + 1 \in 0..H-1
      BY <1>5, <3>1, Sizes
    <3> QED
      BY <3>1, LevelSizes
  <2>2. Internal(b_j)' = Internal(b_j + 1)
    BY <1>1 DEF Internal, BFS_NB_INT_H1
  <2> QED
    BY <1>1, <1>2, <1>3, <1>7, <1>9, <1>11, <2>1, <2>2 DEF VerifierSweeps, nodes
<1> QED
  BY <1>2, <1>10, <1>12 DEF BfsInv

\* A set of nodes with the children of each has the nodes below each.
LEMMA ClosedDownwards ==
  ASSUME NEW S, S \subseteq Nodes, \A k \in S : ~IsLeaf(k) => {2 * k, 2 * k + 1} \subseteq S,
         NEW g \in S, NEW n \in Nodes, Under(n, g)
  PROVE  n \in S
<1> DEFINE U == Nodes \ S
<1> SUFFICES ASSUME n \notin S PROVE FALSE
  OBVIOUS
<1>1. U \subseteq Nat /\ n \in U
  BY NodesSmall
<1>2. ASSUME NEW c \in U, c > 1 PROVE c \div 2 \in U
  <2>1. c \in Nodes /\ c \in Nat /\ c \div 2 \in Nodes /\ c < 2 * M
    BY <1>2, NodesSmall, Sizes DEF Nodes
  <2>2. ~IsLeaf(c \div 2)
    BY <2>1, Sizes DEF IsLeaf
  <2>3. c \in {2 * (c \div 2), 2 * (c \div 2) + 1}
    BY <2>1
  <2> QED
    BY <1>2, <2>1, <2>2, <2>3
<1> HIDE DEF U
<1>3. g \in U
  BY <1>1, <1>2, ClosedUpwards
<1> QED
  BY <1>3 DEF U

\* The leaves, at the end of the sweep.
LEMMA CopyLeavesInv == ASSUME BfsInv, CopyLeaves PROVE BfsInv'
<1> DEFINE nodes == GetNodeIndexesInPath(HiddenNodes)
<1>1. /\ b_pc = "partial" /\ b_pc' = "done" /\ b_j = H
      /\ UNCHANGED <<b_vnode, b_assigned, b_batch, b_j, b_ki>> /\ SignerIdle
      /\ b_vlseed' = [i \in Leaves |-> IF LeafPosition(i) \in b_assigned
                                       THEN b_vnode[LeafPosition(i)] ELSE ZeroSeed]
  BY DEF CopyLeaves
<1>2. /\ SignerBuilds' /\ HiddenNodes' = HiddenNodes
      /\ UNCHANGED <<b_width, b_hidden, b_cur, b_nxt, b_lseed, b_node>>
      /\ OpeningNodes(HiddenNodes, nodes)
  BY <1>1, SignerIdleKeeps
<1>3. /\ BfsTypeOK /\ b_batch \in Seq(Nodes) /\ b_ki = 0 /\ b_batch = <<>>
      /\ b_assigned \subseteq Nodes \ HiddenNodes /\ ToSet(nodes) \subseteq b_assigned
      /\ \A c \in b_assigned : b_vnode[c] = c
      /\ SweptClosed
  BY <1>1 DEF BfsInv, BfsTyped, VerifierSweeps
<1> HIDE DEF nodes
<1>4. ToSet(b_batch) = {}
  BY <1>3 DEF ToSet
<1>5. ASSUME NEW c \in b_assigned, ~IsLeaf(c) PROVE {2 * c, 2 * c + 1} \subseteq b_assigned
  <2>1. c \in Nat /\ c < M /\ M \in Nat /\ M <= Pow2[H] /\ Pow2[H] \in Nat
    BY <1>3, <1>5, NodesSmall, Sizes DEF IsLeaf
  <2>2. c < Pow2[b_j] + b_ki
    BY <1>1, <1>3, <2>1
  <2> QED
    BY <1>3, <1>4, <1>5, <2>2 DEF SweptClosed
<1>6. ASSUME NEW n \in Nodes \ HiddenNodes, IsLeaf(n) PROVE n \in b_assigned
  <2>1. PICK pos \in 1..Len(nodes) : Under(n, nodes[pos])
    BY <1>2, <1>6 DEF OpeningNodes, Covered
  <2>2. nodes[pos] \in ToSet(nodes)
    BY <1>2 DEF OpeningNodes, ToSet
  <2>3. nodes[pos] \in b_assigned /\ b_assigned \subseteq Nodes
    BY <1>3, <2>2
  <2> QED
    BY <1>5, <2>1, <2>3, ClosedDownwards
<1>7. \A i \in Leaves : b_vlseed'[i] = IF LeafPosition(i) \in HiddenNodes
                                       THEN ZeroSeed ELSE LeafPosition(i)
  <2>1. \A i \in Leaves : LeafPosition(i) \in Nodes /\ IsLeaf(LeafPosition(i))
    BY Positions
  <2> QED
    BY <1>1, <1>3, <1>6, <2>1
<1>8. b_vlseed' \in [Leaves -> Seeds]
  <2>1. \A i \in Leaves : b_vlseed'[i] \in Seeds
    BY <1>7, Positions DEF Seeds
  <2>2. b_vlseed' = [i \in Leaves |-> b_vlseed'[i]]
    BY <1>1
  <2> QED
    BY <2>1, <2>2
<1>9. BfsTyped'
  BY <1>1, <1>2, <1>3, <1>8 DEF BfsTyped, BfsTypeOK
<1>10. VerifierSweeps'
  <2>1. SweptClosed'
    BY <1>1, <1>5 DEF SweptClosed
  <2>2. nodes' = nodes /\ Internal(b_j)' = Internal(b_j)
    BY <1>1, <1>2 DEF nodes, Internal
  <2>3. /\ b_assigned' \subseteq Nodes \ HiddenNodes /\ ToSet(nodes) \subseteq b_assigned'
        /\ \A c \in b_assigned' : b_vnode'[c] = c
        /\ ToSet(b_batch') \subseteq b_assigned' /\ b_ki' = 0 /\ b_batch' = <<>> /\ b_j' = H
    BY <1>1, <1>3, <1>4
  <2>4. ~(H < H)
    BY Sizes
  <2> QED
    BY <1>1, <1>2, <1>7, <2>1, <2>2, <2>3, <2>4 DEF VerifierSweeps, nodes
<1> QED
  BY <1>2, <1>9, <1>10 DEF BfsInv

\* Every step keeps the invariant.
LEMMA BfsNextInv == BfsInv /\ [BfsNext]_bfs_vars => BfsInv'
<1> SUFFICES ASSUME BfsInv, [BfsNext]_bfs_vars PROVE BfsInv'
  OBVIOUS
<1>1. CASE LeavesLevel
  BY <1>1, LeavesLevelInv
<1>2. CASE LeavesLast
  BY <1>2, LeavesLastInv
<1>3. CASE ExpandLevel
  BY <1>3, ExpandLevelInv
<1>4. CASE ExpandPathEnds
  BY <1>4, ExpandPathInv
<1>5. CASE CopyPath
  BY <1>5, CopyPathInv
<1>6. CASE Scan
  BY <1>6, ScanInv
<1>7. CASE LevelEnds
  BY <1>7, LevelEndsInv
<1>8. CASE CopyLeaves
  BY <1>8, CopyLeavesInv
<1>11. CASE TailOfFour
  BY <1>11, TailOfFourInv
<1>12. CASE TailNode
  BY <1>12, TailNodeInv
<1>9. CASE BfsFails
  <2>1. /\ b_pc' = "error"
        /\ UNCHANGED <<b_width, b_hidden, b_cur, b_nxt, b_lseed, b_node, b_path, b_hidden_lseeds,
                       b_vnode, b_assigned, b_batch, b_vlseed, b_j, b_ki>>
    BY <1>9 DEF BfsFails, rolling, revealed
  <2>2. BfsTyped'
    BY <2>1 DEF BfsInv, BfsTyped, BfsTypeOK
  <2>3. SignerBuilds' /\ VerifierSweeps'
    BY <2>1 DEF SignerBuilds, VerifierSweeps
  <2> QED
    BY <2>2, <2>3 DEF BfsInv
<1>10. CASE UNCHANGED bfs_vars
  <2>1. UNCHANGED <<b_width, b_hidden, b_cur, b_nxt, b_lseed, b_node, b_path, b_hidden_lseeds,
                    b_vnode, b_assigned, b_batch, b_vlseed, b_j, b_ki, b_pc>>
    BY <1>10 DEF bfs_vars, rolling, revealed
  <2>2. HiddenNodes' = HiddenNodes /\ \A e : HiddenLeaf(e)' = HiddenLeaf(e)
    BY <2>1, HiddenStays
  <2>3. BfsTyped'
    BY <2>1 DEF BfsInv, BfsTyped, BfsTypeOK
  <2>4. SignerBuilds'
    BY <2>1, <2>2 DEF BfsInv, SignerBuilds
  <2>5. VerifierSweeps'
    <3>1. SweptClosed' <=> SweptClosed
      BY <2>1 DEF SweptClosed
    <3>2. Internal(b_j)' = Internal(b_j)
      BY <2>1 DEF Internal
    <3> QED
      BY <2>1, <2>2, <3>1, <3>2 DEF BfsInv, VerifierSweeps
  <2> QED
    BY <2>3, <2>4, <2>5 DEF BfsInv
<1> QED
  BY <1>1, <1>2, <1>3, <1>4, <1>5, <1>6, <1>7, <1>8, <1>9, <1>10, <1>11, <1>12 DEF BfsNext

\* The invariant holds in every reachable state.
THEOREM BfsInvariant == BfsSpec => []BfsInv
<1>1. BfsInit => BfsInv
  BY BfsInitInv
<1>2. BfsInv /\ [BfsNext]_bfs_vars => BfsInv'
  BY BfsNextInv
<1> QED
  BY <1>1, <1>2, PTL DEF BfsSpec

\* The two expansions of the signer agree, and the verifier's marks say what it holds.
THEOREM BfsLevelInvariant == BfsSpec => []LevelInvariant
<1>1. BfsInv => LevelInvariant
  <2> SUFFICES ASSUME BfsInv PROVE LevelInvariant
    OBVIOUS
  <2>1. BfsTypeOK
    BY DEF BfsInv, BfsTyped
  <2>2. SameTree
    <3> SUFFICES ASSUME b_pc \in {"opened", "partial", "done"} PROVE SameTree
      BY DEF SameTree
    <3>1. /\ \A i \in Leaves : b_lseed[i] = LeafPosition(i)
          /\ \A n \in Nodes : b_node[n] = n
          /\ \A e \in Executions : b_hidden_lseeds[e] = LeafPosition(HiddenLeaf(e))
      BY DEF BfsInv, SignerBuilds
    <3>2. \A e \in Executions : HiddenLeaf(e) \in Leaves
      BY <2>1, BfsHidden, OpeningSetFacts
    <3>3. \A i \in Leaves : LeafPosition(i) \in Nodes
      BY Positions
    <3> QED
      BY <3>1, <3>2, <3>3 DEF SameTree
  <2>3. MarkedIsDerived
    <3> SUFFICES ASSUME b_pc \in {"partial", "done"} PROVE MarkedIsDerived
      BY DEF MarkedIsDerived
    <3>1. /\ b_assigned \subseteq Nodes /\ \A k \in b_assigned : b_vnode[k] = k
          /\ SweptClosed
      BY DEF BfsInv, VerifierSweeps
    <3>2. /\ b_j \in 0..H /\ b_ki \in Nat
          /\ ToSet(b_batch) \subseteq Pow2[b_j]..Pow2[b_j]+b_ki-1
      BY <2>1 DEF BfsTypeOK
    <3>3. Pow2[b_j] \in Nat /\ M \in Nat
      BY <3>2, Powers, Sizes
    <3>4. ASSUME NEW k \in b_assigned, 2 * k < 2 * M, k < Pow2[b_j]
          PROVE  {2 * k, 2 * k + 1} \subseteq b_assigned
      <4>1. k \in Nat
        BY <3>1, NodesSmall
      <4>2. ~IsLeaf(k) /\ k < Pow2[b_j] + b_ki
        BY <3>2, <3>3, <3>4, <4>1 DEF IsLeaf
      <4>3. k \notin ToSet(b_batch)
        BY <3>2, <3>3, <3>4, <4>1
      <4> QED
        BY <3>1, <4>2, <4>3 DEF SweptClosed
    <3> QED
      BY <3>1, <3>4 DEF MarkedIsDerived
  <2> QED
    BY <2>1, <2>2, <2>3 DEF LevelInvariant
<1> QED
  BY <1>1, BfsInvariant, PTL

\* The verifier recovers the leaves the signer committed to, and no hidden one.
THEOREM BfsLeavesRecovered == BfsSpec => []LeavesRecovered
<1>1. BfsInv => LeavesRecovered
  <2> SUFFICES ASSUME BfsInv, b_pc = "done", NEW i \in Leaves
               PROVE  b_vlseed[i] = IF \E e \in Executions : i = HiddenLeaf(e)
                                    THEN ZeroSeed ELSE b_lseed[i]
    BY DEF LeavesRecovered
  <2> DEFINE hid == {HiddenLeaf(e) : e \in Executions}
  <2>1. /\ b_vlseed[i] = IF LeafPosition(i) \in HiddenNodes THEN ZeroSeed ELSE LeafPosition(i)
        /\ b_lseed[i] = LeafPosition(i) /\ BfsTypeOK
    BY DEF BfsInv, BfsTyped, SignerBuilds, VerifierSweeps
  <2>2. PathNodes(hid, HiddenNodes) /\ hid \subseteq Leaves
    BY <2>1, BfsHidden, OpeningSetFacts
  <2>3. LeafPosition(i) \in HiddenNodes <=> i \in hid
    <3>1. IsLeaf(LeafPosition(i)) /\ FromLeafPosition(LeafPosition(i)) = i
      BY Positions
    <3>2. \A x \in hid : FromLeafPosition(LeafPosition(x)) = x
      BY <2>2, Positions
    <3> HIDE DEF hid
    <3> QED
      BY <2>2, <3>1, <3>2 DEF PathNodes
  <2> QED
    BY <2>1, <2>3
<1> QED
  BY <1>1, BfsInvariant, PTL
=============================================================================
