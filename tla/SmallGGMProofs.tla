---------------------------- MODULE SmallGGMProofs -----------------------------
(***************************************************************************)
(* Proofs about the small trees, for every depth, size of a bulk           *)
(* derivation and of the key caches, and every build of the iterators:     *)
(*                                                                         *)
(*   TreeOpens         both openings agree, hide the leaf, and give the    *)
(*                     others back;                                        *)
(*   NothingReadEarly  a bulk derivation reads seeds that were written;    *)
(*   PathKept          the path a context keeps is the path to the unit    *)
(*                     returned last;                                      *)
(*   IteratorsStream   the iterators return the leaves in order.           *)
(*                                                                         *)
(* The lemmas come in the order of the argument: numbers, the levels of    *)
(* the tree, the walk from the root and a bulk derivation; the invariant   *)
(* of the expansions (TreeInv); the path from one unit to the next, the    *)
(* subtree below it and the one with the hidden leaf; and the invariant of *)
(* the iterators (IteratorInv).                                            *)
(***************************************************************************)
EXTENDS SmallGGMIncr, WellFoundedInduction, TLAPS

-----------------------------------------------------------------------------
(***************************************************************************)
(* Numbers, and functions defined by recursion.                            *)
(***************************************************************************)

\* A set of natural numbers with an element has a smallest one.
LEMMA Smallest ==
  ASSUME NEW S, S \subseteq Nat, S # {}
  PROVE  \E x \in S : \A z \in S : x <= z
<1> DEFINE R == {p \in Nat \X Nat : p[1] < p[2]}
<1>1. IsWellFoundedOn(R, Nat)
  BY NatLessThanWellFounded DEF OpToRel
<1> HIDE DEF R
<1>2. PICK x \in S : \A z \in S : <<z, x>> \notin R
  BY <1>1, WFMin
<1>3. ASSUME NEW z \in S PROVE x <= z
  <2>1. <<z, x>> \notin R
    BY <1>2
  <2> QED
    BY <2>1 DEF R
<1> QED
  BY <1>3

\* A set with 0 and with the successor of each of its members below n has all
\* numbers up to n.
LEMMA Upto ==
  ASSUME NEW n \in Nat, NEW T, 0 \in T, \A i \in 0..n-1 : i \in T => i + 1 \in T
  PROVE  \A i \in 0..n : i \in T
<1> DEFINE Bad == {i \in 0..n : i \notin T}
<1>1. ASSUME Bad # {} PROVE FALSE
  <2>1. Bad \subseteq Nat
    OBVIOUS
  <2> HIDE DEF Bad
  <2>2. PICK x \in Bad : \A z \in Bad : x <= z
    BY <1>1, <2>1, Smallest
  <2>3. x \in 0..n /\ x \notin T
    BY <2>2 DEF Bad
  <2>4. x # 0
    BY <2>3
  <2>5. x - 1 \in 0..n-1 /\ x - 1 \in 0..n /\ (x - 1) + 1 = x
    BY <2>3, <2>4
  <2>6. x - 1 \notin T
    BY <2>3, <2>5
  <2>7. x - 1 \in Bad
    BY <2>5, <2>6 DEF Bad
  <2> QED
    BY <2>2, <2>5, <2>7
<1> QED
  BY <1>1

\* A function of 0..n defined by its value at 0 and a step.
LEMMA Recursion ==
  ASSUME NEW S, NEW a \in S, NEW n \in Nat, NEW G \in [1..n -> [S -> S]]
  PROVE  \E f \in [0..n -> S] : f = [i \in 0..n |-> IF i = 0 THEN a ELSE G[i][f[i - 1]]]
<1> DEFINE Is(f, m) == \A i \in 0..m : f[i] = IF i = 0 THEN a ELSE G[i][f[i - 1]]
           T == {m \in 0..n : \E f \in [0..m -> S] : Is(f, m)}
<1>1. 0 \in T
  <2> DEFINE g == [i \in 0..0 |-> a]
  <2>1. g \in [0..0 -> S] /\ Is(g, 0)
    OBVIOUS
  <2> HIDE DEF g, Is
  <2>2. \E f \in [0..0 -> S] : Is(f, 0)
    BY <2>1
  <2>3. 0 \in 0..n
    OBVIOUS
  <2> QED
    BY <2>2, <2>3
<1>2. ASSUME NEW m \in 0..n-1, m \in T PROVE m + 1 \in T
  <2>1. PICK f \in [0..m -> S] : Is(f, m)
    BY <1>2
  <2> DEFINE g == [i \in 0..m+1 |-> IF i = m + 1 THEN G[m + 1][f[m]] ELSE f[i]]
  <2>2. f[m] \in S /\ G[m + 1] \in [S -> S] /\ G[m + 1][f[m]] \in S
    OBVIOUS
  <2>3. g \in [0..m+1 -> S]
    BY <2>2
  <2>4. ASSUME NEW i \in 0..m+1 PROVE g[i] = IF i = 0 THEN a ELSE G[i][g[i - 1]]
    <3>1. CASE i = m + 1
      <4>1. g[i] = G[i][f[m]] /\ i # 0 /\ i - 1 = m /\ m \in 0..m+1 /\ m # m + 1
        BY <3>1
      <4>2. g[m] = f[m]
        BY <4>1
      <4> QED
        BY <4>1, <4>2
    <3>2. CASE i # m + 1
      <4>1. i \in 0..m /\ (i # 0 => i - 1 \in 0..m /\ i - 1 # m + 1)
        BY <3>2
      <4>2. g[i] = f[i] /\ (i # 0 => g[i - 1] = f[i - 1])
        BY <3>2, <4>1
      <4> QED
        BY <2>1, <4>1, <4>2
    <3> QED
      BY <3>1, <3>2
  <2>5. Is(g, m + 1)
    BY <2>4
  <2> HIDE DEF g, Is
  <2> QED
    BY <2>3, <2>5
<1> HIDE DEF T
<1>3. n \in T
  <2>1. \A i \in 0..n : i \in T
    BY <1>1, <1>2, Upto
  <2> QED
    BY <2>1
<1>4. PICK f \in [0..n -> S] : Is(f, n)
  BY <1>3 DEF T
<1> QED
  BY <1>4

\* Quotient and remainder.
LEMMA DivMod ==
  ASSUME NEW a \in Nat, NEW d \in Nat \ {0}
  PROVE  a \div d \in Nat /\ a % d \in 0 .. d - 1 /\ a = d * (a \div d) + (a % d)
OBVIOUS

\* They are the only ones.
LEMMA DivModUnique ==
  ASSUME NEW d \in Nat \ {0}, NEW a, NEW q \in Nat, NEW r \in 0 .. d - 1, a = q * d + r
  PROVE  a \div d = q /\ a % d = r
OBVIOUS

\* Products with twice a number.
LEMMA TwiceProduct ==
  ASSUME NEW a \in Nat, NEW b \in Nat
  PROVE  a * b \in Nat /\ a * (2 * b) = 2 * (a * b) /\ a * b = b * a
OBVIOUS

\* The quotient of a multiple and a rest.
LEMMA DivSum ==
  ASSUME NEW q \in Nat, NEW p \in Nat \ {0}, NEW i \in Nat
  PROVE  (q * p + i) \div p = q + i \div p
<1> DEFINE t == i \div p
           r == i % p
<1>1. t \in Nat /\ r \in 0 .. p - 1 /\ i = p * t + r
  BY DivMod
<1> HIDE DEF t, r
<1>2. q * p + i = (q + t) * p + r
  BY <1>1
<1>3. q + t \in Nat
  BY <1>1
<1>4. (q * p + i) \div p = q + t
  BY <1>1, <1>2, <1>3, DivModUnique
<1> QED
  BY <1>4 DEF t

\* The quotient of less than a product.
LEMMA DivLess ==
  ASSUME NEW q \in Nat, NEW p \in Nat \ {0}, NEW i \in Nat, i < q * p
  PROVE  i \div p < q
<1> DEFINE t == i \div p
           r == i % p
<1>1. t \in Nat /\ r \in 0 .. p - 1 /\ i = p * t + r
  BY DivMod
<1> HIDE DEF t, r
<1>2. ASSUME t >= q PROVE FALSE
  <2>1. PICK u \in Nat : t = q + u
    BY <1>1, <1>2
  <2>2. p * t = q * p + p * u /\ p * u \in Nat /\ q * p \in Nat
    BY <1>1, <2>1
  <2> QED
    BY <1>1, <2>2
<1>3. t < q
  BY <1>1, <1>2
<1> QED
  BY <1>3 DEF t

\* Dividing by twice as much is halving what was divided.
LEMMA Halve ==
  ASSUME NEW a \in Nat, NEW p \in Nat \ {0}
  PROVE  (a \div p) \div 2 = a \div (2 * p)
<1> DEFINE q == a \div p
           r == a % p
           t == q \div 2
           u == q % 2
<1>1. q \in Nat /\ r \in 0 .. p - 1 /\ a = p * q + r
  BY DivMod
<1> HIDE DEF q, r
<1>2. t \in Nat /\ u \in {0, 1} /\ q = 2 * t + u
  BY <1>1
<1> HIDE DEF t, u
<1>3. a = t * (2 * p) + (u * p + r) /\ 2 * p \in Nat \ {0}
  BY <1>1, <1>2
<1>4. u * p + r \in 0 .. 2 * p - 1
  <2>1. CASE u = 0
    BY <1>1, <2>1
  <2>2. CASE u = 1
    BY <1>1, <2>2
  <2> QED
    BY <1>2, <2>1, <2>2
<1>5. a \div (2 * p) = t
  BY <1>2, <1>3, <1>4, DivModUnique
<1> QED
  BY <1>5 DEF q, t

-----------------------------------------------------------------------------
(***************************************************************************)
(* Powers of two.                                                          *)
(***************************************************************************)

\* The depth of the tree is a number, and the first and the last leaf are others.
LEMMA Depth == LOG \in Nat /\ LOG >= 2 /\ NB_ENC_CTX \in 0..LOG-2
BY SmallTreeAssumption

\* What the recursion gives: powers of two are positive and double.
LEMMA Powers ==
  /\ Pow2[0] = 1
  /\ \A n \in 1..LOG+1 : Pow2[n] = 2 * Pow2[n - 1]
  /\ \A n \in 0..LOG : Pow2[n + 1] = 2 * Pow2[n]
  /\ \A n \in 0..LOG+1 : Pow2[n] \in Nat \ {0}
<1> DEFINE S == Nat \ {0}
           G == [i \in 1..LOG+1 |-> [x \in S |-> 2 * x]]
           Is(f) == f = [n \in 0..LOG+1 |-> IF n = 0 THEN 1 ELSE 2 * f[n - 1]]
<1>1. LOG + 1 \in Nat /\ 1 \in S /\ G \in [1..LOG+1 -> [S -> S]]
  BY Depth
<1>2. \E f : Is(f)
  <2>1. PICK f \in [0..LOG+1 -> S] :
          f = [i \in 0..LOG+1 |-> IF i = 0 THEN 1 ELSE G[i][f[i - 1]]]
    <3> HIDE DEF S, G
    <3> QED
      BY <1>1, Recursion
  <2>2. ASSUME NEW i \in 0..LOG+1 PROVE f[i] = IF i = 0 THEN 1 ELSE 2 * f[i - 1]
    <3>1. CASE i = 0
      BY <2>1, <3>1
    <3>2. CASE i # 0
      <4>1. i - 1 \in 0..LOG+1 /\ i \in 1..LOG+1 /\ f[i - 1] \in S
        BY <1>1, <3>2
      <4>2. G[i][f[i - 1]] = 2 * f[i - 1]
        BY <4>1
      <4> QED
        BY <2>1, <3>2, <4>2
    <3> QED
      BY <3>1, <3>2
  <2>3. Is(f)
    BY <2>2
  <2> QED
    BY <2>3
<1>3. Is(Pow2)
  <2> HIDE DEF Is
  <2>1. Pow2 = CHOOSE f : Is(f)
    BY DEF Pow2, Is
  <2> QED
    BY <1>2, <2>1
<1>4. Pow2[0] = 1 /\ \A n \in 1..LOG+1 : Pow2[n] = 2 * Pow2[n - 1]
  BY <1>1, <1>3
<1>5. ASSUME NEW n \in 0..LOG PROVE Pow2[n + 1] = 2 * Pow2[n]
  <2>1. n + 1 \in 1..LOG+1 /\ (n + 1) - 1 = n
    BY Depth
  <2> QED
    BY <1>4, <2>1
<1> DEFINE T == {n \in Nat : Pow2[n] \in S}
<1>6. \A n \in 0..LOG+1 : n \in T
  <2>1. 0 \in T
    BY <1>4
  <2>2. ASSUME NEW n \in 0..(LOG+1)-1, n \in T PROVE n + 1 \in T
    <3>1. n \in 0..LOG /\ Pow2[n] \in S
      BY <2>2, Depth
    <3> QED
      BY <1>5, <3>1
  <2> HIDE DEF T
  <2> QED
    BY <1>1, <2>1, <2>2, Upto
<1> QED
  BY <1>4, <1>5, <1>6

\* A greater power is at least twice a smaller one.
LEMMA PowersGrow ==
  ASSUME NEW d \in 0..LOG+1, NEW e \in 0..LOG+1, d < e
  PROVE  2 * Pow2[d] <= Pow2[e]
<1>0. LOG \in Nat
  BY Depth
<1> DEFINE m == e - d - 1
           T == {i \in Nat : i <= m => 2 * Pow2[d] <= Pow2[d + 1 + i]}
<1>1. m \in Nat /\ d + 1 + m = e
  BY <1>0
<1>2. 0 \in T
  <2>1. d \in 0..LOG
    BY <1>0
  <2>2. Pow2[d + 1] = 2 * Pow2[d] /\ Pow2[d] \in Nat
    BY <2>1, Powers
  <2> QED
    BY <2>1, <2>2
<1>3. ASSUME NEW i \in 0..m-1, i \in T PROVE i + 1 \in T
  <2>1. d + 1 + i \in 0..LOG /\ (d + 1 + i) + 1 = d + 1 + (i + 1)
    BY <1>0, <1>1
  <2>2. i <= m /\ 2 * Pow2[d] <= Pow2[d + 1 + i]
    BY <1>1, <1>3
  <2>3. Pow2[d + 1 + (i + 1)] = 2 * Pow2[d + 1 + i] /\ Pow2[d + 1 + i] \in Nat
    BY <1>0, <2>1, Powers
  <2>4. 2 * Pow2[d] \in Nat
    BY Powers
  <2>5. 2 * Pow2[d] <= Pow2[d + 1 + (i + 1)]
    BY <2>2, <2>3, <2>4
  <2> QED
    BY <1>3, <2>5
<1>4. m \in T
  <2> HIDE DEF T
  <2>1. \A i \in 0..m : i \in T
    BY <1>1, <1>2, <1>3, Upto
  <2> QED
    BY <1>1, <2>1
<1> QED
  BY <1>1, <1>4

\* A power that is not greater.
LEMMA PowersOrdered ==
  ASSUME NEW d \in 0..LOG+1, NEW e \in 0..LOG+1, d <= e
  PROVE  Pow2[d] <= Pow2[e]
<1>1. Pow2[d] \in Nat /\ Pow2[e] \in Nat
  BY Powers
<1>2. CASE d = e
  BY <1>1, <1>2
<1>3. CASE d < e
  BY <1>1, <1>3, PowersGrow
<1> QED
  BY <1>2, <1>3

\* The power of a sum is the product of the powers.
LEMMA PowProduct ==
  ASSUME NEW a \in 0..LOG+1, NEW b \in 0..LOG+1, a + b <= LOG + 1
  PROVE  Pow2[a + b] = Pow2[a] * Pow2[b]
<1>0. LOG \in Nat
  BY Depth
<1> DEFINE T == {i \in Nat : i <= b => Pow2[a + i] = Pow2[a] * Pow2[i]}
<1>1. 0 \in T
  <2>1. Pow2[a] \in Nat /\ Pow2[0] = 1 /\ a + 0 = a
    BY Powers
  <2> QED
    BY <2>1
<1>2. ASSUME NEW i \in 0..b-1, i \in T PROVE i + 1 \in T
  <2>1. a + i \in 0..LOG /\ i \in 0..LOG /\ (a + i) + 1 = a + (i + 1)
    BY <1>0
  <2>2. Pow2[a + i] = Pow2[a] * Pow2[i]
    BY <1>2
  <2>3. /\ Pow2[a + (i + 1)] = 2 * Pow2[a + i]
        /\ Pow2[i + 1] = 2 * Pow2[i]
    BY <2>1, Powers
  <2>4. Pow2[a] \in Nat /\ Pow2[i] \in Nat
    BY <1>0, <2>1, Powers
  <2>5. Pow2[a] * (2 * Pow2[i]) = 2 * (Pow2[a] * Pow2[i])
    BY <2>4, TwiceProduct
  <2>6. Pow2[a + (i + 1)] = Pow2[a] * Pow2[i + 1]
    BY <2>2, <2>3, <2>5
  <2> QED
    BY <1>2, <2>6
<1>3. b \in T
  <2> HIDE DEF T
  <2>1. b \in Nat /\ \A i \in 0..b : i \in T
    BY <1>1, <1>2, Upto
  <2> QED
    BY <2>1
<1> QED
  BY <1>3

-----------------------------------------------------------------------------
(***************************************************************************)
(* Nodes and levels.                                                       *)
(***************************************************************************)

\* The sizes of the tree.
LEMMA Sizes ==
  /\ LOG \in Nat /\ LOG >= 2
  /\ NB_EVALS \in Nat \ {0} /\ NB_EVALS = Pow2[LOG] /\ 2 * NB_EVALS = Pow2[LOG + 1]
  /\ 4 <= NB_EVALS
<1>1. LOG \in Nat /\ LOG >= 2 /\ LOG \in 0..LOG /\ LOG \in 0..LOG+1
  BY Depth
<1>2. Pow2[LOG] \in Nat \ {0} /\ Pow2[LOG + 1] = 2 * Pow2[LOG]
  BY <1>1, Powers
<1>3. Pow2[2] = 4 /\ Pow2[2] <= Pow2[LOG]
  <2>1. 0 \in 0..LOG /\ 1 \in 0..LOG /\ 2 \in 0..LOG+1
    BY <1>1
  <2>2. Pow2[0 + 1] = 2 * Pow2[0] /\ Pow2[1 + 1] = 2 * Pow2[1] /\ Pow2[0] = 1
    BY <2>1, Powers
  <2>3. Pow2[2] <= Pow2[LOG]
    BY <1>1, <2>1, PowersOrdered
  <2> QED
    BY <2>2, <2>3
<1> QED
  BY <1>1, <1>2, <1>3 DEF NB_EVALS

\* The nodes of level l, and their number.
LEMMA LevelFacts ==
  ASSUME NEW l \in 0..LOG, NEW n, AtLevel(n, l)
  PROVE  /\ n \in Nat \ {0} /\ Pow2[l] <= n /\ n < Pow2[l + 1] /\ Pow2[l + 1] = 2 * Pow2[l]
         /\ Pow2[l] \in Nat \ {0} /\ n < 2 * NB_EVALS
         /\ l >= 1 => n \in SmallNodes /\ AtLevel(n \div 2, l - 1)
         /\ l < LOG => /\ AtLevel(2 * n, l + 1) /\ AtLevel(2 * n + 1, l + 1)
                       /\ 2 * n \in SmallNodes /\ 2 * n + 1 \in SmallNodes
<1>0. LOG \in Nat /\ l \in Nat /\ l + 1 \in 0..LOG+1
  BY Depth
<1>1. Pow2[l] \in Nat \ {0} /\ Pow2[l + 1] = 2 * Pow2[l]
  BY <1>0, Powers
<1>2. n \in Nat \ {0} /\ Pow2[l] <= n /\ n < Pow2[l + 1]
  BY <1>1 DEF AtLevel
<1>3. Pow2[l + 1] <= 2 * NB_EVALS
  <2>1. Pow2[l + 1] <= Pow2[LOG + 1]
    BY <1>0, PowersOrdered
  <2> QED
    BY <2>1, Sizes
<1>4. ASSUME l >= 1 PROVE n \in SmallNodes /\ AtLevel(n \div 2, l - 1)
  <2>1. l - 1 \in 0..LOG /\ (l - 1) + 1 = l
    BY <1>0, <1>4
  <2>2. Pow2[l] = 2 * Pow2[l - 1] /\ Pow2[l - 1] \in Nat \ {0}
    <3>1. l - 1 \in 0..LOG+1
      BY <1>0, <2>1
    <3>2. Pow2[(l - 1) + 1] = 2 * Pow2[l - 1]
      BY <2>1, Powers
    <3> QED
      BY <2>1, <3>1, <3>2, Powers
  <2>3. n \div 2 \in Pow2[l - 1]..2 * Pow2[l - 1] - 1
    BY <1>1, <1>2, <2>2
  <2>4. n >= 2 /\ n <= 2 * NB_EVALS - 1
    BY <1>1, <1>2, <1>3, <2>2, Sizes
  <2> QED
    BY <1>2, <2>1, <2>2, <2>3, <2>4, Sizes DEF AtLevel, SmallNodes
<1>5. ASSUME l < LOG
      PROVE  /\ AtLevel(2 * n, l + 1) /\ AtLevel(2 * n + 1, l + 1)
             /\ 2 * n \in SmallNodes /\ 2 * n + 1 \in SmallNodes
  <2>1. l + 1 \in 0..LOG /\ (l + 1) + 1 \in 0..LOG+1
    BY <1>0, <1>5
  <2>2. Pow2[(l + 1) + 1] = 2 * Pow2[l + 1] /\ Pow2[(l + 1) + 1] <= Pow2[LOG + 1]
    BY <1>0, <2>1, Powers, PowersOrdered
  <2>3. 2 * n >= 2 /\ 2 * n + 1 <= 2 * NB_EVALS - 1 /\ 2 * n + 1 <= Pow2[(l + 1) + 1] - 1
        /\ Pow2[l + 1] <= 2 * n
    BY <1>1, <1>2, <2>2, Sizes
  <2>4. AtLevel(2 * n, l + 1) /\ AtLevel(2 * n + 1, l + 1)
    BY <1>1, <1>2, <2>2, <2>3 DEF AtLevel
  <2> QED
    BY <1>2, <2>3, <2>4, Sizes DEF SmallNodes
<1>6. n < 2 * NB_EVALS
  BY <1>1, <1>2, <1>3, Sizes
<1> QED
  BY <1>1, <1>2, <1>4, <1>5, <1>6

\* A node is at one level only.
LEMMA OneLevel ==
  ASSUME NEW a \in 0..LOG, NEW b \in 0..LOG, NEW n, AtLevel(n, a), AtLevel(n, b)
  PROVE  a = b
<1>0. LOG \in Nat
  BY Depth
<1>1. SUFFICES ASSUME NEW c \in 0..LOG, NEW d \in 0..LOG, AtLevel(n, c), AtLevel(n, d), c < d
               PROVE  FALSE
  BY <1>0
<1>2. c + 1 \in 0..LOG+1 /\ d \in 0..LOG+1 /\ c + 1 <= d
  BY <1>0, <1>1
<1>3. Pow2[c + 1] <= Pow2[d] /\ Pow2[c + 1] \in Nat /\ Pow2[d] \in Nat
  BY <1>2, PowersOrdered, Powers
<1>4. n < Pow2[c + 1] /\ Pow2[d] <= n /\ n \in Nat
  BY <1>1, LevelFacts
<1> QED
  BY <1>3, <1>4

\* A node is at some level.
LEMMA SomeLevel ==
  ASSUME NEW n \in SmallNodes
  PROVE  \E l \in 1..LOG : AtLevel(n, l)
<1>0. LOG \in Nat /\ n \in Nat /\ 2 <= n /\ n < Pow2[LOG + 1] /\ 1 \in 1..LOG
  BY Sizes DEF SmallNodes
<1> DEFINE Bad == {l \in 1..LOG : n < Pow2[l + 1]}
<1>1. LOG \in Bad /\ Bad \subseteq Nat
  BY <1>0
<1> HIDE DEF Bad
<1>2. PICK l \in Bad : \A z \in Bad : l <= z
  BY <1>1, Smallest
<1>3. l \in 1..LOG /\ n < Pow2[l + 1]
  BY <1>2 DEF Bad
<1>4. Pow2[l] <= n
  <2>0. Pow2[l] \in Nat
    BY <1>0, <1>3, Powers
  <2>1. CASE l = 1
    <3>1. Pow2[0 + 1] = 2 * Pow2[0] /\ Pow2[0] = 1
      BY <1>0, Powers
    <3> QED
      BY <1>0, <2>1, <3>1
  <2>2. CASE l # 1
    <3>0. l - 1 \in 1..LOG /\ (l - 1) + 1 = l /\ ~(l <= l - 1)
      BY <1>0, <1>3, <2>2
    <3>1. l - 1 \notin Bad
      BY <1>2, <3>0
    <3>2. ~(n < Pow2[l])
      BY <3>0, <3>1 DEF Bad
    <3> QED
      BY <1>0, <2>0, <3>2
  <2> QED
    BY <2>1, <2>2
<1>5. Pow2[l] \in Nat /\ Pow2[l + 1] \in Nat
  BY <1>0, <1>3, Powers
<1>6. AtLevel(n, l)
  BY <1>0, <1>3, <1>4, <1>5 DEF AtLevel
<1> QED
  BY <1>3, <1>6

\* The sibling is at the same level, under the same parent.
LEMMA SiblingFacts ==
  ASSUME NEW l \in 1..LOG, NEW n, AtLevel(n, l)
  PROVE  /\ AtLevel(Sibling(n), l) /\ Sibling(n) # n /\ Sibling(n) \in SmallNodes
         /\ Sibling(n) \div 2 = n \div 2 /\ Sibling(Sibling(n)) = n
         /\ \A m \in Nat : m \div 2 = n \div 2 => m \in {n, Sibling(n)}
<1>0. LOG \in Nat /\ l \in Nat /\ l \in 0..LOG /\ l - 1 \in 0..LOG /\ (l - 1) + 1 = l
  BY Depth
<1>1. /\ n \in Nat /\ Pow2[l] <= n /\ n < Pow2[l + 1] /\ Pow2[l + 1] = 2 * Pow2[l]
      /\ Pow2[l] = 2 * Pow2[l - 1] /\ Pow2[l - 1] \in Nat /\ n \in SmallNodes
  <2>1. Pow2[(l - 1) + 1] = 2 * Pow2[l - 1] /\ Pow2[l - 1] \in Nat
    BY <1>0, Powers
  <2> QED
    BY <1>0, <2>1, LevelFacts
<1>2. /\ Sibling(n) \in Nat /\ Sibling(n) # n /\ Sibling(n) \div 2 = n \div 2
      /\ Sibling(Sibling(n)) = n /\ \A m \in Nat : m \div 2 = n \div 2 => m \in {n, Sibling(n)}
  <2>1. CASE n % 2 = 0
    BY <1>1, <2>1 DEF Sibling
  <2>2. CASE n % 2 = 1
    BY <1>1, <2>2 DEF Sibling
  <2> QED
    BY <1>1, <2>1, <2>2
<1>3. Sibling(n) \in Pow2[l]..Pow2[l + 1]-1
  BY <1>1 DEF Sibling
<1>4. AtLevel(Sibling(n), l)
  BY <1>3 DEF AtLevel
<1>5. Sibling(n) \in SmallNodes
  BY <1>0, <1>4, LevelFacts
<1> QED
  BY <1>2, <1>4, <1>5

\* Where the ancestors of a leaf are.
LEMMA AncestorFacts ==
  ASSUME NEW i \in LeafNumbers, NEW h \in 0..LOG
  PROVE  /\ Ancestor(i, h) \in Nat \ {0} /\ AtLevel(Ancestor(i, h), LOG - h)
         /\ Ancestor(i, h) = Pow2[LOG - h] + i \div Pow2[h]
         /\ Ancestor(i, 0) = NB_EVALS + i /\ Ancestor(i, LOG) = 1
         /\ h < LOG => /\ Ancestor(i, h + 1) = Ancestor(i, h) \div 2
                       /\ Ancestor(i, h) % 2 = (i \div Pow2[h]) % 2
<1>0. /\ LOG \in Nat /\ h \in Nat /\ LOG - h \in 0..LOG /\ h \in 0..LOG+1 /\ LOG - h \in 0..LOG+1
      /\ (LOG - h) + h = LOG /\ i \in Nat /\ i < NB_EVALS
  BY Sizes DEF LeafNumbers
<1>1. /\ Pow2[h] \in Nat \ {0} /\ Pow2[LOG - h] \in Nat \ {0}
      /\ Pow2[(LOG - h) + 1] = 2 * Pow2[LOG - h]
  BY <1>0, Powers
<1>2. NB_EVALS = Pow2[LOG - h] * Pow2[h]
  BY <1>0, PowProduct, Sizes
<1> DEFINE q == Pow2[LOG - h]
           p == Pow2[h]
           t == i \div p
<1>3. Ancestor(i, h) = q + t
  <2>0. q \in Nat /\ p \in Nat \ {0} /\ i \in Nat
    BY <1>0, <1>1
  <2> HIDE DEF q, p
  <2>1. (q * p + i) \div p = q + i \div p
    BY ONLY <2>0, DivSum
  <2> QED
    BY <1>2, <2>1 DEF Ancestor, q, p
<1>4. t \in Nat /\ t < q
  <2> HIDE DEF q, p
  <2>1. i < q * p
    BY <1>0, <1>2 DEF q, p
  <2>2. i \div p < q /\ i \div p \in Nat
    BY <1>0, <1>1, <2>1, DivLess, DivMod DEF q, p
  <2> QED
    BY <2>2
<1>5. AtLevel(Ancestor(i, h), LOG - h)
  <2> HIDE DEF t
  <2> QED
    BY <1>1, <1>3, <1>4 DEF AtLevel
<1>6. Ancestor(i, 0) = NB_EVALS + i /\ Ancestor(i, LOG) = 1
  <2>1. Ancestor(i, 0) = NB_EVALS + i
    BY <1>0, Powers, Sizes DEF Ancestor
  <2>2. Ancestor(i, LOG) = (1 * NB_EVALS + i) \div NB_EVALS
    BY <1>0, Sizes DEF Ancestor
  <2>3. (1 * NB_EVALS + i) \div NB_EVALS = 1
    BY <1>0, Sizes, DivModUnique
  <2> QED
    BY <2>1, <2>2, <2>3
<1>7. ASSUME h < LOG
      PROVE  /\ Ancestor(i, h + 1) = Ancestor(i, h) \div 2
             /\ Ancestor(i, h) % 2 = (i \div Pow2[h]) % 2
  <2>1. Pow2[h + 1] = 2 * Pow2[h] /\ NB_EVALS + i \in Nat
    BY <1>0, Powers, Sizes
  <2>2. Ancestor(i, h + 1) = Ancestor(i, h) \div 2
    BY <1>1, <2>1, Halve DEF Ancestor
  <2>3. LOG - h - 1 \in 0..LOG /\ (LOG - h - 1) + 1 = LOG - h
    BY <1>0, <1>7
  <2>4. q = 2 * Pow2[LOG - h - 1] /\ Pow2[LOG - h - 1] \in Nat
    <3>1. LOG - h - 1 \in 0..LOG+1
      BY <1>0, <2>3
    <3>2. Pow2[(LOG - h - 1) + 1] = 2 * Pow2[LOG - h - 1]
      BY <2>3, Powers
    <3> QED
      BY <2>3, <3>1, <3>2, Powers
  <2>5. (q + t) % 2 = t % 2
    <3> HIDE DEF q, t
    <3> QED
      BY <1>4, <2>4
  <2> QED
    BY <1>3, <2>2, <2>5
<1>8. Ancestor(i, h) \in Nat \ {0}
  <2> HIDE DEF q, t
  <2> QED
    BY <1>1, <1>3, <1>4 DEF q
<1> QED
  BY <1>3, <1>5, <1>6, <1>7, <1>8

\* The siblings of the hidden path: one at each level, beside the ancestor.
LEMMA PathSiblings ==
  ASSUME NEW i \in LeafNumbers, NEW h \in Levels
  PROVE  /\ AtLevel(Sibling(Ancestor(i, h)), LOG - h) /\ AtLevel(Ancestor(i, h), LOG - h)
         /\ Sibling(Ancestor(i, h)) \in SmallNodes /\ Ancestor(i, h) \in SmallNodes
         /\ Sibling(Ancestor(i, h)) # Ancestor(i, h)
         /\ Sibling(Ancestor(i, h)) \div 2 = Ancestor(i, h + 1)
         /\ Ancestor(i, h) \div 2 = Ancestor(i, h + 1)
         /\ \A m \in Nat : m \div 2 = Ancestor(i, h + 1)
                             => m \in {Ancestor(i, h), Sibling(Ancestor(i, h))}
         /\ \A l \in Levels : Sibling(Ancestor(i, h)) # Ancestor(i, l)
         /\ \A l \in Levels : Sibling(Ancestor(i, h)) = Sibling(Ancestor(i, l)) => h = l
<1>0. LOG \in Nat /\ h \in 0..LOG /\ h < LOG /\ LOG - h \in 1..LOG /\ LOG - h \in 0..LOG
  BY Depth DEF Levels
<1>1. AtLevel(Ancestor(i, h), LOG - h) /\ Ancestor(i, h + 1) = Ancestor(i, h) \div 2
  BY <1>0, AncestorFacts
<1>2. Ancestor(i, h) \in SmallNodes
  BY <1>0, <1>1, LevelFacts
<1> DEFINE a == Ancestor(i, h)
           s == Sibling(a)
<1>3. /\ AtLevel(s, LOG - h) /\ s # a /\ s \in SmallNodes /\ s \div 2 = a \div 2
      /\ \A m \in Nat : m \div 2 = a \div 2 => m \in {a, s}
  <2> HIDE DEF a
  <2> QED
    BY <1>0, <1>1, SiblingFacts DEF a
<1>4. ASSUME NEW l \in Levels
      PROVE  s # Ancestor(i, l) /\ (s = Sibling(Ancestor(i, l)) => h = l)
  <2>0. l \in 0..LOG /\ LOG - l \in 0..LOG /\ LOG - l \in 1..LOG
    BY <1>0 DEF Levels
  <2>1. AtLevel(Ancestor(i, l), LOG - l)
    BY <2>0, AncestorFacts
  <2>2. AtLevel(Sibling(Ancestor(i, l)), LOG - l)
    BY <2>0, <2>1, SiblingFacts
  <2> HIDE DEF s
  <2>3. s = Ancestor(i, l) => LOG - h = LOG - l
    BY <1>0, <1>3, <2>0, <2>1, OneLevel
  <2>4. s = Sibling(Ancestor(i, l)) => LOG - h = LOG - l
    BY <1>0, <1>3, <2>0, <2>2, OneLevel
  <2> QED
    BY <1>0, <1>3, <2>0, <2>3, <2>4 DEF a
<1> QED
  BY <1>1, <1>2, <1>3, <1>4

-----------------------------------------------------------------------------
(***************************************************************************)
(* Deriving seeds: a walk from the root, a bulk derivation in place.       *)
(***************************************************************************)

\* A node derives its children under the key of its level.
LEMMA Derived ==
  /\ SeedDerive(0, mseed) = 2 /\ XorBlocks(delta, 2) = 3 /\ 2 \in SmallNodes /\ 3 \in SmallNodes
  /\ \A l \in 1..LOG-1 : \A a : AtLevel(a, l) =>
       /\ a \in Nat /\ SeedDerive(l, a) = 2 * a /\ XorBlocks(a, 2 * a) = 2 * a + 1
       /\ 2 * a \in SmallNodes /\ 2 * a + 1 \in SmallNodes
<1>1. /\ SeedDerive(0, mseed) = 2 /\ XorBlocks(delta, 2) = 3 /\ 2 \in SmallNodes
      /\ 3 \in SmallNodes
  BY Sizes DEF SeedDerive, XorBlocks, SmallNodes, Sibling, delta
<1>2. ASSUME NEW l \in 1..LOG-1, NEW a, AtLevel(a, l)
      PROVE  /\ a \in Nat /\ SeedDerive(l, a) = 2 * a /\ XorBlocks(a, 2 * a) = 2 * a + 1
             /\ 2 * a \in SmallNodes /\ 2 * a + 1 \in SmallNodes
  <2>1. l \in 0..LOG /\ l < LOG /\ l >= 1
    BY Depth
  <2>2. a \in Nat /\ 2 * a \in SmallNodes /\ 2 * a + 1 \in SmallNodes
    BY <1>2, <2>1, LevelFacts
  <2>3. SeedDerive(l, a) = 2 * a
    <3>1. a # mseed
      BY <2>2 DEF mseed
    <3> QED
      BY <1>2, <3>1 DEF SeedDerive
  <2>4. XorBlocks(a, 2 * a) = 2 * a + 1
    <3>1. (2 * a) \div 2 = a /\ (2 * a) % 2 = 0
      BY <2>2
    <3>2. Sibling(2 * a) = 2 * a + 1
      BY <3>1 DEF Sibling
    <3> QED
      BY <2>2, <3>1, <3>2 DEF XorBlocks
  <2> QED
    BY <2>2, <2>3, <2>4
<1> QED
  BY <1>1, <1>2

\* Where the walk from the root is at level m.
WalkAt(i, m) ==
  [parent |-> Ancestor(i, LOG - m),
   path   |-> [l \in Levels |-> IF l >= LOG - m THEN Sibling(Ancestor(i, l)) ELSE Junk]]

\* A step of the walk.
LEMMA WalkStep ==
  ASSUME NEW i \in LeafNumbers, NEW m \in 0..LOG-1
  PROVE  StepDown(i, WalkAt(i, m), m) = WalkAt(i, m + 1)
<1> DEFINE h == LOG - 1 - m
           a == Ancestor(i, LOG - m)
           c == Ancestor(i, h)
           node0 == SeedDerive(m, IF m = 0 THEN mseed ELSE a)
           node1 == XorBlocks(a, node0)
           bit == (i \div Pow2[h]) % 2
           acc == WalkAt(i, m)
<1>0. /\ LOG \in Nat /\ m \in Nat /\ h \in 0..LOG /\ h \in Levels /\ h < LOG /\ h + 1 = LOG - m
      /\ LOG - m \in 0..LOG /\ LOG - (m + 1) = h /\ LOG - (LOG - m) = m
  BY Depth DEF Levels
<1>1. a \in Nat \ {0} /\ AtLevel(a, m) /\ c \div 2 = a /\ c % 2 = bit /\ c \in Nat
      /\ Ancestor(i, LOG) = 1
  <2>1. /\ a \in Nat \ {0} /\ AtLevel(a, LOG - (LOG - m))
        /\ c \in Nat /\ c % 2 = bit /\ Ancestor(i, h + 1) = c \div 2 /\ Ancestor(i, LOG) = 1
    BY <1>0, AncestorFacts
  <2> QED
    BY <1>0, <2>1
<1>2. node0 = 2 * a /\ node1 = 2 * a + 1
  <2>1. CASE m = 0
    <3>1. a = 1
      BY <1>0, <1>1, <2>1
    <3> QED
      BY <2>1, <3>1, Derived DEF delta
  <2>2. CASE m # 0
    <3>1. m \in 1..LOG-1
      BY <1>0, <2>2
    <3> QED
      BY <1>1, <2>2, <3>1, Derived
  <2> QED
    BY <2>1, <2>2
<1>3. /\ (IF bit = 0 THEN node0 ELSE node1) = c
      /\ (IF bit = 0 THEN node1 ELSE node0) = Sibling(c)
  <2> HIDE DEF a, c, node0, node1, bit
  <2>1. CASE c % 2 = 0
    BY <1>1, <1>2, <2>1 DEF Sibling
  <2>2. CASE c % 2 = 1
    BY <1>1, <1>2, <2>2 DEF Sibling
  <2> QED
    BY <1>1, <2>1, <2>2
<1>4. /\ acc.parent = a
      /\ acc.path = [l \in Levels |-> IF l >= LOG - m THEN Sibling(Ancestor(i, l)) ELSE Junk]
  BY DEF WalkAt
<1>5. [acc.path EXCEPT ![h] = Sibling(c)]
        = [l \in Levels |-> IF l >= LOG - (m + 1) THEN Sibling(Ancestor(i, l)) ELSE Junk]
  <2>1. ASSUME NEW l \in Levels
        PROVE  (IF l = h THEN Sibling(c) ELSE acc.path[l])
                 = IF l >= LOG - (m + 1) THEN Sibling(Ancestor(i, l)) ELSE Junk
    <3>1. l \in Nat
      BY <1>0 DEF Levels
    <3>2. l # h => (l >= LOG - m <=> l >= LOG - (m + 1))
      BY <1>0, <3>1
    <3>3. l = h => l >= LOG - (m + 1)
      BY <1>0, <3>1
    <3> QED
      BY <1>4, <3>2, <3>3
  <2> QED
    BY <1>0, <1>4, <2>1
<1>6. WalkAt(i, m + 1) = [parent |-> c, path |-> [acc.path EXCEPT ![h] = Sibling(c)]]
  BY <1>0, <1>5 DEF WalkAt
<1>7. StepDown(i, acc, m)
        = [parent |-> IF bit = 0 THEN node0 ELSE node1,
           path   |-> [acc.path EXCEPT ![h] = IF bit = 0 THEN node1 ELSE node0]]
  BY <1>4 DEF StepDown
<1> QED
  BY <1>3, <1>6, <1>7

\* A walk, as a function with the equation of ExpandPath.
IsWalk(w, i) ==
  w = [j_ \in 0..LOG |-> IF j_ = 0 THEN [parent |-> delta, path |-> [l \in Levels |-> Junk]]
                         ELSE StepDown(i, w[j_ - 1], j_ - 1)]

\* The walk ends at the leaf and leaves the siblings of its ancestors behind.
LEMMA WalkExact ==
  ASSUME NEW i \in LeafNumbers
  PROVE  /\ SmallGGMTree_ExpandPath(i).parent = NB_EVALS + i
         /\ SmallGGMTree_ExpandPath(i).path = [h \in Levels |-> Sibling(Ancestor(i, h))]
<1>0. LOG \in Nat /\ LOG \in 0..LOG
  BY Depth
<1>1. WalkAt(i, 0) = [parent |-> delta, path |-> [l \in Levels |-> Junk]]
  <2>1. Ancestor(i, LOG) = 1
    BY <1>0, AncestorFacts
  <2>2. \A l \in Levels : ~(l >= LOG - 0)
    BY <1>0 DEF Levels
  <2> QED
    BY <1>0, <2>1, <2>2 DEF WalkAt, delta
<1>2. \E w : IsWalk(w, i)
  <2> DEFINE g == [m \in 0..LOG |-> WalkAt(i, m)]
  <2>1. ASSUME NEW m \in 0..LOG
        PROVE  g[m] = IF m = 0 THEN WalkAt(i, 0) ELSE StepDown(i, g[m - 1], m - 1)
    <3>1. CASE m = 0
      BY <1>0, <3>1
    <3>2. CASE m # 0
      <4>1. m - 1 \in 0..LOG-1 /\ m - 1 \in 0..LOG /\ (m - 1) + 1 = m
        BY <1>0, <3>2
      <4>2. StepDown(i, WalkAt(i, m - 1), m - 1) = WalkAt(i, (m - 1) + 1)
        BY <4>1, WalkStep
      <4> QED
        BY <3>2, <4>1, <4>2
    <3> QED
      BY <3>1, <3>2
  <2>2. IsWalk(g, i)
    BY <1>1, <2>1 DEF IsWalk
  <2> QED
    BY <2>2
<1> DEFINE w == CHOOSE w : IsWalk(w, i)
<1>3. IsWalk(w, i)
  <2> HIDE DEF IsWalk
  <2> QED
    BY <1>2
<1>4. SmallGGMTree_ExpandPath(i) = w[LOG]
  BY DEF SmallGGMTree_ExpandPath, IsWalk
<1> HIDE DEF w
<1> DEFINE T == {m \in Nat : m <= LOG => w[m] = WalkAt(i, m)}
<1>5. w[LOG] = WalkAt(i, LOG)
  <2>1. 0 \in T
    <3>1. w[0] = WalkAt(i, 0)
      BY <1>0, <1>1, <1>3 DEF IsWalk
    <3> QED
      BY <3>1
  <2>2. ASSUME NEW m \in 0..LOG-1, m \in T PROVE m + 1 \in T
    <3>1. m + 1 \in 0..LOG /\ m + 1 # 0 /\ (m + 1) - 1 = m
      BY <1>0
    <3>2. w[m] = WalkAt(i, m)
      BY <1>0, <2>2
    <3>3. w[m + 1] = StepDown(i, w[m], m)
      BY <1>3, <3>1 DEF IsWalk
    <3>4. w[m + 1] = WalkAt(i, m + 1)
      BY <3>2, <3>3, WalkStep
    <3> QED
      BY <3>1, <3>4
  <2> HIDE DEF T
  <2>3. \A m \in 0..LOG : m \in T
    BY <1>0, <2>1, <2>2, Upto
  <2>4. LOG \in T
    BY <1>0, <2>3
  <2> QED
    BY <1>0, <2>4 DEF T
<1>6. Ancestor(i, LOG - LOG) = NB_EVALS + i
  <2>1. LOG - LOG = 0
    BY <1>0
  <2> QED
    BY <1>0, <2>1, AncestorFacts
<1>7. \A l \in Levels : l >= LOG - LOG
  BY <1>0 DEF Levels
<1> QED
  BY <1>4, <1>5, <1>6, <1>7 DEF WalkAt

\* A bulk derivation after i turns of its pass.
PassAt(tree, key, from, run, i) ==
  [n \in Indexes |-> IF n \in 2 * (from + run - i)..2 * (from + run) - 1 THEN n
                     ELSE Ciphertexts(tree, key, from, run)[n]]

\* The nodes of a level from `from` on, present in the tree.
Ready(tree, key, from, run) ==
  /\ key \in 1..LOG-1 /\ from \in Nat /\ run \in Nat
  /\ Pow2[key] <= from /\ from + run <= Pow2[key + 1]
  /\ \A p \in from..from+run-1 : tree[p] = p

\* A run is in its level, and its children in the tree.
LEMMA RunInLevel ==
  ASSUME NEW tree, NEW key, NEW from, NEW run, Ready(tree, key, from, run)
  PROVE  /\ key \in 0..LOG /\ run <= from /\ from \in Nat /\ run \in Nat
         /\ \A p \in from..from+run-1 :
              /\ AtLevel(p, key) /\ 2 * p \in Indexes /\ 2 * p + 1 \in Indexes
              /\ p \in Indexes /\ p \in Nat
<1>0. LOG \in Nat /\ key \in 0..LOG /\ key < LOG /\ from \in Nat /\ run \in Nat /\ key >= 1
  BY Depth DEF Ready
<1>1. Pow2[key] \in Nat /\ Pow2[key + 1] = 2 * Pow2[key]
  BY <1>0, Powers
<1>2. run <= from
  BY <1>0, <1>1 DEF Ready
<1>3. ASSUME NEW p \in from..from+run-1
      PROVE  /\ AtLevel(p, key) /\ 2 * p \in Indexes /\ 2 * p + 1 \in Indexes
             /\ p \in Indexes /\ p \in Nat
  <2>1. p \in Pow2[key]..Pow2[key + 1]-1
    BY <1>0, <1>1 DEF Ready
  <2>2. AtLevel(p, key)
    BY <2>1 DEF AtLevel
  <2>3. 2 * p \in SmallNodes /\ 2 * p + 1 \in SmallNodes /\ p \in SmallNodes
    BY <1>0, <2>2, LevelFacts
  <2> QED
    BY <2>2, <2>3, Sizes DEF SmallNodes, Indexes
<1> QED
  BY <1>0, <1>2, <1>3

\* A turn of the pass.
LEMMA PassStep ==
  ASSUME NEW tree, NEW key, NEW from, NEW run, Ready(tree, key, from, run), NEW i \in 1..run
  PROVE  Interleaved(PassAt(tree, key, from, run, i - 1), from, from + run - i)
           = PassAt(tree, key, from, run, i)
<1> DEFINE p == from + run - i
           t == PassAt(tree, key, from, run, i - 1)
           c == Ciphertexts(tree, key, from, run)
<1>0. /\ from \in Nat /\ run \in Nat /\ key \in 1..LOG-1 /\ run <= from /\ i \in Nat
      /\ p \in from..from+run-1
  <2>1. from \in Nat /\ run \in Nat /\ key \in 1..LOG-1 /\ run <= from
    BY RunInLevel DEF Ready
  <2> QED
    BY <2>1
<1>1. /\ AtLevel(p, key) /\ 2 * p \in Indexes /\ 2 * p + 1 \in Indexes
      /\ p \in Indexes /\ p \in Nat /\ tree[p] = p
  BY <1>0, RunInLevel DEF Ready
<1>2. SeedDerive(key, p) = 2 * p /\ XorBlocks(p, 2 * p) = 2 * p + 1
  BY <1>0, <1>1, Derived
<1>3. c[p] = p /\ c[from + p] = -10 - p /\ from + p \in Indexes
  <2>1. p < 2 * from /\ from + p \in 2*from..2*from+run-1 /\ (from + p) - from = p
    BY <1>0, <1>1
  <2>2. from + p \in Indexes
    BY <1>0, <1>1, Sizes DEF Indexes
  <2>3. Encrypted(key, p) = -10 - p
    BY <1>1, <1>2 DEF Encrypted, Junk
  <2>4. p \notin 2*from..2*from+run-1
    BY <1>0, <1>1, <2>1
  <2>5. c[p] = tree[p]
    BY <1>1, <2>4 DEF Ciphertexts
  <2>6. c[from + p] = Encrypted(key, tree[p])
    BY <2>1, <2>2 DEF Ciphertexts
  <2> QED
    BY <1>1, <2>2, <2>3, <2>5, <2>6
<1>4. t[p] = p /\ t[from + p] = -10 - p
  <2>1. /\ p \notin 2 * (from + run - (i - 1))..2 * (from + run) - 1
        /\ from + p \notin 2 * (from + run - (i - 1))..2 * (from + run) - 1
    BY <1>0, <1>1
  <2> HIDE DEF c
  <2>2. t[p] = c[p] /\ t[from + p] = c[from + p]
    BY <1>1, <1>3, <2>1 DEF PassAt, c
  <2> QED
    BY <1>3, <2>2
<1>5. Unmasked(t[from + p], t[p]) = 2 * p
  BY <1>4 DEF Unmasked
<1>6. Interleaved(t, from, p) = [t EXCEPT ![2*p] = 2 * p, ![2*p + 1] = 2 * p + 1]
  <2> HIDE DEF t, p
  <2> QED
    BY <1>2, <1>4, <1>5 DEF Interleaved
<1> HIDE DEF c
<1>7. ASSUME NEW n \in Indexes
      PROVE  (IF n = 2 * p + 1 THEN 2 * p + 1 ELSE IF n = 2 * p THEN 2 * p ELSE t[n])
               = PassAt(tree, key, from, run, i)[n]
  <2>0. n \in Nat
    BY Sizes DEF Indexes
  <2>1. t[n] = IF n \in 2 * (from + run - (i - 1))..2 * (from + run) - 1 THEN n ELSE c[n]
    BY DEF PassAt, c
  <2>2. PassAt(tree, key, from, run, i)[n]
          = IF n \in 2 * (from + run - i)..2 * (from + run) - 1 THEN n ELSE c[n]
    BY DEF PassAt, c
  <2>3. n \in 2 * (from + run - i)..2 * (from + run) - 1
          <=> \/ n = 2 * p \/ n = 2 * p + 1
              \/ n \in 2 * (from + run - (i - 1))..2 * (from + run) - 1
    BY <1>0, <2>0
  <2> HIDE DEF t, p
  <2>4. CASE n = 2 * p \/ n = 2 * p + 1
    BY <1>1, <2>2, <2>3, <2>4
  <2>5. CASE ~(n = 2 * p \/ n = 2 * p + 1)
    BY <2>1, <2>2, <2>3, <2>5
  <2> QED
    BY <2>4, <2>5
<1>8. t \in [Indexes -> {t[n] : n \in Indexes}] /\ DOMAIN t = Indexes
  BY DEF PassAt
<1>9. [t EXCEPT ![2*p] = 2 * p, ![2*p + 1] = 2 * p + 1]
        = [n \in Indexes |-> IF n = 2 * p + 1 THEN 2 * p + 1 ELSE IF n = 2 * p THEN 2 * p ELSE t[n]]
  <2> HIDE DEF t, p
  <2> QED
    BY <1>1, <1>8
<1>10. PassAt(tree, key, from, run, i) = [n \in Indexes |-> PassAt(tree, key, from, run, i)[n]]
  BY DEF PassAt
<1> HIDE DEF t, p
<1> QED
  BY <1>6, <1>7, <1>9, <1>10 DEF t, p

\* A pass, as a function with the equation of SeedDerive_nb.
IsPass(f, tree, key, from, run) ==
  f = [i \in 0..run |-> IF i = 0 THEN Ciphertexts(tree, key, from, run)
                        ELSE Interleaved(f[i - 1], from, from + run - i)]

\* A bulk derivation replaces the children of the run and nothing else.
LEMMA BulkExact ==
  ASSUME NEW tree, NEW key, NEW from, NEW run, Ready(tree, key, from, run)
  PROVE  SeedDerive_nb(tree, key, from, run)
           = [n \in Indexes |-> IF n \div 2 \in from..from+run-1 THEN n ELSE tree[n]]
<1> DEFINE P(i) == PassAt(tree, key, from, run, i)
           c == Ciphertexts(tree, key, from, run)
<1>0. from \in Nat /\ run \in Nat /\ run <= from
  BY RunInLevel
<1>1. P(0) = c
  <2>1. ASSUME NEW n \in Indexes PROVE P(0)[n] = c[n]
    <3>1. n \notin 2 * (from + run - 0)..2 * (from + run) - 1
      BY <1>0
    <3> QED
      BY <3>1 DEF PassAt
  <2> QED
    BY <2>1 DEF PassAt, Ciphertexts
<1>2. ASSUME NEW i \in 1..run PROVE P(i) = Interleaved(P(i - 1), from, from + run - i)
  BY PassStep
<1>3. \E f : IsPass(f, tree, key, from, run)
  <2> DEFINE g == [i \in 0..run |-> P(i)]
  <2>1. ASSUME NEW i \in 0..run
        PROVE  g[i] = IF i = 0 THEN c ELSE Interleaved(g[i - 1], from, from + run - i)
    <3> HIDE DEF P, c
    <3>1. CASE i = 0
      BY <1>1, <3>1
    <3>2. CASE i # 0
      <4>1. i \in 1..run /\ i - 1 \in 0..run
        BY <1>0, <3>2
      <4> QED
        BY <1>2, <3>2, <4>1
    <3> QED
      BY <3>1, <3>2
  <2>2. IsPass(g, tree, key, from, run)
    <3> HIDE DEF P
    <3> QED
      BY <2>1 DEF IsPass
  <2> QED
    BY <2>2
<1> DEFINE w == CHOOSE f : IsPass(f, tree, key, from, run)
<1>4. IsPass(w, tree, key, from, run)
  <2> HIDE DEF IsPass
  <2> QED
    BY <1>3
<1>5. SeedDerive_nb(tree, key, from, run) = w[run]
  BY DEF SeedDerive_nb, IsPass
<1> HIDE DEF w, P, c
<1> DEFINE T == {i \in Nat : i <= run => w[i] = P(i)}
<1>6. w[run] = P(run)
  <2>1. 0 \in T
    <3>1. w[0] = P(0)
      BY <1>0, <1>1, <1>4 DEF IsPass, c
    <3> QED
      BY <3>1
  <2>2. ASSUME NEW i \in 0..run-1, i \in T PROVE i + 1 \in T
    <3>1. i + 1 \in 1..run /\ i + 1 \in 0..run /\ i + 1 # 0 /\ (i + 1) - 1 = i
      BY <1>0
    <3>2. w[i] = P(i)
      BY <1>0, <2>2
    <3>3. w[i + 1] = Interleaved(w[i], from, from + run - (i + 1))
      BY <1>4, <3>1 DEF IsPass
    <3>4. w[i + 1] = P(i + 1)
      BY <1>2, <3>1, <3>2, <3>3
    <3> QED
      BY <3>1, <3>4
  <2> HIDE DEF T
  <2>3. \A i \in 0..run : i \in T
    BY <1>0, <2>1, <2>2, Upto
  <2>4. run \in T
    BY <1>0, <2>3
  <2> QED
    BY <1>0, <2>4 DEF T
<1>7. ASSUME NEW n \in Indexes
      PROVE  P(run)[n] = IF n \div 2 \in from..from+run-1 THEN n ELSE tree[n]
  <2>0. n \in Nat
    BY Sizes DEF Indexes
  <2>1. P(run)[n] = IF n \in 2 * (from + run - run)..2 * (from + run) - 1 THEN n ELSE c[n]
    BY DEF PassAt, P, c
  <2>2. n \in 2 * (from + run - run)..2 * (from + run) - 1 <=> n \div 2 \in from..from+run-1
    BY <1>0, <2>0
  <2>3. c[n] = IF n \in 2*from..2*from+run-1 THEN Encrypted(key, tree[n - from]) ELSE tree[n]
    BY DEF Ciphertexts, c
  <2>4. n \in 2*from..2*from+run-1 => n \div 2 \in from..from+run-1
    BY <1>0, <2>0
  <2> QED
    BY <2>1, <2>2, <2>3, <2>4
<1>8. P(run) = [n \in Indexes |-> P(run)[n]]
  BY DEF PassAt, P
<1> QED
  BY <1>5, <1>6, <1>7, <1>8

-----------------------------------------------------------------------------
(***************************************************************************)
(* The kept tree, its opening and the tree derived from it.                *)
(***************************************************************************)

\* Level j is derived up to node k, in runs that divide the level.
Expanding ==
  pc = "expand" /\ j >= 1 =>
    /\ Pow2[j] <= k
    /\ j < LOG => k < Pow2[j + 1] /\ k % MaxRun = 0
    /\ j = LOG => k = Pow2[LOG]
    /\ \A n \in 2..2*k-1 : node[n] = n

\* The signer's tree and leaves.
Expanded ==
  pc \in {"open", "opened", "partial", "done"} =>
    /\ \A n \in SmallNodes : node[n] = n
    /\ lseed = [i \in LeafNumbers |-> NB_EVALS + i]

\* What is revealed: siblings of the hidden path, all of them unless a walk failed.
Opening ==
  /\ \A h \in Levels : \/ opening[h] = Junk
                       \/ i_star \in LeafNumbers /\ opening[h] = Sibling(Ancestor(i_star, h))
  /\ pc \in {"opened", "partial", "done"} =>
       /\ i_star \in LeafNumbers
       /\ \A h \in Levels : opening[h] = Sibling(Ancestor(i_star, h))

\* The verifier's tree has the path, its level j but for the hole, and the
\* children of the nodes of level j that were passed.
PassedBy(p) == \/ p < Hole(j) /\ (part = 1 \/ p < k)
               \/ p > Hole(j) /\ part = 1 /\ p < k

Deriving ==
  pc = "partial" =>
    /\ j \in 1..LOG /\ (j = LOG => part = 0)
    /\ \A h \in Levels : LET s == Sibling(Ancestor(i_star, h)) IN vnode[s] = s
    /\ \A n \in SmallNodes : AtLevel(n, j) /\ n # Hole(j) => vnode[n] = n
    /\ j < LOG => /\ RunStart(j, part) <= k
                  /\ \A p \in SmallNodes : AtLevel(p, j) /\ PassedBy(p) =>
                       vnode[2 * p] = 2 * p /\ vnode[2 * p + 1] = 2 * p + 1

Recovered ==
  pc = "done" =>
    vlseed = [i \in LeafNumbers |-> IF i = i_star THEN ZeroSeed ELSE NB_EVALS + i]

TreeInv == TreeTypeOK /\ Expanding /\ Expanded /\ Opening /\ Deriving /\ Recovered

-----------------------------------------------------------------------------
(***************************************************************************)
(* The widths of the runs.                                                 *)
(***************************************************************************)

\* The smaller of two numbers.
LEMMA MinOfTwo ==
  ASSUME NEW a \in Int, NEW b \in Int
  PROVE  Min({a, b}) = IF a <= b THEN a ELSE b
<1>1. CASE a <= b
  <2>1. a \in {a, b} /\ \A y \in {a, b} : a <= y
    BY <1>1
  <2>2. \A x \in {a, b} : (\A y \in {a, b} : x <= y) => x = a
    BY <1>1
  <2> QED
    BY <1>1, <2>1, <2>2 DEF Min
<1>2. CASE ~(a <= b)
  <2>1. b \in {a, b} /\ \A y \in {a, b} : b <= y
    BY <1>2
  <2>2. \A x \in {a, b} : (\A y \in {a, b} : x <= y) => x = b
    BY <1>2
  <2> QED
    BY <1>2, <2>1, <2>2 DEF Min
<1> QED
  BY <1>1, <1>2

\* A multiple leaves no rest.
LEMMA MultipleMod ==
  ASSUME NEW r \in Nat \ {0}, NEW c \in Nat
  PROVE  (c * r) % r = 0
<1>1. 0 \in 0 .. r - 1 /\ c * r = c * r + 0
  OBVIOUS
<1> QED
  BY <1>1, DivModUnique

\* The run after one that does not end its level is in the level.
LEMMA NextRun ==
  ASSUME NEW r \in Nat \ {0}, NEW a \in Nat, NEW e \in Nat, a % r = 0, e % r = 0, a < e
  PROVE  a + r <= e /\ (a + r) % r = 0
<1> DEFINE q == a \div r
           t == e \div r
<1>1. q \in Nat /\ t \in Nat /\ a = r * q /\ e = r * t
  BY DivMod
<1> HIDE DEF q, t
<1>2. r * q = q * r /\ r * t = t * r
  BY <1>1
<1>3. q < t
  <2>1. ASSUME q >= t PROVE FALSE
    <3>1. PICK u \in Nat : q = t + u
      BY <1>1, <2>1
    <3>2. q * r = t * r + u * r /\ u * r \in Nat /\ t * r \in Nat
      BY <1>1, <3>1
    <3> QED
      BY <1>1, <1>2, <3>2
  <2> QED
    BY <1>1, <2>1
<1>4. PICK u \in Nat : t = q + 1 + u
  BY <1>1, <1>3
<1>5. t * r = q * r + r + u * r /\ u * r \in Nat /\ q * r \in Nat
  BY <1>1, <1>4
<1>6. a + r = (q + 1) * r /\ q + 1 \in Nat
  BY <1>1, <1>2
<1>7. a + r <= e
  BY <1>1, <1>2, <1>5
<1> QED
  BY <1>6, <1>7, MultipleMod

\* The width of a run divides its level.
RunAt(l) == Min({Pow2[l], CHUNK})

\* Runs are not empty and divide the levels they are cut from.
LEMMA RunFacts ==
  /\ CHUNK \in Nat \ {0}
  /\ \A l \in 0..LOG :
       /\ RunAt(l) \in Nat \ {0} /\ RunAt(l) <= Pow2[l] /\ RunAt(l) <= CHUNK
       /\ Pow2[l] % RunAt(l) = 0 /\ Pow2[l + 1] % RunAt(l) = 0
<1>1. PICK b \in 0..LOG : CHUNK = Pow2[b]
  BY ChunkAssumption
<1>2. LOG \in Nat /\ b \in 0..LOG+1 /\ CHUNK \in Nat \ {0}
  BY <1>1, Powers, Depth
<1>3. ASSUME NEW l \in 0..LOG
      PROVE  /\ RunAt(l) \in Nat \ {0} /\ RunAt(l) <= Pow2[l] /\ RunAt(l) <= CHUNK
             /\ Pow2[l] % RunAt(l) = 0 /\ Pow2[l + 1] % RunAt(l) = 0
  <2>1. Pow2[l] \in Nat \ {0} /\ Pow2[l + 1] = 2 * Pow2[l] /\ Pow2[l + 1] \in Nat
    BY <1>2, Powers
  <2>2. RunAt(l) = IF Pow2[l] <= CHUNK THEN Pow2[l] ELSE CHUNK
    BY <1>2, <2>1, MinOfTwo DEF RunAt
  <2>3. \E c \in Nat : Pow2[l] = c * RunAt(l)
    <3>1. CASE Pow2[l] <= CHUNK
      <4>1. Pow2[l] = 1 * RunAt(l)
        BY <2>1, <2>2, <3>1
      <4> QED
        BY <4>1
    <3>2. CASE ~(Pow2[l] <= CHUNK)
      <4>1. b < l
        <5>1. ASSUME l <= b PROVE FALSE
          BY <1>1, <1>2, <3>2, <5>1, PowersOrdered
        <5> QED
          BY <1>2, <5>1
      <4>2. l - b \in 0..LOG+1 /\ (l - b) + b = l
        BY <1>2, <4>1
      <4>3. Pow2[l] = Pow2[l - b] * Pow2[b] /\ Pow2[l - b] \in Nat
        BY <1>2, <4>2, PowProduct, Powers
      <4> QED
        BY <1>1, <2>2, <3>2, <4>3
    <3> QED
      BY <3>1, <3>2
  <2>4. RunAt(l) \in Nat \ {0} /\ RunAt(l) <= Pow2[l] /\ RunAt(l) <= CHUNK
    BY <1>2, <2>1, <2>2
  <2>5. PICK c \in Nat : Pow2[l] = c * RunAt(l)
    BY <2>3
  <2>6. Pow2[l + 1] = (2 * c) * RunAt(l) /\ 2 * c \in Nat
    BY <2>1, <2>4, <2>5
  <2> QED
    BY <2>4, <2>5, <2>6, MultipleMod
<1> QED
  BY <1>2, <1>3

\* What the type invariant says of the tree's arrays.
LEMMA TreeTypes ==
  TreeTypeOK <=>
    /\ i_star \in 0..NB_EVALS
    /\ node \in [Indexes -> SmallSeeds] /\ vnode \in [Indexes -> SmallSeeds]
    /\ lseed \in [LeafNumbers -> SmallSeeds] /\ vlseed \in [LeafNumbers -> SmallSeeds]
    /\ opening \in [Levels -> SmallSeeds]
    /\ j \in 0..LOG /\ part \in {0, 1}
    /\ k \in 0..Pow2[j + 1] + CHUNK - 1
    /\ pc \in {"expand", "open", "opened", "partial", "done", "error"}
BY DEF TreeTypeOK

\* The leaf that is hidden is one of the tree or out of range.
LEMMA HiddenLeaf ==
  ASSUME TreeInv
  PROVE  /\ i_star < NB_EVALS <=> i_star \in LeafNumbers
         /\ pc \in {"opened", "partial", "done"} => i_star \in LeafNumbers
<1>1. i_star \in 0..NB_EVALS
  BY TreeTypes DEF TreeInv
<1> QED
  BY <1>1, Sizes DEF LeafNumbers, TreeInv, Opening

\* The result of a bulk derivation is an array of seeds.
LEMMA BulkTyped ==
  ASSUME NEW tree \in [Indexes -> SmallSeeds], NEW key, NEW from, NEW run,
         Ready(tree, key, from, run)
  PROVE  SeedDerive_nb(tree, key, from, run) \in [Indexes -> SmallSeeds]
<1>1. ASSUME NEW n \in Indexes, n \div 2 \in from..from+run-1 PROVE n \in SmallSeeds
  <2>0. n \in Nat /\ key \in 0..LOG /\ key < LOG
    BY Sizes, RunInLevel DEF Indexes, Ready
  <2>1. AtLevel(n \div 2, key) /\ n \div 2 \in Nat
    BY <1>1, RunInLevel
  <2>2. 2 * (n \div 2) \in SmallNodes /\ 2 * (n \div 2) + 1 \in SmallNodes
    BY <2>0, <2>1, LevelFacts
  <2>3. n = 2 * (n \div 2) \/ n = 2 * (n \div 2) + 1
    BY <2>0
  <2> QED
    BY <2>2, <2>3 DEF SmallSeeds
<1> QED
  BY <1>1, BulkExact

-----------------------------------------------------------------------------
(***************************************************************************)
(* Each step of the tree keeps the invariant.                              *)
(***************************************************************************)

\* Initially nothing is derived and nothing revealed.
LEMMA TreeInitEstablishes == TreeInit => TreeInv
<1> SUFFICES ASSUME TreeInit PROVE TreeInv
  OBVIOUS
<1>1. /\ Junk \in SmallSeeds /\ LOG \in Nat /\ 0 \in 0..LOG
      /\ 0 + 1 \in 0..LOG+1 /\ Pow2[0 + 1] \in Nat \ {0}
  <2>1. LOG \in Nat /\ 0 \in 0..LOG /\ 0 + 1 \in 0..LOG+1
    BY Depth
  <2> QED
    BY <2>1, Powers DEF SmallSeeds
<1>2. CHUNK \in Nat \ {0}
  BY RunFacts
<1>3. TreeTypeOK
  BY <1>1, <1>2, TreeTypes DEF TreeInit, Unwritten
<1>4. Opening
  BY DEF TreeInit, Opening, Unwritten
<1> QED
  BY <1>3, <1>4 DEF TreeInit, TreeInv, Expanding, Expanded, Deriving, Recovered

\* The root is expanded.
LEMMA ExpandRootPreserves == ASSUME TreeInv, ExpandRoot PROVE TreeInv'
<1>1. node' = [node EXCEPT ![2] = 2, ![3] = 3]
  BY Derived DEF ExpandRoot
<1>2. 1 \in 0..LOG /\ 1 + 1 \in 0..LOG+1 /\ 1 < LOG /\ Pow2[1] = 2 /\ Pow2[1 + 1] = 4
      /\ 2 \in Indexes /\ 3 \in Indexes /\ 2 \in SmallSeeds /\ 3 \in SmallSeeds
  <2>1. LOG \in Nat /\ 0 \in 0..LOG /\ 1 \in 0..LOG /\ 1 + 1 \in 0..LOG+1 /\ 1 < LOG
    BY Depth
  <2>2. Pow2[0] = 1 /\ Pow2[0 + 1] = 2 * Pow2[0] /\ Pow2[1 + 1] = 2 * Pow2[1]
    BY <2>1, Powers
  <2>3. 2 \in Indexes /\ 3 \in Indexes
    BY Sizes DEF Indexes
  <2> QED
    BY <2>1, <2>2, <2>3, Derived DEF SmallSeeds
<1>3. CHUNK \in Nat \ {0}
  BY RunFacts
<1>4. node \in [Indexes -> SmallSeeds]
  BY TreeTypes DEF TreeInv
<1>5. TreeTypeOK'
  <2>1. node' \in [Indexes -> SmallSeeds]
    BY <1>1, <1>2, <1>4
  <2>2. k' \in 0..Pow2[j' + 1] + CHUNK - 1 /\ j' \in 0..LOG
    BY <1>2, <1>3 DEF ExpandRoot
  <2> QED
    BY <2>1, <2>2 DEF TreeInv, TreeTypeOK, ExpandRoot, VerifierIdle
<1>6. Expanding'
  <2>1. \A n \in 2..2*2-1 : node'[n] = n
    BY <1>1, <1>2, <1>4
  <2>2. MaxRun' = RunAt(1)
    BY DEF ExpandRoot, MaxRun, RunAt
  <2>3. 2 % RunAt(1) = 0
    BY <1>2, RunFacts
  <2> QED
    BY <1>2, <2>1, <2>2, <2>3 DEF Expanding, ExpandRoot
<1> QED
  BY <1>5, <1>6 DEF TreeInv, ExpandRoot, VerifierIdle, Expanded, Opening, Deriving, Recovered

\* A run of a level is expanded.
LEMMA ExpandChunkPreserves == ASSUME TreeInv, ExpandChunk PROVE TreeInv'
<1> DEFINE r == RunAt(j)
<1>0. /\ LOG \in Nat /\ j \in 1..LOG-1 /\ j \in 0..LOG /\ j < LOG /\ j + 1 \in 0..LOG
      /\ j + 1 \in 0..LOG+1 /\ (j + 1) + 1 \in 0..LOG+1 /\ j >= 1 /\ j + 1 # 0
  BY Depth DEF ExpandChunk
<1>1. MaxRun = r
  BY DEF MaxRun, RunAt
<1>2. /\ r \in Nat \ {0} /\ r <= Pow2[j] /\ r <= CHUNK
      /\ Pow2[j + 1] % r = 0 /\ CHUNK \in Nat /\ Pow2[j + 1] % RunAt(j + 1) = 0
  BY <1>0, RunFacts
<1>3. /\ Pow2[j] <= k /\ k < Pow2[j + 1] /\ k % r = 0 /\ \A n \in 2..2*k-1 : node[n] = n
  BY <1>0, <1>1 DEF TreeInv, Expanding, ExpandChunk
<1>4. /\ k \in Nat /\ node \in [Indexes -> SmallSeeds]
      /\ Pow2[j] \in Nat \ {0} /\ Pow2[j + 1] \in Nat /\ Pow2[j + 1] = 2 * Pow2[j]
      /\ Pow2[(j + 1) + 1] = 2 * Pow2[j + 1]
  <2>1. /\ Pow2[j] \in Nat \ {0} /\ Pow2[j + 1] \in Nat /\ Pow2[j + 1] = 2 * Pow2[j]
        /\ Pow2[(j + 1) + 1] = 2 * Pow2[j + 1]
    BY <1>0, Powers
  <2> QED
    BY <1>2, <2>1, TreeTypes DEF TreeInv
<1> HIDE DEF r
<1>5. k + r <= Pow2[j + 1] /\ (k + r) % r = 0
  BY <1>2, <1>3, <1>4, NextRun
<1>6. 2 <= Pow2[j]
  <2>1. Pow2[0] = 1 /\ 0 \in 0..LOG+1
    BY <1>0, Powers
  <2>2. 2 * Pow2[0] <= Pow2[j]
    BY <1>0, <2>1, PowersGrow
  <2> QED
    BY <2>1, <2>2
<1>7. Ready(node, j, k, r)
  <2>1. \A p \in k..k+r-1 : p \in 2..2*k-1
    BY <1>2, <1>3, <1>4, <1>6
  <2> QED
    BY <1>0, <1>2, <1>3, <1>4, <1>5, <2>1 DEF Ready
<1>8. /\ node' = [n \in Indexes |-> IF n \div 2 \in k..k+r-1 THEN n ELSE node[n]]
      /\ node' \in [Indexes -> SmallSeeds]
  <2>1. node' = SeedDerive_nb(node, j, k, r)
    BY <1>1 DEF ExpandChunk
  <2> QED
    BY <1>4, <1>7, <2>1, BulkExact, BulkTyped
<1>9. /\ k' = k + r
      /\ \/ j' = j /\ k + r < Pow2[j + 1]
         \/ j' = j + 1 /\ k + r = Pow2[j + 1]
  BY <1>1, <1>2, <1>4, <1>5 DEF ExpandChunk
<1>10. \A n \in 2..2*k'-1 : node'[n] = n
  <2> SUFFICES ASSUME NEW n \in 2..2*(k + r)-1 PROVE node'[n] = n
    BY <1>9
  <2>1. n \in Nat /\ n < 2 * Pow2[j + 1]
    BY <1>2, <1>4, <1>5
  <2>2. n \in Indexes
    <3>1. Pow2[(j + 1) + 1] <= Pow2[LOG + 1]
      BY <1>0, PowersOrdered
    <3>2. /\ Pow2[(j + 1) + 1] = 2 * Pow2[j + 1] /\ Pow2[LOG + 1] = 2 * NB_EVALS
          /\ Pow2[j + 1] \in Nat /\ NB_EVALS \in Nat
      BY <1>4, Sizes
    <3>3. n < 2 * NB_EVALS
      BY ONLY <2>1, <3>1, <3>2
    <3> QED
      BY ONLY <2>1, <3>2, <3>3 DEF Indexes
  <2>3. CASE n \in 2..2*k-1
    BY <1>3, <1>8, <2>2, <2>3
  <2>4. CASE n \notin 2..2*k-1
    <3>1. n \div 2 \in k..k+r-1
      BY <1>2, <1>4, <2>1, <2>4
    <3> QED
      BY <1>8, <2>2, <3>1
  <2> QED
    BY <2>3, <2>4
<1>11. j' \in 0..LOG /\ k' \in 0..Pow2[j' + 1] + CHUNK - 1
  <2>1. CASE j' = j
    BY <1>0, <1>2, <1>4, <1>5, <1>9, <2>1
  <2>2. CASE j' = j + 1
    BY <1>0, <1>2, <1>4, <1>5, <1>9, <2>2
  <2> QED
    BY <1>9, <2>1, <2>2
<1>12. TreeTypeOK'
  BY <1>8, <1>11 DEF TreeInv, TreeTypeOK, ExpandChunk, VerifierIdle
<1>13. Expanding'
  <2>0. MaxRun' = RunAt(j')
    BY DEF MaxRun, RunAt
  <2>1. CASE j' = j /\ k + r < Pow2[j + 1]
    <3>1. MaxRun' = r
      BY <2>0, <2>1 DEF r
    <3>2. Pow2[j'] <= k' /\ k' < Pow2[j' + 1] /\ k' % MaxRun' = 0 /\ j' # LOG
      BY <1>0, <1>2, <1>3, <1>4, <1>5, <1>9, <2>1, <3>1
    <3> QED
      BY <1>10, <3>2 DEF Expanding
  <2>2. CASE j' = j + 1 /\ k + r = Pow2[j + 1]
    <3>1. MaxRun' = RunAt(j + 1)
      BY <2>0, <2>2
    <3>2. Pow2[j'] <= k' /\ k' < Pow2[j' + 1] /\ k' % MaxRun' = 0 /\ k' = Pow2[j']
      BY <1>0, <1>2, <1>4, <1>9, <2>2, <3>1
    <3> QED
      BY <1>10, <3>2 DEF Expanding
  <2> QED
    BY <1>9, <2>1, <2>2
<1>14. pc' = "expand" /\ Opening'
  BY DEF TreeInv, Opening, ExpandChunk
<1> QED
  BY <1>12, <1>13, <1>14 DEF TreeInv, Expanded, Deriving, Recovered

\* The leaves are copied from a tree that is complete.
LEMMA CopyLeavesPreserves == ASSUME TreeInv, CopyLeaves PROVE TreeInv'
<1>1. LOG \in Nat /\ LOG >= 1 /\ NB_EVALS \in Nat /\ NB_EVALS = Pow2[LOG]
  BY Sizes
<1>2. \A n \in SmallNodes : node[n] = n
  <2>1. \A n \in 2..2*NB_EVALS-1 : node[n] = n
    BY <1>1 DEF TreeInv, Expanding, CopyLeaves
  <2> QED
    BY <2>1 DEF SmallNodes
<1>3. ASSUME NEW i \in LeafNumbers
      PROVE  NB_EVALS + i \in SmallNodes /\ node[NB_EVALS + i] = NB_EVALS + i
  <2>1. NB_EVALS + i \in SmallNodes
    BY Sizes DEF SmallNodes, LeafNumbers
  <2> QED
    BY <1>2, <2>1
<1>4. lseed' = [i \in LeafNumbers |-> NB_EVALS + i]
  BY <1>3 DEF CopyLeaves
<1>5. TreeTypeOK'
  <2>1. lseed' \in [LeafNumbers -> SmallSeeds]
    BY <1>3, <1>4 DEF SmallSeeds
  <2> QED
    BY <2>1 DEF TreeInv, TreeTypeOK, CopyLeaves, VerifierIdle
<1>6. Expanded'
  BY <1>2, <1>4 DEF Expanded, CopyLeaves
<1>7. pc' = "open" /\ Opening'
  BY DEF TreeInv, Opening, CopyLeaves
<1> QED
  BY <1>5, <1>6, <1>7 DEF TreeInv, Expanding, Deriving, Recovered

\* A failure changes nothing but pc.
LEMMA FailurePreserves ==
  ASSUME TreeInv, ExpandFails \/ Refused \/ PartialFails PROVE TreeInv'
<1>1. /\ pc' = "error" /\ UNCHANGED <<i_star, node, lseed, opening, vnode, vlseed, j, part, k>>
  BY DEF ExpandFails, Refused, PartialFails, VerifierIdle, SignerIdle
<1>2. TreeTypeOK'
  BY <1>1 DEF TreeInv, TreeTypeOK
<1>3. Opening'
  BY <1>1 DEF TreeInv, Opening
<1> QED
  BY <1>1, <1>2, <1>3 DEF TreeInv, Expanding, Expanded, Deriving, Recovered

\* Both openings are the siblings of the hidden path.
LEMMA OpeningsExact ==
  ASSUME TreeInv, pc \in {"open", "opened", "partial", "done"}, i_star \in LeafNumbers
  PROVE  /\ SmallGGMTree_Open(node, i_star) = [h \in Levels |-> Sibling(Ancestor(i_star, h))]
         /\ SmallGGMTree_ExpandPath(i_star).path = [h \in Levels |-> Sibling(Ancestor(i_star, h))]
         /\ SmallGGMTree_ExpandPath(i_star).parent = NB_EVALS + i_star
<1>1. \A n \in SmallNodes : node[n] = n
  BY DEF TreeInv, Expanded
<1>2. \A h \in Levels : node[Sibling(Ancestor(i_star, h))] = Sibling(Ancestor(i_star, h))
  BY <1>1, PathSiblings
<1> QED
  BY <1>2, WalkExact DEF SmallGGMTree_Open

\* The tree is opened.
LEMMA OpenPreserves == ASSUME TreeInv, Open PROVE TreeInv'
<1>1. i_star \in LeafNumbers
  BY HiddenLeaf DEF Open
<1>2. opening' = [h \in Levels |-> Sibling(Ancestor(i_star, h))]
  BY <1>1, OpeningsExact DEF Open
<1>3. \A h \in Levels : Sibling(Ancestor(i_star, h)) \in SmallSeeds
  BY <1>1, PathSiblings DEF SmallSeeds
<1>4. TreeTypeOK'
  <2>1. opening' \in [Levels -> SmallSeeds]
    BY <1>2, <1>3
  <2> QED
    BY <2>1 DEF TreeInv, TreeTypeOK, Open, VerifierIdle
<1>5. pc' = "opened" /\ i_star' = i_star /\ Opening'
  BY <1>1, <1>2 DEF Open, Opening
<1>6. Expanded'
  BY DEF TreeInv, Expanded, Open
<1> QED
  BY <1>4, <1>5, <1>6 DEF TreeInv, Expanding, Deriving, Recovered

\* The walk fails half way.
LEMMA OpenFailsPreserves == ASSUME TreeInv, OpenFails PROVE TreeInv'
<1>1. i_star \in LeafNumbers
  BY HiddenLeaf DEF OpenFails
<1>2. SmallGGMTree_ExpandPath(i_star).path = [h \in Levels |-> Sibling(Ancestor(i_star, h))]
  BY <1>1, WalkExact
<1>3. PICK l \in Levels : opening' = [h \in Levels |->
       IF h > LOG - 1 - l THEN SmallGGMTree_ExpandPath(i_star).path[h] ELSE opening[h]]
  BY DEF OpenFails
<1>4. \A h \in Levels : Sibling(Ancestor(i_star, h)) \in SmallSeeds
  BY <1>1, PathSiblings DEF SmallSeeds
<1>5. opening \in [Levels -> SmallSeeds]
  BY TreeTypes DEF TreeInv
<1>6. \A h \in Levels : opening'[h] = Sibling(Ancestor(i_star, h)) \/ opening'[h] = opening[h]
  BY <1>2, <1>3
<1>7. TreeTypeOK'
  <2>1. opening' \in [Levels -> SmallSeeds]
    BY <1>3, <1>4, <1>5, <1>6
  <2> QED
    BY <2>1 DEF TreeInv, TreeTypeOK, OpenFails, VerifierIdle
<1>8. pc' = "error" /\ i_star' = i_star
  BY DEF OpenFails
<1>9. Opening'
  <2>1. \A h \in Levels : \/ opening[h] = Junk
                          \/ i_star \in LeafNumbers /\ opening[h] = Sibling(Ancestor(i_star, h))
    BY DEF TreeInv, Opening
  <2>2. \A h \in Levels : \/ opening'[h] = Junk
                          \/ i_star \in LeafNumbers /\ opening'[h] = Sibling(Ancestor(i_star, h))
    BY <1>1, <1>6, <2>1
  <2> QED
    BY <1>8, <2>2 DEF Opening
<1> QED
  BY <1>7, <1>8, <1>9 DEF TreeInv, Expanding, Expanded, Deriving, Recovered

\* The holes: the ancestors of the hidden leaf, level by level.
LEMMA HoleFacts ==
  ASSUME i_star \in LeafNumbers, NEW l \in 1..LOG
  PROVE  /\ AtLevel(Hole(l), l) /\ Hole(l) \in SmallNodes /\ LOG - l \in Levels
         /\ Pow2[l] <= Hole(l) /\ Hole(l) < Pow2[l + 1] /\ Hole(l) \in Nat
         /\ Hole(l) = Ancestor(i_star, LOG - l)
         /\ Hole(LOG) = NB_EVALS + i_star
<1>0. LOG \in Nat /\ l \in 0..LOG /\ LOG - l \in Levels /\ LOG - (LOG - l) = l /\ LOG - l \in 0..LOG
      /\ LOG - LOG = 0
  BY Depth DEF Levels
<1>1. Hole(l) = Ancestor(i_star, LOG - l) /\ Hole(LOG) = Ancestor(i_star, 0)
  BY <1>0 DEF Hole
<1>2. AtLevel(Ancestor(i_star, LOG - l), l) /\ Ancestor(i_star, LOG - l) \in SmallNodes
  BY <1>0, PathSiblings
<1>3. Ancestor(i_star, 0) = NB_EVALS + i_star
  BY <1>0, AncestorFacts
<1>4. Pow2[l] <= Hole(l) /\ Hole(l) < Pow2[l + 1] /\ Hole(l) \in Nat
  BY <1>0, <1>1, <1>2, LevelFacts
<1> QED
  BY <1>0, <1>1, <1>2, <1>3, <1>4

\* The path is copied into the verifier's tree.
LEMMA CopyPathPreserves == ASSUME TreeInv, CopyPath PROVE TreeInv'
<1> DEFINE s(h) == Sibling(Ancestor(i_star, h))
<1>0. /\ LOG \in Nat /\ 1 \in 1..LOG /\ 1 < LOG /\ i_star \in LeafNumbers /\ LOG - 1 \in Levels
      /\ (LOG - 1) + 1 = LOG /\ LOG - (LOG - 1) = 1 /\ 1 \in 0..LOG
  BY Depth, HiddenLeaf DEF CopyPath, Levels
<1>1. \A h \in Levels : opening[h] = s(h) /\ s(h) \in SmallNodes
  BY <1>0, PathSiblings DEF TreeInv, Opening, CopyPath
<1>2. /\ vnode \in [Indexes -> SmallSeeds]
      /\ SmallNodes \subseteq Indexes /\ SmallNodes \subseteq SmallSeeds
  BY Sizes, TreeTypes DEF TreeInv, SmallNodes, Indexes, SmallSeeds
<1>3. vnode' = [n \in Indexes |->
       IF \E h \in Levels : n = s(h) THEN opening[CHOOSE h \in Levels : n = s(h)] ELSE vnode[n]]
  BY DEF CopyPath
<1> HIDE DEF s
<1>4. \A n : (\E h \in Levels : n = s(h)) => opening[CHOOSE h \in Levels : n = s(h)] = n
  BY <1>1
<1>5. vnode' = [n \in Indexes |-> IF \E h \in Levels : n = s(h) THEN n ELSE vnode[n]]
  BY <1>3, <1>4
<1>6. vnode' \in [Indexes -> SmallSeeds]
  BY <1>1, <1>2, <1>5
<1>7. \A h \in Levels : vnode'[s(h)] = s(h)
  BY <1>1, <1>2, <1>5
<1>8. Pow2[1] = 2 /\ Pow2[1 + 1] = 4
  <2>1. 0 \in 0..LOG /\ 1 \in 0..LOG
    BY <1>0
  <2>2. Pow2[0] = 1 /\ Pow2[0 + 1] = 2 * Pow2[0] /\ Pow2[1 + 1] = 2 * Pow2[1]
    BY <2>1, Powers
  <2> QED
    BY <2>2
<1>9. j' = 1 /\ part' = 0 /\ k' = 2 /\ pc' = "partial" /\ i_star' = i_star
  BY DEF CopyPath, SignerIdle
<1>10. TreeTypeOK'
  <2>1. k' \in 0..Pow2[j' + 1] + CHUNK - 1
    BY <1>8, <1>9, RunFacts
  <2> QED
    BY <1>0, <1>6, <1>9, <2>1 DEF TreeInv, TreeTypeOK, CopyPath, SignerIdle
<1>11. ASSUME NEW n \in SmallNodes, AtLevel(n, 1), n # Ancestor(i_star, LOG - 1)
       PROVE  vnode'[n] = n
  <2>1. Ancestor(i_star, LOG) = 1
    BY <1>0, AncestorFacts
  <2>2. n \in Nat /\ n \div 2 = 1
    BY <1>8, <1>11 DEF AtLevel
  <2>3. n \in {Ancestor(i_star, LOG - 1), s(LOG - 1)}
    BY <1>0, <2>1, <2>2, PathSiblings DEF s
  <2> QED
    BY <1>0, <1>7, <1>11, <2>3
<1>12. \A p : AtLevel(p, 1) => ~(p < 2)
  BY <1>8 DEF AtLevel
<1>13. Deriving'
  <2>1. \A h \in Levels : vnode'[Sibling(Ancestor(i_star', h))] = Sibling(Ancestor(i_star', h))
    BY <1>7, <1>9 DEF s
  <2>2. Hole(j)' = Ancestor(i_star, LOG - 1)
    BY <1>9 DEF Hole
  <2>3. RunStart(j, part)' = 2
    BY <1>8, <1>9 DEF RunStart
  <2>4. \A p : AtLevel(p, 1) => ~PassedBy(p)'
    BY <1>9, <1>12 DEF PassedBy
  <2> QED
    BY <1>0, <1>9, <1>11, <2>1, <2>2, <2>3, <2>4 DEF Deriving
<1>14. Expanded' /\ Opening'
  BY DEF TreeInv, Expanded, Opening, CopyPath, SignerIdle
<1> QED
  BY <1>9, <1>10, <1>13, <1>14 DEF TreeInv, Expanding, Recovered

\* A run of the verifier is ready: its nodes are at the level, and none is the hole.
LEMMA RunReady ==
  ASSUME TreeInv, pc = "partial", j < LOG, k < RunEnd(j, part)
  PROVE  /\ RunLength \in Nat \ {0} /\ RunLength <= MaxRun /\ MaxRun \in Nat /\ MaxRun <= CHUNK
         /\ k + RunLength <= RunEnd(j, part)
         /\ RunLength = MaxRun \/ k + RunLength = RunEnd(j, part)
         /\ k \in Nat /\ RunEnd(j, part) <= Pow2[j + 1]
         /\ \A p \in k..k+RunLength-1 : vnode[p] = p
         /\ Ready(vnode, j, k, RunLength)
<1>0. /\ LOG \in Nat /\ j \in 1..LOG-1 /\ j \in 1..LOG /\ j \in 0..LOG /\ part \in {0, 1}
      /\ RunStart(j, part) <= k /\ i_star \in LeafNumbers
      /\ \A n \in SmallNodes : AtLevel(n, j) /\ n # Hole(j) => vnode[n] = n
  BY Depth, TreeTypes, HiddenLeaf DEF TreeInv, Deriving
<1>1. /\ MaxRun \in Nat \ {0} /\ MaxRun <= CHUNK /\ CHUNK \in Nat
  BY <1>0, RunFacts DEF MaxRun, RunAt
<1>2. /\ Pow2[j] \in Nat /\ Pow2[j + 1] \in Nat /\ Pow2[j] <= Hole(j) /\ Hole(j) < Pow2[j + 1]
      /\ Hole(j) \in Nat
  <2>1. j \in 0..LOG+1 /\ j + 1 \in 0..LOG+1
    BY <1>0
  <2> QED
    BY <1>0, <2>1, HoleFacts, Powers
<1>3. k \in Nat
  BY <1>0, <1>1, <1>2, TreeTypes DEF TreeInv
<1>4. /\ RunEnd(j, part) \in Nat /\ RunEnd(j, part) <= Pow2[j + 1] /\ Pow2[j] <= k
      /\ part = 0 => RunEnd(j, part) = Hole(j)
      /\ part = 1 => Hole(j) < k
  BY <1>0, <1>2, <1>3 DEF RunEnd, RunStart
<1> DEFINE e == RunEnd(j, part)
<1>5. RunLength = IF e - k <= MaxRun THEN e - k ELSE MaxRun
  <2>1. e - k \in Int
    BY <1>3, <1>4
  <2> QED
    BY <1>1, <2>1, MinOfTwo DEF RunLength
<1> HIDE DEF e
<1>6. /\ RunLength \in Nat \ {0} /\ RunLength <= MaxRun /\ k + RunLength <= e
      /\ RunLength = MaxRun \/ k + RunLength = e
  BY <1>1, <1>3, <1>4, <1>5 DEF e
<1>7. ASSUME NEW p \in k..k+RunLength-1 PROVE vnode[p] = p
  <2>1. p \in Nat /\ p < e /\ k <= p
    BY <1>3, <1>4, <1>6 DEF e
  <2>2. AtLevel(p, j)
    BY <1>2, <1>3, <1>4, <2>1 DEF AtLevel, e
  <2>3. p # Hole(j)
    BY <1>0, <1>2, <1>3, <1>4, <2>1 DEF e
  <2>4. p \in SmallNodes
    BY <1>0, <2>2, LevelFacts
  <2> QED
    BY <1>0, <2>2, <2>3, <2>4
<1>8. Ready(vnode, j, k, RunLength)
  BY <1>0, <1>2, <1>3, <1>4, <1>6, <1>7 DEF Ready, e
<1> QED
  BY <1>1, <1>3, <1>4, <1>6, <1>7, <1>8 DEF e

\* A run is derived: the nodes of the level stay, their children come in.
LEMMA DeriveRunPreserves == ASSUME TreeInv, DeriveRun PROVE TreeInv'
<1> DEFINE r == RunLength
           e == RunEnd(j, part)
<1>0. pc = "partial" /\ j < LOG /\ k < RunEnd(j, part)
  BY DEF DeriveRun
<1>1. /\ LOG \in Nat /\ j \in 1..LOG-1 /\ j \in 1..LOG /\ j \in 0..LOG /\ part \in {0, 1}
      /\ RunStart(j, part) <= k /\ i_star \in LeafNumbers
      /\ vnode \in [Indexes -> SmallSeeds] /\ SmallNodes \subseteq Indexes
      /\ Hole(j) \in Nat /\ Hole(j) < Pow2[j + 1] /\ Pow2[j] <= Hole(j)
      /\ Pow2[j] \in Nat /\ Pow2[j + 1] \in Nat
  <2>1. /\ LOG \in Nat /\ j \in 1..LOG-1 /\ j \in 1..LOG /\ j \in 0..LOG /\ part \in {0, 1}
        /\ RunStart(j, part) <= k /\ i_star \in LeafNumbers
        /\ vnode \in [Indexes -> SmallSeeds]
    BY <1>0, Depth, TreeTypes, HiddenLeaf DEF TreeInv, Deriving
  <2>2. SmallNodes \subseteq Indexes
    BY Sizes DEF SmallNodes, Indexes
  <2>3. j \in 0..LOG+1 /\ j + 1 \in 0..LOG+1
    BY <2>1
  <2> QED
    BY <2>1, <2>2, <2>3, HoleFacts, Powers
<1>2. /\ r \in Nat \ {0} /\ MaxRun \in Nat /\ MaxRun <= CHUNK /\ k \in Nat /\ CHUNK \in Nat
      /\ k + r <= e /\ (r = MaxRun \/ k + r = e) /\ e <= Pow2[j + 1]
      /\ Ready(vnode, j, k, r) /\ k < e
  BY <1>0, RunReady, RunFacts
<1>3. /\ vnode' = [n \in Indexes |-> IF n \div 2 \in k..k+r-1 THEN n ELSE vnode[n]]
      /\ vnode' \in [Indexes -> SmallSeeds]
  BY <1>1, <1>2, BulkExact, BulkTyped DEF DeriveRun
<1>4. k' = k + MaxRun /\ UNCHANGED <<i_star, node, lseed, opening, vlseed, j, part, pc>>
  BY DEF DeriveRun, SignerIdle
<1> HIDE DEF r
<1>5. \A n \in SmallNodes : vnode[n] = n => vnode'[n] = n
  BY <1>1, <1>3
<1>6. TreeTypeOK'
  <2>1. e \in Nat /\ MaxRun \in Nat /\ CHUNK \in Nat
    BY <1>1, <1>2 DEF RunEnd
  <2> HIDE DEF e
  <2>2. k' \in 0..Pow2[j' + 1] + CHUNK - 1
    BY <1>1, <1>2, <1>4, <2>1
  <2> QED
    BY <1>3, <1>4, <2>2 DEF TreeInv, TreeTypeOK
<1>7. \A h \in Levels : LET x == Sibling(Ancestor(i_star, h)) IN vnode'[x] = x
  BY <1>0, <1>1, <1>5, PathSiblings DEF TreeInv, Deriving
<1>8. \A n \in SmallNodes : AtLevel(n, j) /\ n # Hole(j) => vnode'[n] = n
  BY <1>0, <1>5 DEF TreeInv, Deriving
<1>9. ASSUME NEW p \in SmallNodes, AtLevel(p, j), PassedBy(p)'
      PROVE  vnode'[2 * p] = 2 * p /\ vnode'[2 * p + 1] = 2 * p + 1
  <2>1. p \in Nat /\ p < Pow2[j + 1] /\ 2 * p \in SmallNodes /\ 2 * p + 1 \in SmallNodes
    BY <1>0, <1>1, <1>9, LevelFacts
  <2>2. \/ p < Hole(j) /\ (part = 1 \/ p < k + MaxRun)
        \/ p > Hole(j) /\ part = 1 /\ p < k + MaxRun
    BY <1>4, <1>9 DEF PassedBy, Hole
  <2>3. CASE p \in k..k+r-1
    <3>1. (2 * p) \div 2 = p /\ (2 * p + 1) \div 2 = p
      BY <2>1
    <3> QED
      BY <1>1, <1>3, <2>1, <2>3, <3>1
  <2>4. CASE p \notin k..k+r-1
    <3>1. p < k \/ p >= k + r
      BY <1>2, <2>1, <2>4
    <3>2. PassedBy(p)
      <4>1. CASE part = 0
        <5>1. e = Hole(j)
          BY <4>1 DEF RunEnd
        <5> HIDE DEF e
        <5> QED
          BY <1>1, <1>2, <2>1, <2>2, <3>1, <4>1, <5>1 DEF PassedBy
      <4>2. CASE part = 1
        <5>1. e = Pow2[j + 1]
          BY <4>2 DEF RunEnd
        <5> HIDE DEF e
        <5> QED
          BY <1>1, <1>2, <2>1, <2>2, <3>1, <4>2, <5>1 DEF PassedBy
      <4> QED
        BY <1>1, <4>1, <4>2
    <3>3. vnode[2 * p] = 2 * p /\ vnode[2 * p + 1] = 2 * p + 1
      BY <1>0, <1>9, <3>2 DEF TreeInv, Deriving
    <3> QED
      BY <1>5, <2>1, <3>3
  <2> QED
    BY <2>3, <2>4
<1>10. RunStart(j, part) <= k + MaxRun
  <2>1. RunStart(j, part) \in Nat
    BY <1>1 DEF RunStart
  <2> QED
    BY <1>1, <1>2, <2>1
<1>11. Deriving'
  <2>1. RunStart(j, part)' = RunStart(j, part) /\ Hole(j)' = Hole(j)
    BY <1>4 DEF RunStart, Hole
  <2>2. j' \in 1..LOG /\ j' < LOG
    BY <1>0, <1>1, <1>4
  <2> QED
    BY <1>0, <1>4, <1>7, <1>8, <1>9, <1>10, <2>1, <2>2 DEF Deriving
<1>12. Expanded' /\ Opening'
  BY <1>4 DEF TreeInv, Expanded, Opening
<1> QED
  BY <1>0, <1>4, <1>6, <1>11, <1>12 DEF TreeInv, Expanding, Recovered

\* Below a level that is derived, only the hole is missing.
LEMMA NextLevelKnown ==
  ASSUME TreeInv, pc = "partial", j < LOG, part = 1, k >= Pow2[j + 1],
         NEW n \in SmallNodes, AtLevel(n, j + 1), n # Hole(j + 1)
  PROVE  vnode[n] = n
<1>0. /\ LOG \in Nat /\ j \in 1..LOG /\ j \in 0..LOG /\ j + 1 \in 1..LOG /\ j + 1 \in 0..LOG
      /\ i_star \in LeafNumbers /\ (j + 1) - 1 = j /\ j + 1 >= 1 /\ LOG - (j + 1) \in Levels
      /\ (LOG - (j + 1)) + 1 = LOG - j /\ k \in Nat
  <2>1. LOG \in Nat /\ j \in 1..LOG /\ i_star \in LeafNumbers
    BY Depth, HiddenLeaf DEF TreeInv, Deriving
  <2>2. CHUNK \in Nat /\ Pow2[j + 1] \in Nat
    BY <2>1, RunFacts, Powers
  <2>3. k \in Nat
    BY <2>2, TreeTypes DEF TreeInv
  <2> QED
    BY <2>1, <2>3 DEF Levels
<1> DEFINE p == n \div 2
<1>1. AtLevel(p, j) /\ n \in Nat
  BY <1>0, LevelFacts
<1>2. p \in SmallNodes /\ p \in Nat /\ p < Pow2[j + 1] /\ Pow2[j + 1] \in Nat
  <2> HIDE DEF p
  <2>1. p \in SmallNodes /\ p \in Nat /\ p < Pow2[j + 1] /\ Pow2[j + 1] = 2 * Pow2[j]
        /\ Pow2[j] \in Nat
    BY <1>0, <1>1, LevelFacts
  <2> QED
    BY <2>1
<1>3. n = 2 * p \/ n = 2 * p + 1
  BY <1>1
<1>4. CASE p = Hole(j)
  <2>1. n \div 2 = Ancestor(i_star, (LOG - (j + 1)) + 1)
    BY <1>0, <1>4 DEF Hole
  <2>2. n \in {Ancestor(i_star, LOG - (j + 1)), Sibling(Ancestor(i_star, LOG - (j + 1)))}
    BY <1>0, <1>1, <2>1, PathSiblings
  <2>3. n = Sibling(Ancestor(i_star, LOG - (j + 1)))
    BY <2>2 DEF Hole
  <2> QED
    BY <1>0, <2>3 DEF TreeInv, Deriving
<1>5. CASE p # Hole(j)
  <2>1. Hole(j) \in Nat
    BY <1>0, HoleFacts
  <2> HIDE DEF p
  <2>2. PassedBy(p)
    BY <1>0, <1>2, <1>5, <2>1 DEF PassedBy
  <2>3. vnode[2 * p] = 2 * p /\ vnode[2 * p + 1] = 2 * p + 1
    BY <1>1, <1>2, <2>2 DEF TreeInv, Deriving
  <2> QED
    BY <1>3, <2>3
<1> QED
  BY <1>4, <1>5

\* A part of a level is done.
LEMMA NextPartPreserves == ASSUME TreeInv, NextPart PROVE TreeInv'
<1>0. /\ pc = "partial" /\ j < LOG /\ k >= RunEnd(j, part) /\ pc' = pc
      /\ UNCHANGED <<vnode, vlseed, i_star, node, lseed, opening>>
  BY DEF NextPart, SignerIdle
<1>1. /\ LOG \in Nat /\ j \in 1..LOG-1 /\ j \in 1..LOG /\ j \in 0..LOG /\ part \in {0, 1}
      /\ j + 1 \in 0..LOG /\ j + 1 \in 1..LOG /\ i_star \in LeafNumbers
      /\ Hole(j) \in Nat /\ Hole(j) < Pow2[j + 1]
      /\ Pow2[j + 1] \in Nat /\ CHUNK \in Nat \ {0} /\ Pow2[(j + 1) + 1] = 2 * Pow2[j + 1]
      /\ k \in Nat
  <2>1. /\ LOG \in Nat /\ j \in 1..LOG-1 /\ j \in 1..LOG /\ j \in 0..LOG /\ part \in {0, 1}
        /\ i_star \in LeafNumbers
    BY <1>0, Depth, TreeTypes, HiddenLeaf DEF TreeInv, Deriving
  <2>2. j + 1 \in 0..LOG /\ j + 1 \in 1..LOG /\ j + 1 \in 0..LOG+1
    BY <2>1
  <2>3. Pow2[j + 1] \in Nat /\ CHUNK \in Nat \ {0} /\ Pow2[(j + 1) + 1] = 2 * Pow2[j + 1]
    BY <2>2, RunFacts, Powers
  <2>4. k \in Nat
    BY <2>3, TreeTypes DEF TreeInv
  <2> QED
    BY <2>1, <2>2, <2>3, <2>4, HoleFacts
<1>2. \A h \in Levels : LET x == Sibling(Ancestor(i_star, h)) IN vnode[x] = x
  BY <1>0 DEF TreeInv, Deriving
<1>3. CASE part = 0
  <2>1. part' = 1 /\ j' = j /\ k' = Hole(j) + 1 /\ k >= Hole(j)
    BY <1>0, <1>3 DEF NextPart, RunStart, RunEnd
  <2>2. Hole(j)' = Hole(j) /\ RunStart(j, part)' = Hole(j) + 1
    BY <1>0, <2>1 DEF Hole, RunStart
  <2>3. ASSUME NEW p \in SmallNodes, AtLevel(p, j), PassedBy(p)'
        PROVE  vnode[2 * p] = 2 * p /\ vnode[2 * p + 1] = 2 * p + 1
    <3>1. p \in Nat
      BY <1>1, <2>3, LevelFacts
    <3>2. p < Hole(j) \/ (p > Hole(j) /\ p < Hole(j) + 1)
      BY <2>1, <2>2, <2>3 DEF PassedBy
    <3>3. PassedBy(p)
      BY <1>1, <2>1, <3>1, <3>2 DEF PassedBy
    <3> QED
      BY <1>0, <2>3, <3>3 DEF TreeInv, Deriving
  <2>4. TreeTypeOK'
    <3>1. k' \in 0..Pow2[j' + 1] + CHUNK - 1
      BY <1>1, <2>1
    <3> QED
      BY <1>0, <2>1, <3>1 DEF TreeInv, TreeTypeOK
  <2>5. \A n \in SmallNodes : AtLevel(n, j) /\ n # Hole(j) => vnode[n] = n
    BY <1>0 DEF TreeInv, Deriving
  <2>6. j' < LOG /\ j' \in 1..LOG /\ j' # LOG /\ Hole(j) + 1 <= k'
    BY <1>0, <1>1, <2>1
  <2>7. Deriving'
    BY <1>0, <1>2, <2>1, <2>2, <2>3, <2>5, <2>6 DEF Deriving
  <2>8. Expanded' /\ Opening'
    BY <1>0 DEF TreeInv, Expanded, Opening
  <2> QED
    BY <1>0, <2>4, <2>7, <2>8 DEF TreeInv, Expanding, Recovered
<1>4. CASE part = 1
  <2>1. part' = 0 /\ j' = j + 1 /\ k' = Pow2[j + 1] /\ k >= Pow2[j + 1]
    BY <1>0, <1>4 DEF NextPart, RunStart, RunEnd
  <2>2. Hole(j)' = Hole(j + 1) /\ RunStart(j, part)' = Pow2[j + 1]
    BY <1>0, <2>1 DEF Hole, RunStart
  <2>3. \A n \in SmallNodes : AtLevel(n, j + 1) /\ n # Hole(j + 1) => vnode[n] = n
    BY <1>0, <1>4, <2>1, NextLevelKnown
  <2>4. TreeTypeOK'
    <3>1. k' \in 0..Pow2[j' + 1] + CHUNK - 1
      BY <1>1, <2>1
    <3> QED
      BY <1>0, <1>1, <2>1, <3>1 DEF TreeInv, TreeTypeOK
  <2>5. ASSUME NEW p, AtLevel(p, j + 1) PROVE ~PassedBy(p)'
    <3>1. p \in Nat /\ Pow2[j + 1] <= p
      BY <1>1, <2>5, LevelFacts
    <3> QED
      BY <1>1, <2>1, <3>1 DEF PassedBy
  <2>6. j' \in 1..LOG /\ Pow2[j + 1] <= k'
    BY <1>1, <2>1
  <2>7. Deriving'
    BY <1>0, <1>2, <2>1, <2>2, <2>3, <2>5, <2>6 DEF Deriving
  <2>8. Expanded' /\ Opening'
    BY <1>0 DEF TreeInv, Expanded, Opening
  <2> QED
    BY <1>0, <2>4, <2>7, <2>8 DEF TreeInv, Expanding, Recovered
<1> QED
  BY <1>1, <1>3, <1>4

\* The known leaves are copied.
LEMMA CopyKnownLeavesPreserves == ASSUME TreeInv, CopyKnownLeaves PROVE TreeInv'
<1>0. pc = "partial" /\ j = LOG /\ LOG \in 1..LOG /\ LOG \in 0..LOG /\ LOG \in Nat
  BY Depth DEF CopyKnownLeaves
<1>1. i_star \in LeafNumbers /\ Hole(LOG) = NB_EVALS + i_star
  BY <1>0, HiddenLeaf, HoleFacts
<1>2. ASSUME NEW i \in LeafNumbers
      PROVE  NB_EVALS + i \in SmallNodes /\ (i # i_star => vnode[NB_EVALS + i] = NB_EVALS + i)
  <2>1. NB_EVALS + i \in SmallNodes
    BY Sizes DEF SmallNodes, LeafNumbers
  <2>2. AtLevel(NB_EVALS + i, LOG)
    BY Sizes DEF AtLevel, LeafNumbers
  <2>3. i # i_star => NB_EVALS + i # Hole(LOG)
    BY <1>1, Sizes DEF LeafNumbers
  <2> QED
    BY <1>0, <2>1, <2>2, <2>3 DEF TreeInv, Deriving
<1>3. vlseed' = [i \in LeafNumbers |-> IF i = i_star THEN ZeroSeed ELSE NB_EVALS + i]
  BY <1>2 DEF CopyKnownLeaves
<1>4. TreeTypeOK'
  <2>1. vlseed' \in [LeafNumbers -> SmallSeeds]
    BY <1>2, <1>3 DEF SmallSeeds
  <2> QED
    BY <2>1 DEF TreeInv, TreeTypeOK, CopyKnownLeaves, SignerIdle
<1>5. pc' = "done" /\ i_star' = i_star /\ Recovered'
  BY <1>3 DEF Recovered, CopyKnownLeaves, SignerIdle
<1>6. Expanded' /\ Opening'
  BY DEF TreeInv, Expanded, Opening, CopyKnownLeaves, SignerIdle
<1> QED
  BY <1>4, <1>5, <1>6 DEF TreeInv, Expanding, Deriving

\* A step that leaves the tree alone keeps it.
LEMMA TreeStutters == ASSUME TreeInv, UNCHANGED treeVars PROVE TreeInv'
BY DEF treeVars, TreeInv, TreeTypeOK, Expanding, Expanded, Opening, Deriving, Recovered,
       MaxRun, Hole, PassedBy, RunStart

\* Every step of the tree keeps the invariant.
LEMMA TreeNextPreserves == ASSUME TreeInv, TreeNext PROVE TreeInv'
BY ExpandRootPreserves, ExpandChunkPreserves, CopyLeavesPreserves, FailurePreserves,
   OpenPreserves, OpenFailsPreserves, CopyPathPreserves, DeriveRunPreserves,
   NextPartPreserves, CopyKnownLeavesPreserves DEF TreeNext

\* What the iterators do leaves the tree alone.
LEMMA IterateLeavesTree == Iterate => UNCHANGED treeVars
BY DEF Iterate, InitIncremental, Call, GetNextLeaf, GetNextLeafPartial, GetNextLeafFails,
       GetNextLeafDone, Begun, Given

\* Every step of the specification keeps it.
LEMMA TreeStep == TreeInv /\ [Next]_vars => TreeInv'
<1> SUFFICES ASSUME TreeInv, [Next]_vars PROVE TreeInv'
  OBVIOUS
<1>1. CASE TreeNext
  BY <1>1, TreeNextPreserves
<1>2. CASE UNCHANGED treeVars
  BY <1>2, TreeStutters
<1>3. CASE Iterate
  BY <1>3, IterateLeavesTree, TreeStutters
<1>4. CASE UNCHANGED vars
  BY <1>4, TreeStutters DEF vars
<1> QED
  BY <1>1, <1>2, <1>3, <1>4 DEF Next

\* What the expansions keep: the arrays have seeds of the tree up to where they are
\* filled, and what is revealed is beside the hidden path.
LEMMA TreeInvariance == Spec => []TreeInv
<1>1. Init => TreeInv
  BY TreeInitEstablishes DEF Init
<1> QED
  BY <1>1, TreeStep, PTL DEF Spec

\* The kept tree: both ways of opening it reveal the same seeds, none from which the
\* hidden leaf could be derived, and the verifier has every other leaf back.
THEOREM TreeOpens == Spec => []KeptTreeOpens
<1>1. ASSUME TreeInv PROVE OpeningsAgree
  <2> SUFFICES ASSUME pc = "open", i_star < NB_EVALS
               PROVE  LET walk == SmallGGMTree_ExpandPath(i_star)
                      IN  /\ walk.path = SmallGGMTree_Open(node, i_star)
                          /\ walk.parent = lseed[i_star]
                          /\ walk.path = [h \in Levels |-> Sibling(Ancestor(i_star, h))]
    BY DEF OpeningsAgree
  <2>1. i_star \in LeafNumbers
    BY <1>1, HiddenLeaf
  <2>2. lseed[i_star] = NB_EVALS + i_star
    BY <1>1, <2>1 DEF TreeInv, Expanded
  <2> QED
    BY <1>1, <2>1, <2>2, OpeningsExact
<1>2. ASSUME TreeInv PROVE HiddenPathSecret
  <2> SUFFICES ASSUME NEW h \in Levels, NEW l \in Levels PROVE opening[h] # Ancestor(i_star, l)
    BY DEF HiddenPathSecret
  <2>1. CASE opening[h] = Junk
    <3>1. Ancestor(i_star, l) \in Nat
      <4>1. NB_EVALS + i_star \in Nat /\ Pow2[l] \in Nat \ {0}
        <5>1. l \in 0..LOG+1
          BY Depth DEF Levels
        <5> QED
          BY <1>2, <5>1, TreeTypes, Sizes, Powers DEF TreeInv
      <4> QED
        BY <4>1, DivMod DEF Ancestor
    <3> QED
      BY <2>1, <3>1 DEF Junk
  <2>2. CASE i_star \in LeafNumbers /\ opening[h] = Sibling(Ancestor(i_star, h))
    BY <2>2, PathSiblings
  <2> QED
    BY <1>2, <2>1, <2>2 DEF TreeInv, Opening
<1>3. ASSUME TreeInv PROVE LeavesRecovered
  <2> SUFFICES ASSUME pc = "done"
               PROVE  /\ lseed = [i \in LeafNumbers |-> NB_EVALS + i]
                      /\ vlseed = [lseed EXCEPT ![i_star] = ZeroSeed]
    BY DEF LeavesRecovered
  <2>1. /\ lseed = [i \in LeafNumbers |-> NB_EVALS + i]
        /\ vlseed = [i \in LeafNumbers |-> IF i = i_star THEN ZeroSeed ELSE NB_EVALS + i]
    BY <1>3 DEF TreeInv, Expanded, Recovered
  <2> QED
    BY <2>1
<1>4. TreeInv => KeptTreeOpens
  BY <1>1, <1>2, <1>3 DEF KeptTreeOpens
<1> QED
  BY <1>4, TreeInvariance, PTL

\* A bulk derivation of the verifier reads seeds that were written only.
THEOREM NothingReadEarly == Spec => ReadsOnlyWritten
<1>1. ASSUME TreeInv, DeriveRun PROVE \A p \in k..k+RunLength-1 : vnode[p] # Junk
  <2>1. pc = "partial" /\ j < LOG /\ k < RunEnd(j, part)
    BY <1>1 DEF DeriveRun
  <2>2. k \in Nat /\ \A p \in k..k+RunLength-1 : vnode[p] = p
    BY <1>1, <2>1, RunReady
  <2>3. \A p \in k..k+RunLength-1 : p # Junk
    BY <2>2 DEF Junk
  <2> QED
    BY <2>2, <2>3
<1>2. TreeInv /\ [Next]_vars
        => [DeriveRun => \A p \in k..k+RunLength-1 : vnode[p] # Junk]_treeVars
  BY <1>1
<1> QED
  BY <1>2, TreeInvariance, PTL DEF Spec, ReadsOnlyWritten

-----------------------------------------------------------------------------
(***************************************************************************)
(* The iterators.                                                          *)
(***************************************************************************)

IteratorTypeOK ==
  /\ BATCH_LOG \in BatchLogs /\ partial \in BOOLEAN /\ active \in BOOLEAN
  /\ num_leaf \in 0..Units-1 \/ (num_leaf = Junk /\ ~active)
  /\ path \in [0..PATH -> SmallSeeds]
  /\ lseeds \in Seq(SmallSeeds)
  /\ ret \in {"idle", "ready", "running", "leaf", "done", "error"}
  /\ key_failed \in BOOLEAN

\* A context is used once the tree is there, and a signer's has its first nodes.
ContextReady ==
  /\ active \/ ret # "idle" => pc = "done"
  /\ ~partial /\ ret \notin {"idle", "error"} /\ ~key_failed =>
       path[0] = delta /\ (~active => path[1] = 2)

IteratorInv == TreeInv /\ IteratorTypeOK /\ ContextReady /\ PathIsCurrent

\* Dividing twice is dividing by the product.
LEMMA DivDiv ==
  ASSUME NEW a \in Nat, NEW p \in Nat \ {0}, NEW q \in Nat \ {0}
  PROVE  (a \div p) \div q = a \div (p * q)
<1> DEFINE x == a \div p
           r == a % p
           y == x \div q
           s == x % q
<1>1. x \in Nat /\ r \in 0 .. p - 1 /\ a = p * x + r
  BY DivMod
<1> HIDE DEF x, r
<1>2. y \in Nat /\ s \in 0 .. q - 1 /\ x = q * y + s
  BY <1>1, DivMod
<1> HIDE DEF y, s
<1>3. p * q \in Nat \ {0}
  OBVIOUS
<1>4. p * x = p * (q * y) + p * s
  BY <1>1, <1>2
<1>5. p * (q * y) = y * (p * q)
  BY <1>2
<1>6. p * s + r \in 0 .. p * q - 1
  <2>1. PICK t \in Nat : q = s + 1 + t
    BY <1>2
  <2>2. p * q = p * s + p + p * t /\ p * t \in Nat /\ p * s \in Nat
    BY <1>2, <2>1
  <2> QED
    BY <1>1, <2>2
<1>7. a = y * (p * q) + (p * s + r)
  <2>1. p * x \in Nat /\ p * s \in Nat /\ y * (p * q) \in Nat
    BY <1>1, <1>2
  <2> QED
    BY <1>1, <1>4, <1>5, <2>1
<1>8. a \div (p * q) = y
  BY <1>2, <1>3, <1>6, <1>7, DivModUnique
<1> QED
  BY <1>8 DEF x, y

\* A number whose predecessor has another quotient is a multiple.
LEMMA Carry ==
  ASSUME NEW u \in Nat \ {0}, NEW d \in Nat \ {0}, (u - 1) \div d # u \div d
  PROVE  u = (u \div d) * d
<1> DEFINE q == u \div d
           r == u % d
<1>1. q \in Nat /\ r \in 0 .. d - 1 /\ u = d * q + r
  BY DivMod
<1> HIDE DEF q, r
<1>2. d * q = q * d /\ q * d \in Nat
  BY <1>1
<1>3. ASSUME r # 0 PROVE FALSE
  <2>1. u - 1 = q * d + (r - 1) /\ r - 1 \in 0 .. d - 1
    BY <1>1, <1>2, <1>3
  <2>2. (u - 1) \div d = q
    BY <1>1, <2>1, DivModUnique
  <2> QED
    BY <2>2 DEF q
<1>4. u = q * d
  BY <1>1, <1>2, <1>3
<1> QED
  BY <1>4 DEF q

\* The sizes of a build.
LEMMA Builds ==
  ASSUME BATCH_LOG \in BatchLogs
  PROVE  /\ LOG \in Nat /\ BATCH_LOG \in 0..LOG-1 /\ PATH \in 1..LOG /\ PATH + BATCH_LOG = LOG
         /\ Batch \in Nat \ {0} /\ Batch = Pow2[BATCH_LOG]
         /\ Units \in Nat \ {0} /\ Units = Pow2[PATH] /\ NB_EVALS = Units * Batch
<1>1. LOG \in Nat /\ BATCH_LOG \in 0..LOG-1
  BY Depth, BatchAssumption
<1>2. /\ PATH \in 1..LOG /\ PATH + BATCH_LOG = LOG /\ PATH \in 0..LOG+1
      /\ BATCH_LOG \in 0..LOG+1
  BY <1>1 DEF PATH
<1>3. Pow2[PATH] \in Nat \ {0} /\ Pow2[BATCH_LOG] \in Nat \ {0}
  BY <1>2, Powers
<1>4. NB_EVALS = Pow2[PATH] * Pow2[BATCH_LOG]
  BY <1>1, <1>2, PowProduct, Sizes
<1>5. (Pow2[PATH] * Pow2[BATCH_LOG]) \div Pow2[BATCH_LOG] = Pow2[PATH]
  <2> DEFINE p == Pow2[PATH]
             q == Pow2[BATCH_LOG]
  <2>1. p \in Nat /\ q \in Nat \ {0} /\ 0 \in 0 .. q - 1
    BY <1>3
  <2> HIDE DEF p, q
  <2>2. p * q = p * q + 0
    BY <2>1
  <2>3. (p * q) \div q = p
    BY <2>1, <2>2, DivModUnique
  <2> QED
    BY <2>3 DEF p, q
<1>6. Batch = Pow2[BATCH_LOG] /\ Units = Pow2[PATH]
  BY <1>4, <1>5 DEF Batch, Units
<1> QED
  BY <1>1, <1>2, <1>3, <1>4, <1>6

\* The leaves of a unit.
LEMMA UnitLeaf ==
  ASSUME BATCH_LOG \in BatchLogs, NEW u \in 0..Units-1, NEW t \in 0..Batch-1
  PROVE  /\ u * Batch + t \in LeafNumbers /\ (u * Batch + t) \div Batch = u
         /\ (Units + u) * Batch + t = NB_EVALS + (u * Batch + t)
<1>1. Batch \in Nat \ {0} /\ Units \in Nat \ {0} /\ NB_EVALS = Units * Batch
  BY Builds
<1>2. (u * Batch + t) \div Batch = u
  BY <1>1, DivModUnique
<1>3. PICK w \in Nat : Units = u + 1 + w
  BY <1>1
<1>4. Units * Batch = u * Batch + Batch + w * Batch /\ w * Batch \in Nat /\ u * Batch \in Nat
  BY <1>1, <1>3
<1>5. (Units + u) * Batch = Units * Batch + u * Batch
  BY <1>1
<1> QED
  BY <1>1, <1>2, <1>4, <1>5 DEF LeafNumbers

\* The ancestors of a leaf above the root of its unit are those of the unit.
LEMMA UnitAncestor ==
  ASSUME BATCH_LOG \in BatchLogs, NEW i \in LeafNumbers, NEW l \in 0..PATH
  PROVE  i \div Batch \in 0..Units-1 /\ Ancestor(i, LOG - l) = Root(i \div Batch, l)
<1>1. /\ Batch \in Nat \ {0} /\ Units \in Nat \ {0} /\ NB_EVALS = Units * Batch
      /\ LOG \in Nat /\ PATH \in 1..LOG /\ PATH + BATCH_LOG = LOG /\ BATCH_LOG \in 0..LOG-1
      /\ Batch = Pow2[BATCH_LOG] /\ i \in Nat /\ i < NB_EVALS
  BY Builds, Sizes DEF LeafNumbers
<1>2. i \div Batch \in 0..Units-1
  <2>1. i \div Batch < Units
    BY <1>1, DivLess
  <2>2. i \div Batch \in Nat
    BY <1>1, DivMod
  <2> QED
    BY <1>1, <2>1, <2>2
<1>3. (NB_EVALS + i) \div Batch = Units + i \div Batch
  <2>0. Units \in Nat /\ Batch \in Nat \ {0} /\ i \in Nat
    BY <1>1
  <2>1. (Units * Batch + i) \div Batch = Units + i \div Batch
    BY ONLY <2>0, DivSum
  <2> QED
    BY ONLY <1>1, <2>1
<1>4. /\ BATCH_LOG \in 0..LOG+1 /\ PATH - l \in 0..LOG+1 /\ BATCH_LOG + (PATH - l) = LOG - l
      /\ LOG - l <= LOG + 1
  BY <1>1
<1>5. Pow2[LOG - l] = Batch * Pow2[PATH - l] /\ Pow2[PATH - l] \in Nat \ {0}
  <2>1. BATCH_LOG + (PATH - l) <= LOG + 1
    BY <1>4
  <2>2. Pow2[BATCH_LOG + (PATH - l)] = Pow2[BATCH_LOG] * Pow2[PATH - l]
    BY ONLY <1>4, <2>1, PowProduct
  <2>3. Pow2[PATH - l] \in Nat \ {0}
    BY <1>4, Powers
  <2> QED
    BY <1>1, <1>4, <2>2, <2>3
<1>6. ((NB_EVALS + i) \div Batch) \div Pow2[PATH - l] = (NB_EVALS + i) \div (Batch * Pow2[PATH - l])
  <2>1. NB_EVALS + i \in Nat
    BY <1>1
  <2> QED
    BY <1>1, <1>5, <2>1, DivDiv
<1> QED
  BY <1>2, <1>3, <1>5, <1>6 DEF Ancestor, Root

\* The nodes on the path to a unit.
LEMMA RootFacts ==
  ASSUME BATCH_LOG \in BatchLogs, NEW u \in 0..Units-1, NEW l \in 0..PATH
  PROVE  /\ Root(u, l) \in Nat \ {0} /\ AtLevel(Root(u, l), l)
         /\ Root(u, l) = Pow2[l] + u \div Pow2[PATH - l]
         /\ Root(u, 0) = 1 /\ Root(u, PATH) = Units + u
         /\ l >= 1 => Root(u, l) \div 2 = Root(u, l - 1) /\ Root(u, l) \in SmallNodes
<1>1. /\ Batch \in Nat \ {0} /\ Units \in Nat \ {0} /\ Units = Pow2[PATH]
      /\ LOG \in Nat /\ PATH \in 1..LOG
  BY Builds
<1> DEFINE i == u * Batch + 0
<1>2. i \in LeafNumbers /\ i \div Batch = u
  <2>1. 0 \in 0..Batch-1
    BY <1>1
  <2> QED
    BY <2>1, UnitLeaf
<1> HIDE DEF i
<1>3. \A m \in 0..PATH : Root(u, m) = Ancestor(i, LOG - m)
  BY <1>2, UnitAncestor
<1>4. LOG - l \in 0..LOG /\ LOG - (LOG - l) = l /\ LOG - 0 = LOG /\ 0 \in 0..PATH /\ l \in 0..LOG
  BY <1>1
<1>5. Root(u, l) \in Nat \ {0} /\ AtLevel(Root(u, l), l) /\ Root(u, 0) = 1
  <2>1. /\ Ancestor(i, LOG - l) \in Nat \ {0} /\ AtLevel(Ancestor(i, LOG - l), LOG - (LOG - l))
        /\ Ancestor(i, LOG) = 1
    BY <1>2, <1>4, AncestorFacts
  <2> QED
    BY <1>3, <1>4, <2>1
<1>6. ASSUME l >= 1 PROVE Root(u, l) \div 2 = Root(u, l - 1) /\ Root(u, l) \in SmallNodes
  <2>1. l - 1 \in 0..PATH /\ (LOG - l) + 1 = LOG - (l - 1) /\ LOG - l < LOG
    BY <1>1, <1>6
  <2>2. Ancestor(i, (LOG - l) + 1) = Ancestor(i, LOG - l) \div 2
    BY <1>2, <1>4, <2>1, AncestorFacts
  <2>3. Root(u, l) \in SmallNodes
    BY <1>4, <1>5, <1>6, LevelFacts
  <2> QED
    BY <1>3, <2>1, <2>2, <2>3
<1>7. Root(u, l) = Pow2[l] + u \div Pow2[PATH - l]
  <2>1. /\ l \in 0..LOG+1 /\ PATH - l \in 0..LOG+1 /\ l + (PATH - l) = PATH /\ PATH <= LOG + 1
        /\ u \in Nat
    BY <1>1
  <2>2. Units = Pow2[l] * Pow2[PATH - l] /\ Pow2[l] \in Nat /\ Pow2[PATH - l] \in Nat \ {0}
    BY <1>1, <2>1, PowProduct, Powers
  <2>3. (Pow2[l] * Pow2[PATH - l] + u) \div Pow2[PATH - l] = Pow2[l] + u \div Pow2[PATH - l]
    BY <2>1, <2>2, DivSum
  <2> QED
    BY <2>2, <2>3 DEF Root
<1>8. Root(u, PATH) = Units + u
  <2>1. PATH - PATH = 0 /\ Units + u \in Nat
    BY <1>1
  <2>2. Pow2[0] = 1 /\ (Units + u) \div 1 = Units + u
    BY <2>1, Powers
  <2> QED
    BY <2>1, <2>2 DEF Root
<1> QED
  BY <1>5, <1>6, <1>7, <1>8

\* Two paths are the same above their fork and different from there on; at the fork
\* they are siblings.
LEMMA ForkFacts ==
  ASSUME BATCH_LOG \in BatchLogs, NEW u \in 0..Units-1, NEW v \in 0..Units-1, u # v
  PROVE  /\ Fork(u, v) \in 1..PATH
         /\ \A l \in 0..PATH : Root(u, l) = Root(v, l) <=> l < Fork(u, v)
         /\ Root(u, Fork(u, v)) = Sibling(Root(v, Fork(u, v)))
<1> DEFINE Q(n, l) == n \div Pow2[PATH - l]
           Is(lev) == Q(u, lev) # Q(v, lev) /\ \A l \in 1..lev-1 : Q(u, l) = Q(v, l)
           f == Fork(u, v)
           Parted == {l \in 1..PATH : Q(u, l) # Q(v, l)}
<1>0. LOG \in Nat /\ PATH \in 1..LOG /\ PATH \in 0..PATH
  BY Builds
<1>1. \A l \in 0..PATH : Root(u, l) = Root(v, l) <=> Q(u, l) = Q(v, l)
  <2> SUFFICES ASSUME NEW l \in 0..PATH PROVE Root(u, l) = Root(v, l) <=> Q(u, l) = Q(v, l)
    OBVIOUS
  <2>1. l \in 0..LOG+1 /\ PATH - l \in 0..LOG+1 /\ u \in Nat /\ v \in Nat
    BY <1>0
  <2>2. Pow2[l] \in Nat /\ Q(u, l) \in Nat /\ Q(v, l) \in Nat
    BY <2>1, Powers, DivMod
  <2>3. Root(u, l) = Pow2[l] + Q(u, l) /\ Root(v, l) = Pow2[l] + Q(v, l)
    BY RootFacts
  <2> HIDE DEF Q
  <2> QED
    BY <2>2, <2>3
<1>2. PATH \in Parted
  <2>1. Root(u, PATH) = Units + u /\ Root(v, PATH) = Units + v /\ Units \in Nat
    BY <1>0, RootFacts, Builds
  <2>2. Root(u, PATH) # Root(v, PATH)
    BY <2>1
  <2> HIDE DEF Q
  <2> QED
    BY <1>0, <1>1, <2>2
<1>3. \E lev \in 1..PATH : Is(lev)
  <2>1. Parted \subseteq Nat /\ Parted # {}
    BY <1>2
  <2> HIDE DEF Parted
  <2>2. PICK x \in Parted : \A z \in Parted : x <= z
    BY <2>1, Smallest
  <2> HIDE DEF Q
  <2>3. x \in 1..PATH /\ Q(u, x) # Q(v, x)
    BY <2>2 DEF Parted
  <2>4. ASSUME NEW l \in 1..x-1 PROVE Q(u, l) = Q(v, l)
    <3>1. l \in 1..PATH /\ ~(x <= l)
      BY <1>0, <2>3
    <3>2. l \notin Parted
      BY <2>2, <3>1
    <3> QED
      BY <3>1, <3>2 DEF Parted
  <2> QED
    BY <2>3, <2>4
<1>4. f \in 1..PATH /\ Is(f)
  <2>1. f = CHOOSE lev \in 1..PATH : Is(lev)
    BY DEF Fork
  <2> HIDE DEF Is, f
  <2> QED
    BY <1>3, <2>1
<1> HIDE DEF f, Parted
<1>5. ASSUME NEW l \in 0..PATH, l < f PROVE Root(u, l) = Root(v, l)
  <2>1. CASE l = 0
    BY <2>1, <1>5, RootFacts
  <2>2. CASE l # 0
    <3>1. l \in 1..f-1
      BY <1>0, <1>4, <1>5, <2>2
    <3> HIDE DEF Q
    <3> QED
      BY <1>1, <1>4, <3>1
  <2> QED
    BY <2>1, <2>2
<1> DEFINE T == {d \in Nat : d <= PATH - f => Root(u, f + d) # Root(v, f + d)}
<1>6. ASSUME NEW l \in 0..PATH, ~(l < f) PROVE Root(u, l) # Root(v, l)
  <2>1. PATH - f \in Nat /\ l - f \in 0..PATH-f /\ f + (l - f) = l /\ f \in 0..PATH
    BY <1>0, <1>4, <1>6
  <2>2. 0 \in T
    <3> HIDE DEF Q
    <3>1. Root(u, f) # Root(v, f) /\ f + 0 = f
      BY <1>1, <1>4, <2>1
    <3> QED
      BY <3>1
  <2>3. ASSUME NEW d \in 0..(PATH-f)-1, d \in T PROVE d + 1 \in T
    <3>1. /\ f + d \in 0..PATH /\ f + (d + 1) \in 0..PATH /\ f + (d + 1) >= 1
          /\ (f + (d + 1)) - 1 = f + d /\ d <= PATH - f
      BY <1>0, <1>4, <2>1
    <3>2. Root(u, f + d) # Root(v, f + d)
      BY <2>3, <3>1
    <3>3. /\ Root(u, f + (d + 1)) \div 2 = Root(u, (f + (d + 1)) - 1)
          /\ Root(v, f + (d + 1)) \div 2 = Root(v, (f + (d + 1)) - 1)
      BY <3>1, RootFacts
    <3>4. Root(u, f + (d + 1)) # Root(v, f + (d + 1))
      BY <3>1, <3>2, <3>3
    <3> QED
      BY <3>4
  <2> HIDE DEF T
  <2>4. l - f \in T
    BY <2>1, <2>2, <2>3, Upto
  <2> QED
    BY <2>1, <2>4 DEF T
<1>7. Root(u, f) = Sibling(Root(v, f))
  <2>1. /\ f \in 0..PATH /\ f >= 1 /\ f - 1 \in 0..PATH /\ f - 1 < f /\ ~(f < f) /\ f \in 1..LOG
    BY <1>0, <1>4
  <2>2. /\ Root(u, f) \div 2 = Root(u, f - 1) /\ Root(v, f) \div 2 = Root(v, f - 1)
        /\ Root(u, f) \in Nat /\ AtLevel(Root(v, f), f)
    BY <2>1, RootFacts
  <2>3. Root(u, f - 1) = Root(v, f - 1) /\ Root(u, f) # Root(v, f)
    BY <1>5, <1>6, <2>1
  <2>4. Root(u, f) \in {Root(v, f), Sibling(Root(v, f))}
    BY <2>1, <2>2, <2>3, SiblingFacts
  <2> QED
    BY <2>3, <2>4
<1> QED
  BY <1>4, <1>5, <1>6, <1>7 DEF f

\* From the fork with the unit before on, the path to a unit goes left.
LEMMA GoesLeft ==
  ASSUME BATCH_LOG \in BatchLogs, NEW u \in 0..Units-1, NEW l \in 0..PATH-1,
         u # 0 => l >= Fork(u - 1, u)
  PROVE  Root(u, l + 1) = 2 * Root(u, l)
<1> DEFINE d == Pow2[PATH - l]
           e == Pow2[PATH - (l + 1)]
           q == u \div d
<1>0. /\ LOG \in Nat /\ PATH \in 1..LOG /\ l \in 0..PATH /\ l + 1 \in 0..PATH /\ u \in Nat
      /\ PATH - (l + 1) \in 0..LOG /\ (PATH - (l + 1)) + 1 = PATH - l
      /\ l \in 0..LOG /\ PATH - l \in 0..LOG+1 /\ PATH - (l + 1) \in 0..LOG+1
  BY Builds
<1>1. /\ e \in Nat \ {0} /\ d = 2 * e /\ d \in Nat \ {0}
      /\ Pow2[l + 1] = 2 * Pow2[l] /\ Pow2[l] \in Nat
  <2>1. Pow2[(PATH - (l + 1)) + 1] = 2 * Pow2[PATH - (l + 1)]
    BY <1>0, Powers
  <2>2. e \in Nat \ {0} /\ d \in Nat \ {0} /\ Pow2[l + 1] = 2 * Pow2[l] /\ Pow2[l] \in Nat
    BY <1>0, Powers
  <2> QED
    BY <1>0, <2>1, <2>2
<1>2. q \in Nat
  <2> HIDE DEF d
  <2> QED
    BY <1>0, <1>1, DivMod
<1>3. u = q * d
  <2>1. CASE u = 0
    <3> HIDE DEF d
    <3>1. q = 0
      BY <1>1, <2>1
    <3> QED
      BY <1>1, <2>1, <3>1
  <2>2. CASE u # 0
    <3>1. u - 1 \in 0..Units-1 /\ u - 1 # u /\ u \in Nat \ {0}
      BY <1>0, <2>2, Builds
    <3>2. Fork(u - 1, u) \in 1..PATH /\ ~(l < Fork(u - 1, u))
      BY <1>0, <2>2, <3>1, ForkFacts
    <3>3. Root(u - 1, l) # Root(u, l)
      BY <1>0, <3>1, <3>2, ForkFacts
    <3>4. Root(u - 1, l) = Pow2[l] + (u - 1) \div d /\ Root(u, l) = Pow2[l] + u \div d
      BY <1>0, <3>1, RootFacts
    <3>5. (u - 1) \div d # u \div d
      BY <3>3, <3>4
    <3> HIDE DEF d
    <3> QED
      BY <1>1, <3>1, <3>5, Carry
  <2> QED
    BY <2>1, <2>2
<1> HIDE DEF d, e, q
<1>4. u = (2 * q) * e + 0 /\ 2 * q \in Nat /\ 0 \in 0 .. e - 1
  BY <1>1, <1>2, <1>3
<1>5. u \div e = 2 * q
  BY <1>1, <1>4, DivModUnique
<1>6. Root(u, l) = Pow2[l] + q /\ Root(u, l + 1) = Pow2[l + 1] + u \div e
  BY <1>0, RootFacts DEF d, e, q
<1> QED
  BY <1>1, <1>2, <1>5, <1>6

-----------------------------------------------------------------------------
(***************************************************************************)
(* Deriving a path and the leaves below it.                                *)
(***************************************************************************)

\* The key looked up for a level is the key of that level, whatever is cached.
LEMMA KeyExact ==
  ASSUME BATCH_LOG \in BatchLogs, NEW l \in 1..LOG-1
  PROVE  KeyOf(l) = l
<1>1. LOG \in Nat /\ NB_ENC_CTX \in 0..LOG-2 /\ BATCH_LOG \in 0..LOG-1 /\ l \in Nat
  BY Depth, Builds
<1>2. CASE BATCH_LOG = 0
  <2>1. CASE l < SALTS + 1
    <3>1. l - 1 \in 0..LOG /\ l - 1 < SALTS /\ (l - 1) + 1 = l
      BY <1>1, <2>1 DEF SALTS
    <3>2. tweaked_salts[l - 1] = l
      BY <3>1 DEF tweaked_salts
    <3> QED
      BY <1>2, <2>1, <3>2 DEF KeyOf
  <2>2. CASE ~(l < SALTS + 1)
    <3>1. /\ l - 1 - SALTS \in 0..LOG /\ ~(l - 1 - SALTS >= NB_ENC_CTX)
          /\ (l - 1 - SALTS) + 1 + SALTS = l
      BY <1>1, <2>2 DEF SALTS
    <3>2. ctx_enc[l - 1 - SALTS] = l
      BY <1>2, <3>1 DEF ctx_enc
    <3> QED
      BY <1>2, <2>2, <3>2 DEF KeyOf
  <2> QED
    BY <2>1, <2>2
<1>3. CASE BATCH_LOG # 0
  <2>1. CASE Cached(l)
    <3>1. LOG - 1 - l \in 0..LOG /\ ~(LOG - 1 - l >= NB_ENC_CTX) /\ LOG - 1 - (LOG - 1 - l) = l
      BY <1>1, <2>1 DEF Cached
    <3>2. ctx_enc[LOG - 1 - l] = l
      BY <1>3, <3>1 DEF ctx_enc
    <3> QED
      BY <1>3, <2>1, <3>2 DEF KeyOf
  <2>2. CASE ~Cached(l)
    BY <1>3, <2>2 DEF KeyOf
  <2> QED
    BY <2>1, <2>2
<1> QED
  BY <1>2, <1>3

\* Whatever is derived from, the result is a block of the tree or none.
LEMMA DeriveTyped ==
  /\ \A key, seed : seed \in SmallSeeds => SeedDerive(key, seed) \in SmallSeeds
  /\ \A seed, child : XorBlocks(seed, child) \in SmallSeeds
<1>1. Junk \in SmallSeeds /\ 2 \in SmallSeeds
  BY Derived DEF SmallSeeds
<1>2. ASSUME NEW key, NEW seed PROVE SeedDerive(key, seed) \in SmallSeeds
  <2>1. CASE seed = mseed
    BY <1>1, <2>1 DEF SeedDerive
  <2>2. CASE seed # mseed /\ key \in 1..LOG-1 /\ AtLevel(seed, key)
    BY <2>2, Derived DEF SmallSeeds, SeedDerive
  <2>3. CASE seed # mseed /\ ~(key \in 1..LOG-1 /\ AtLevel(seed, key))
    BY <1>1, <2>3 DEF SeedDerive
  <2> QED
    BY <2>1, <2>2, <2>3
<1>3. ASSUME NEW seed, NEW child PROVE XorBlocks(seed, child) \in SmallSeeds
  <2>1. CASE child \in SmallNodes
    <3>1. Sibling(child) \in SmallNodes
      BY <2>1, SomeLevel, SiblingFacts
    <3> QED
      BY <1>1, <3>1 DEF SmallSeeds, XorBlocks
  <2>2. CASE child \notin SmallNodes
    BY <1>1, <2>2 DEF XorBlocks
  <2> QED
    BY <2>1, <2>2
<1> QED
  BY <1>2, <1>3

\* A path derived down, as a function with the equation of DeriveDown.
IsDown(f, p, lev, to) ==
  f = [l \in 0..to-lev |-> IF l = 0 THEN p ELSE DeriveNode(f[l - 1], lev + l)]

Paths == [0..PATH -> SmallSeeds]

\* The paths derived one level after the other satisfy that equation, and there are some.
LEMMA DownIs ==
  ASSUME BATCH_LOG \in BatchLogs, NEW p \in Paths, NEW lev \in 1..PATH, NEW to \in lev..PATH
  PROVE  \E f \in [0..to-lev -> Paths] :
           IsDown(f, p, lev, to) /\ DeriveDown(p, lev, to) = f[to - lev]
<1> DEFINE n == to - lev
           G == [l \in 1..n |-> [x \in Paths |-> DeriveNode(x, lev + l)]]
<1>0. LOG \in Nat /\ PATH \in 1..LOG /\ n \in Nat /\ lev \in Nat /\ to \in Nat
  BY Builds
<1>1. ASSUME NEW x \in Paths, NEW l \in 1..n PROVE DeriveNode(x, lev + l) \in Paths
  <2>1. (lev + l) - 1 \in 0..PATH
    BY <1>0
  <2>2. SeedDerive(KeyOf((lev + l) - 1), x[(lev + l) - 1]) \in SmallSeeds
    BY <2>1, DeriveTyped DEF Paths
  <2> QED
    BY <2>2 DEF DeriveNode, Paths
<1>2. G \in [1..n -> [Paths -> Paths]]
  BY <1>1
<1>3. PICK g \in [0..n -> Paths] : g = [l \in 0..n |-> IF l = 0 THEN p ELSE G[l][g[l - 1]]]
  <2> HIDE DEF G, n
  <2> QED
    BY <1>0, <1>2, Recursion
<1>4. ASSUME NEW l \in 0..n PROVE g[l] = IF l = 0 THEN p ELSE DeriveNode(g[l - 1], lev + l)
  <2>1. CASE l = 0
    BY <1>3, <2>1
  <2>2. CASE l # 0
    <3>1. l \in 1..n /\ l - 1 \in 0..n /\ g[l - 1] \in Paths
      BY <1>0, <2>2
    <3>2. G[l][g[l - 1]] = DeriveNode(g[l - 1], lev + l)
      BY <3>1
    <3> HIDE DEF G
    <3> QED
      BY <1>3, <2>2, <3>2
  <2> QED
    BY <2>1, <2>2
<1>5. IsDown(g, p, lev, to)
  <2>1. g = [l \in 0..n |-> g[l]]
    BY <1>3
  <2> QED
    BY <1>4, <2>1 DEF IsDown
<1> DEFINE w == CHOOSE f : IsDown(f, p, lev, to)
<1>6. IsDown(w, p, lev, to)
  <2> HIDE DEF IsDown
  <2> QED
    BY <1>5
<1>7. DeriveDown(p, lev, to) = w[n]
  BY DEF DeriveDown, IsDown
<1> HIDE DEF w, G
<1> DEFINE T == {l \in Nat : l <= n => w[l] = g[l]}
<1>8. \A l \in 0..n : w[l] = g[l]
  <2>1. 0 \in T
    <3>1. w[0] = p /\ g[0] = p
      BY <1>0, <1>4, <1>6 DEF IsDown
    <3> QED
      BY <3>1
  <2>2. ASSUME NEW l \in 0..n-1, l \in T PROVE l + 1 \in T
    <3>1. l + 1 \in 0..n /\ l + 1 # 0 /\ (l + 1) - 1 = l /\ l <= n
      BY <1>0
    <3>2. w[l] = g[l]
      BY <2>2, <3>1
    <3>3. w[l + 1] = DeriveNode(w[l], lev + (l + 1))
      BY <1>6, <3>1 DEF IsDown
    <3>4. g[l + 1] = DeriveNode(g[l], lev + (l + 1))
      BY <1>4, <3>1
    <3> QED
      BY <3>1, <3>2, <3>3, <3>4
  <2> HIDE DEF T
  <2>3. \A l \in 0..n : l \in T
    BY <1>0, <2>1, <2>2, Upto
  <2> QED
    BY <2>3 DEF T
<1>9. DeriveDown(p, lev, to) = g[n]
  BY <1>0, <1>7, <1>8
<1> QED
  BY <1>5, <1>9

\* A path that is derived is an array of seeds.
LEMMA DownTyped ==
  ASSUME BATCH_LOG \in BatchLogs, NEW p \in Paths, NEW lev \in 1..PATH, NEW to \in lev..PATH
  PROVE  DeriveDown(p, lev, to) \in Paths
<1>1. PICK f \in [0..to-lev -> Paths] : DeriveDown(p, lev, to) = f[to - lev]
  BY DownIs
<1>2. to - lev \in 0..to-lev
  BY Builds
<1> QED
  BY <1>1, <1>2

\* From a node on the path to a unit, the nodes below it.
LEMMA DownExact ==
  ASSUME BATCH_LOG \in BatchLogs, NEW p \in Paths, NEW lev \in 1..PATH, NEW u \in 0..Units-1,
         p[lev] = Root(u, lev), u # 0 => lev >= Fork(u - 1, u)
  PROVE  DeriveDown(p, lev, PATH)
           = [l \in 0..PATH |-> IF l \in lev+1..PATH THEN Root(u, l) ELSE p[l]]
<1> DEFINE n == PATH - lev
           W(i) == [l \in 0..PATH |-> IF l \in lev+1..lev+i THEN Root(u, l) ELSE p[l]]
<1>0. /\ LOG \in Nat /\ PATH \in 1..LOG /\ n \in Nat /\ lev \in Nat
      /\ PATH \in lev..PATH /\ lev + n = PATH
  BY Builds
<1>1. PICK f \in [0..n -> Paths] : IsDown(f, p, lev, PATH) /\ DeriveDown(p, lev, PATH) = f[n]
  BY <1>0, DownIs
<1>2. W(0) = p
  <2>1. \A l \in 0..PATH : l \notin lev+1..lev+0
    BY <1>0
  <2> QED
    BY <2>1 DEF Paths
<1>3. ASSUME NEW i \in 0..n-1 PROVE DeriveNode(W(i), lev + (i + 1)) = W(i + 1)
  <2>1. /\ lev + i \in 0..PATH-1 /\ lev + i \in 1..LOG-1 /\ lev + i \in 0..PATH
        /\ lev + (i + 1) \in 0..PATH /\ (lev + (i + 1)) - 1 = lev + i
        /\ (lev + i) + 1 = lev + (i + 1) /\ lev + i >= lev
    BY <1>0
  <2>2. W(i)[lev + i] = Root(u, lev + i)
    <3>1. CASE i = 0
      <4>1. lev + i = lev /\ lev \notin lev+1..lev+i /\ lev \in 0..PATH
        BY <1>0, <3>1
      <4> QED
        BY <4>1
    <3>2. CASE i # 0
      <4>1. lev + i \in lev+1..lev+i
        BY <1>0, <3>2
      <4> QED
        BY <2>1, <4>1
    <3> QED
      BY <3>1, <3>2
  <2>3. KeyOf(lev + i) = lev + i
    BY <2>1, KeyExact
  <2>4. AtLevel(Root(u, lev + i), lev + i)
    BY <2>1, RootFacts
  <2>5. SeedDerive(lev + i, Root(u, lev + i)) = 2 * Root(u, lev + i)
    BY <2>1, <2>4, Derived
  <2>6. Root(u, lev + (i + 1)) = 2 * Root(u, lev + i)
    <3>1. u # 0 => lev + i >= Fork(u - 1, u)
      <4>1. ASSUME u # 0 PROVE lev + i >= Fork(u - 1, u)
        <5>1. u - 1 \in 0..Units-1 /\ u - 1 # u
          BY <4>1, Builds
        <5>2. Fork(u - 1, u) \in 1..PATH
          BY <5>1, ForkFacts
        <5> QED
          BY <1>0, <2>1, <4>1, <5>2
      <4> QED
        BY <4>1
    <3>2. Root(u, (lev + i) + 1) = 2 * Root(u, lev + i)
      BY <2>1, <3>1, GoesLeft
    <3> QED
      BY <2>1, <3>2
  <2> DEFINE m == lev + (i + 1)
  <2>7. DeriveNode(W(i), m) = [W(i) EXCEPT ![m] = Root(u, m)]
    <3> HIDE DEF W
    <3> QED
      BY <2>1, <2>2, <2>3, <2>5, <2>6 DEF DeriveNode
  <2>8. ASSUME NEW l \in 0..PATH
        PROVE  (IF l = m THEN Root(u, m) ELSE W(i)[l]) = W(i + 1)[l]
    <3>1. l \in lev+1..lev+(i+1) <=> l = m \/ l \in lev+1..lev+i
      BY <1>0
    <3> QED
      BY <3>1
  <2>9. [W(i) EXCEPT ![m] = Root(u, m)] = [l \in 0..PATH |-> IF l = m THEN Root(u, m) ELSE W(i)[l]]
    <3> HIDE DEF m
    <3> QED
      OBVIOUS
  <2>10. [l \in 0..PATH |-> IF l = m THEN Root(u, m) ELSE W(i)[l]] = [l \in 0..PATH |-> W(i + 1)[l]]
    <3> HIDE DEF W, m
    <3> QED
      BY <2>8
  <2>11. [l \in 0..PATH |-> W(i + 1)[l]] = W(i + 1)
    OBVIOUS
  <2> HIDE DEF W, m
  <2> QED
    BY <2>7, <2>9, <2>10, <2>11 DEF m
<1> HIDE DEF W
<1> DEFINE T == {i \in Nat : i <= n => f[i] = W(i)}
<1>4. f[n] = W(n)
  <2>1. 0 \in T
    <3>1. f[0] = p
      BY <1>0, <1>1 DEF IsDown
    <3> QED
      BY <1>2, <3>1
  <2>2. ASSUME NEW i \in 0..n-1, i \in T PROVE i + 1 \in T
    <3>1. i + 1 \in 0..n /\ i + 1 # 0 /\ (i + 1) - 1 = i /\ i <= n
      BY <1>0
    <3>2. f[i + 1] = DeriveNode(f[i], lev + (i + 1))
      BY <1>1, <3>1 DEF IsDown
    <3>3. f[i] = W(i)
      BY <2>2, <3>1
    <3> QED
      BY <1>3, <3>1, <3>2, <3>3
  <2> HIDE DEF T
  <2>3. n \in T
    <3>1. \A i \in 0..n : i \in T
      BY <1>0, <2>1, <2>2, Upto
    <3> QED
      BY <1>0, <3>1
  <2> QED
    BY <1>0, <2>3 DEF T
<1> QED
  BY <1>0, <1>1, <1>4 DEF W

\* The children of a node, by their places.
LEMMA ChildrenAt ==
  ASSUME NEW lev, NEW seed, NEW c \in Nat
  PROVE  Children(lev, seed)[2 - (c % 2)]
           = IF c % 2 = 1 THEN SeedDerive(KeyOf(lev), seed)
             ELSE XorBlocks(seed, SeedDerive(KeyOf(lev), seed))
<1>1. CASE c % 2 = 1
  <2>1. 2 - (c % 2) = 1
    BY <1>1
  <2> QED
    BY <1>1, <2>1 DEF Children
<1>2. CASE c % 2 = 0
  <2>1. 2 - (c % 2) = 2
    BY <1>2
  <2> QED
    BY <1>2, <2>1 DEF Children
<1> QED
  BY <1>1, <1>2

\* The place of a child below the nodes of a subtree's level.
LEMMA ChildIndex ==
  ASSUME NEW root \in Nat, NEW P \in Nat \ {0}, NEW Q, Q = 2 * P, NEW c \in 1..Q
  PROVE  /\ (c + 1) \div 2 \in 1..P
         /\ c % 2 = 1 => root * Q + (c - 1) = 2 * (root * P + ((c + 1) \div 2 - 1))
         /\ c % 2 # 1 => root * Q + (c - 1) = 2 * (root * P + ((c + 1) \div 2 - 1)) + 1
<1> DEFINE x == root * P
<1>1. x \in Nat /\ root * Q = 2 * x
  BY TwiceProduct
<1> HIDE DEF x
<1>2. (c + 1) \div 2 \in 1..P
  OBVIOUS
<1>3. CASE c % 2 = 1
  <2>1. c - 1 = 2 * ((c + 1) \div 2 - 1)
    BY <1>3
  <2>2. 2 * x + (c - 1) = 2 * (x + ((c + 1) \div 2 - 1))
    BY <1>1, <2>1
  <2> QED
    BY <1>1, <1>2, <1>3, <2>2 DEF x
<1>4. CASE c % 2 # 1
  <2>1. c - 1 = 2 * ((c + 1) \div 2 - 1) + 1
    BY <1>4
  <2>2. 2 * x + (c - 1) = 2 * (x + ((c + 1) \div 2 - 1)) + 1
    BY <1>1, <2>1
  <2> QED
    BY <1>1, <1>2, <1>4, <2>2 DEF x
<1> QED
  BY <1>3, <1>4

\* A function of 1..n is a sequence of length n.
LEMMA FunctionSeq ==
  ASSUME NEW S, NEW n \in Nat, NEW f \in [1..n -> S]
  PROVE  f \in Seq(S) /\ Len(f) = n
OBVIOUS

\* One level of a subtree is twice as long as the one above, and has seeds only.
LEMMA NextLevelTyped ==
  ASSUME NEW s \in Seq(SmallSeeds), NEW lev
  PROVE  NextLevel(s, lev) \in Seq(SmallSeeds)
<1>1. Len(s) \in Nat /\ 2 * Len(s) \in Nat /\ \A a \in 1..Len(s) : s[a] \in SmallSeeds
  OBVIOUS
<1>2. ASSUME NEW c \in 1..2*Len(s)
      PROVE  Children(lev, s[(c + 1) \div 2])[2 - (c % 2)] \in SmallSeeds
  <2>1. (c + 1) \div 2 \in 1..Len(s) /\ c \in Nat
    BY <1>1
  <2>2. s[(c + 1) \div 2] \in SmallSeeds
    BY <1>1, <2>1
  <2>3. SeedDerive(KeyOf(lev), s[(c + 1) \div 2]) \in SmallSeeds
    BY <2>2, DeriveTyped
  <2> QED
    BY <2>1, <2>3, ChildrenAt, DeriveTyped
<1>3. NextLevel(s, lev) \in [1..2*Len(s) -> SmallSeeds]
  BY <1>2 DEF NextLevel
<1> QED
  BY <1>1, <1>3, FunctionSeq

\* The levels of a subtree, as a function with the equation of Subtree.
IsSubtree(f, root) ==
  f = [l \in 0..BATCH_LOG |-> IF l = 0 THEN <<root>> ELSE NextLevel(f[l - 1], PATH + l - 1)]

\* There are such levels, and Subtree is the last of them.
LEMMA SubtreeIs ==
  ASSUME BATCH_LOG \in BatchLogs, NEW root \in SmallSeeds
  PROVE  \E f \in [0..BATCH_LOG -> Seq(SmallSeeds)] :
           IsSubtree(f, root) /\ Subtree(root) = f[BATCH_LOG]
<1> DEFINE S == Seq(SmallSeeds)
           n == BATCH_LOG
           G == [l \in 1..n |-> [x \in S |-> NextLevel(x, PATH + l - 1)]]
<1>0. n \in Nat /\ <<root>> \in S
  BY Builds
<1>1. G \in [1..n -> [S -> S]]
  BY NextLevelTyped
<1>2. PICK g \in [0..n -> S] : g = [l \in 0..n |-> IF l = 0 THEN <<root>> ELSE G[l][g[l - 1]]]
  <2> HIDE DEF G, n, S
  <2> QED
    BY <1>0, <1>1, Recursion
<1>3. ASSUME NEW l \in 0..n
      PROVE  g[l] = IF l = 0 THEN <<root>> ELSE NextLevel(g[l - 1], PATH + l - 1)
  <2>1. CASE l = 0
    BY <1>2, <2>1
  <2>2. CASE l # 0
    <3>1. l \in 1..n /\ l - 1 \in 0..n /\ g[l - 1] \in S
      BY <1>0, <2>2
    <3>2. G[l][g[l - 1]] = NextLevel(g[l - 1], PATH + l - 1)
      BY <3>1
    <3> HIDE DEF G
    <3> QED
      BY <1>2, <2>2, <3>2
  <2> QED
    BY <2>1, <2>2
<1>4. IsSubtree(g, root)
  <2>1. g = [l \in 0..n |-> g[l]]
    BY <1>2
  <2> QED
    BY <1>3, <2>1 DEF IsSubtree
<1> DEFINE w == CHOOSE f : IsSubtree(f, root)
<1>5. IsSubtree(w, root)
  <2> HIDE DEF IsSubtree
  <2> QED
    BY <1>4
<1>6. Subtree(root) = w[n]
  BY DEF Subtree, IsSubtree
<1> HIDE DEF w, G
<1> DEFINE T == {l \in Nat : l <= n => w[l] = g[l]}
<1>7. \A l \in 0..n : w[l] = g[l]
  <2>1. 0 \in T
    <3>1. w[0] = <<root>> /\ g[0] = <<root>>
      BY <1>0, <1>3, <1>5 DEF IsSubtree
    <3> QED
      BY <3>1
  <2>2. ASSUME NEW l \in 0..n-1, l \in T PROVE l + 1 \in T
    <3>1. l + 1 \in 0..n /\ l + 1 # 0 /\ (l + 1) - 1 = l /\ l <= n
      BY <1>0
    <3>2. w[l] = g[l]
      BY <2>2, <3>1
    <3>3. w[l + 1] = NextLevel(w[l], PATH + (l + 1) - 1)
      BY <1>5, <3>1 DEF IsSubtree
    <3>4. g[l + 1] = NextLevel(g[l], PATH + (l + 1) - 1)
      BY <1>3, <3>1
    <3> QED
      BY <3>1, <3>2, <3>3, <3>4
  <2> HIDE DEF T
  <2>3. \A l \in 0..n : l \in T
    BY <1>0, <2>1, <2>2, Upto
  <2> QED
    BY <2>3 DEF T
<1>8. Subtree(root) = g[n]
  BY <1>0, <1>6, <1>7
<1> QED
  BY <1>4, <1>8

\* A subtree has seeds only.
LEMMA SubtreeTyped ==
  ASSUME BATCH_LOG \in BatchLogs, NEW root \in SmallSeeds
  PROVE  Subtree(root) \in Seq(SmallSeeds)
<1>1. PICK f \in [0..BATCH_LOG -> Seq(SmallSeeds)] : Subtree(root) = f[BATCH_LOG]
  BY SubtreeIs
<1>2. BATCH_LOG \in 0..BATCH_LOG
  BY Builds
<1> QED
  BY <1>1, <1>2

\* The nodes below the root of a unit, l levels down.
Below(root, l) == [c \in 1..Pow2[l] |-> root * Pow2[l] + (c - 1)]

\* They are at the level they should be.
LEMMA BelowFacts ==
  ASSUME BATCH_LOG \in BatchLogs, NEW root, AtLevel(root, PATH), NEW l \in 0..BATCH_LOG
  PROVE  \A c \in 1..Pow2[l] : AtLevel(root * Pow2[l] + (c - 1), PATH + l)
<1>0. LOG \in Nat /\ BATCH_LOG \in 0..LOG-1 /\ PATH \in 1..LOG /\ PATH + BATCH_LOG = LOG
      /\ PATH \in 0..LOG
  BY Builds
<1>1. root \in Nat
  BY <1>0, LevelFacts
<1> DEFINE T == {i \in Nat : i <= BATCH_LOG =>
                   \A c \in 1..Pow2[i] : AtLevel(root * Pow2[i] + (c - 1), PATH + i)}
<1>2. 0 \in T
  <2>1. Pow2[0] = 1 /\ PATH + 0 = PATH
    BY <1>0, Powers
  <2>2. \A c \in 1..1 : root * 1 + (c - 1) = root
    BY <1>1
  <2> QED
    BY <2>1, <2>2
<1>3. ASSUME NEW i \in 0..BATCH_LOG-1, i \in T PROVE i + 1 \in T
  <2>1. /\ i \in 0..LOG /\ i <= BATCH_LOG /\ PATH + i \in 0..LOG /\ PATH + i < LOG
        /\ (PATH + i) + 1 = PATH + (i + 1)
    BY <1>0
  <2>2. Pow2[i + 1] = 2 * Pow2[i] /\ Pow2[i] \in Nat \ {0}
    <3>1. i \in 0..LOG+1
      BY <1>0, <2>1
    <3> QED
      BY <2>1, <3>1, Powers
  <2>3. \A c \in 1..Pow2[i] : AtLevel(root * Pow2[i] + (c - 1), PATH + i)
    BY <1>3, <2>1
  <2>4. ASSUME NEW c \in 1..Pow2[i + 1]
        PROVE  AtLevel(root * Pow2[i + 1] + (c - 1), PATH + (i + 1))
    <3> DEFINE a == (c + 1) \div 2
               m == root * Pow2[i] + (a - 1)
               x == root * Pow2[i + 1] + (c - 1)
    <3>1. /\ a \in 1..Pow2[i]
          /\ c % 2 = 1 => x = 2 * m
          /\ c % 2 # 1 => x = 2 * m + 1
      BY ONLY <1>1, <2>2, <2>4, ChildIndex
    <3>2. AtLevel(m, PATH + i)
      BY <2>3, <3>1
    <3> HIDE DEF m, x
    <3>3. AtLevel(2 * m, (PATH + i) + 1) /\ AtLevel(2 * m + 1, (PATH + i) + 1)
      BY <2>1, <3>2, LevelFacts
    <3>4. AtLevel(x, PATH + (i + 1))
      BY <2>1, <3>1, <3>3
    <3> QED
      BY <3>4 DEF x
  <2> QED
    BY <2>4
<1> HIDE DEF T
<1>4. \A i \in 0..BATCH_LOG : i \in T
  BY <1>0, <1>2, <1>3, Upto
<1> QED
  BY <1>4 DEF T

\* What a level of a subtree derives from a node that is there.
LEMMA ChildExact ==
  ASSUME BATCH_LOG \in BatchLogs, NEW root, AtLevel(root, PATH), NEW l \in 0..BATCH_LOG-1,
         NEW s, Len(s) = Pow2[l], NEW c \in 1..Pow2[l + 1],
         s[(c + 1) \div 2] = root * Pow2[l] + ((c + 1) \div 2 - 1)
  PROVE  NextLevel(s, PATH + l)[c] = root * Pow2[l + 1] + (c - 1)
<1>0. LOG \in Nat /\ BATCH_LOG \in 0..LOG-1 /\ PATH \in 1..LOG /\ PATH + BATCH_LOG = LOG
      /\ PATH + l \in 1..LOG-1 /\ l \in 0..LOG /\ l \in 0..BATCH_LOG /\ PATH \in 0..LOG
  <2>1. LOG \in Nat /\ BATCH_LOG \in 0..LOG-1 /\ PATH \in 1..LOG /\ PATH + BATCH_LOG = LOG
    BY Builds
  <2>2. l \in 0..BATCH_LOG-1
    OBVIOUS
  <2> HIDE DEF PATH
  <2> QED
    BY ONLY <2>1, <2>2
<1>1. Pow2[l + 1] = 2 * Pow2[l] /\ Pow2[l] \in Nat \ {0} /\ root \in Nat /\ c \in Nat
  BY <1>0, Powers, LevelFacts
<1> DEFINE a == (c + 1) \div 2
           n == root * Pow2[l] + (a - 1)
           x == root * Pow2[l + 1] + (c - 1)
<1>2. /\ a \in 1..Pow2[l] /\ (c % 2 = 1 => x = 2 * n) /\ (c % 2 # 1 => x = 2 * n + 1)
  <2>1. c \in 1..Pow2[l + 1]
    OBVIOUS
  <2> QED
    BY ONLY <1>1, <2>1, ChildIndex
<1>3. AtLevel(n, PATH + l)
  BY <1>0, <1>2, BelowFacts
<1>4. NextLevel(s, PATH + l)[c] = Children(PATH + l, s[a])[2 - (c % 2)]
  BY <1>1 DEF NextLevel
<1>5. KeyOf(PATH + l) = PATH + l
  BY <1>0, KeyExact
<1> HIDE DEF n, x
<1>6. SeedDerive(PATH + l, n) = 2 * n /\ XorBlocks(n, 2 * n) = 2 * n + 1
  BY <1>0, <1>3, Derived
<1>7. s[a] = n
  BY DEF n
<1> HIDE DEF a
<1>8. NextLevel(s, PATH + l)[c] = IF c % 2 = 1 THEN 2 * n ELSE 2 * n + 1
  BY <1>1, <1>4, <1>5, <1>6, <1>7, ChildrenAt
<1>9. NextLevel(s, PATH + l)[c] = x
  BY <1>2, <1>8
<1> QED
  BY <1>9 DEF x

\* A subtree has the leaves of its unit, in order.
LEMMA SubtreeExact ==
  ASSUME BATCH_LOG \in BatchLogs, NEW root, AtLevel(root, PATH)
  PROVE  Subtree(root) = Below(root, BATCH_LOG)
<1>0. LOG \in Nat /\ BATCH_LOG \in 0..LOG-1 /\ PATH \in 1..LOG /\ PATH \in 0..LOG /\ PATH >= 1
  BY Builds
<1>1. root \in SmallSeeds /\ root \in Nat
  BY <1>0, LevelFacts DEF SmallSeeds
<1>2. PICK f \in [0..BATCH_LOG -> Seq(SmallSeeds)] :
        IsSubtree(f, root) /\ Subtree(root) = f[BATCH_LOG]
  BY <1>1, SubtreeIs
<1> DEFINE T == {l \in Nat : l <= BATCH_LOG => f[l] = Below(root, l)}
<1>3. 0 \in T
  <2>1. f[0] = <<root>>
    BY <1>0, <1>2 DEF IsSubtree
  <2>2. Below(root, 0) = [c \in 1..1 |-> root]
    <3>1. \A c \in 1..1 : root * 1 + (c - 1) = root
      BY <1>1
    <3> QED
      BY <1>0, <3>1, Powers DEF Below
  <2>3. <<root>> = [c \in 1..1 |-> root]
    OBVIOUS
  <2> QED
    BY <2>1, <2>2, <2>3
<1>4. ASSUME NEW l \in 0..BATCH_LOG-1, l \in T PROVE l + 1 \in T
  <2>1. /\ l + 1 \in 0..BATCH_LOG /\ l + 1 # 0 /\ (l + 1) - 1 = l /\ l <= BATCH_LOG
        /\ PATH + (l + 1) - 1 = PATH + l /\ l \in 0..LOG
    BY <1>0
  <2>2. f[l] = Below(root, l)
    BY <1>4, <2>1
  <2>3. f[l + 1] = NextLevel(f[l], PATH + l)
    BY <1>2, <2>1 DEF IsSubtree
  <2>4. Pow2[l + 1] = 2 * Pow2[l] /\ Pow2[l] \in Nat \ {0}
    <3>1. l \in 0..LOG+1
      BY <1>0, <2>1
    <3> QED
      BY <2>1, <3>1, Powers
  <2> DEFINE s == Below(root, l)
  <2>5. Len(s) = Pow2[l] /\ \A a \in 1..Pow2[l] : s[a] = root * Pow2[l] + (a - 1)
    <3>1. s \in [1..Pow2[l] -> Nat] /\ \A a \in 1..Pow2[l] : s[a] = root * Pow2[l] + (a - 1)
      <4>1. root * Pow2[l] \in Nat
        BY ONLY <1>1, <2>4
      <4>2. \A a \in 1..Pow2[l] : root * Pow2[l] + (a - 1) \in Nat
        BY <2>4, <4>1
      <4> QED
        BY <4>2 DEF Below
    <3> HIDE DEF s
    <3> QED
      BY <2>4, <3>1, FunctionSeq
  <2> HIDE DEF s
  <2>6. ASSUME NEW c \in 1..Pow2[l + 1]
        PROVE  NextLevel(s, PATH + l)[c] = root * Pow2[l + 1] + (c - 1)
    <3>1. (c + 1) \div 2 \in 1..Pow2[l]
      BY <1>1, <2>4, ChildIndex
    <3>2. s[(c + 1) \div 2] = root * Pow2[l] + ((c + 1) \div 2 - 1)
      BY <2>5, <3>1
    <3> QED
      BY <2>5, <3>2, ChildExact
  <2>7. NextLevel(s, PATH + l) = [c \in 1..Pow2[l + 1] |-> NextLevel(s, PATH + l)[c]]
    BY <2>4, <2>5 DEF NextLevel
  <2>8. f[l + 1] = Below(root, l + 1)
    BY <2>2, <2>3, <2>6, <2>7 DEF Below, s
  <2> QED
    BY <2>1, <2>8
<1> HIDE DEF T
<1>5. BATCH_LOG \in T
  <2>1. \A l \in 0..BATCH_LOG : l \in T
    <3>1. BATCH_LOG \in Nat
      BY <1>0
    <3> QED
      BY <1>3, <1>4, <3>1, Upto
  <2> QED
    BY <1>0, <2>1
<1> QED
  BY <1>0, <1>2, <1>5 DEF T

\* Below the hidden node: zero at its ancestors, the nodes elsewhere.
HiddenBelow(root, l) ==
  [c \in 1..Pow2[l] |->
     IF root * Pow2[l] + (c - 1) = Ancestor(i_star, BATCH_LOG - l) THEN ZeroSeed
     ELSE root * Pow2[l] + (c - 1)]

\* The place of the hidden node and of its sibling in a level of their subtree.
LEMMA HiddenIndex ==
  ASSUME BATCH_LOG \in BatchLogs, i_star \in LeafNumbers, NEW l \in 1..BATCH_LOG,
         NEW idx, idx = (i_star \div Pow2[BATCH_LOG - l]) % Pow2[l]
  PROVE  /\ idx \in 0..Pow2[l]-1 /\ Sibling(idx) \in 0..Pow2[l]-1 /\ Sibling(idx) # idx
         /\ Ancestor(i_star, BATCH_LOG - l) = (Units + Hidden) * Pow2[l] + idx
         /\ Sibling(Ancestor(i_star, BATCH_LOG - l)) = (Units + Hidden) * Pow2[l] + Sibling(idx)
<1> DEFINE P == Pow2[l]
           D == Pow2[BATCH_LOG - l]
           q == i_star \div D
           x == q \div P
           root == Units + Hidden
<1>0. /\ LOG \in Nat /\ BATCH_LOG \in 0..LOG-1 /\ PATH \in 1..LOG /\ PATH + BATCH_LOG = LOG
      /\ Batch = Pow2[BATCH_LOG] /\ Units \in Nat /\ Units = Pow2[PATH]
      /\ l \in 0..LOG /\ l - 1 \in 0..LOG /\ (l - 1) + 1 = l
      /\ BATCH_LOG - l \in 0..LOG /\ BATCH_LOG - l < LOG /\ LOG - (BATCH_LOG - l) = PATH + l
      /\ i_star \in Nat
      /\ l \in 0..LOG+1 /\ l - 1 \in 0..LOG+1 /\ BATCH_LOG - l \in 0..LOG+1 /\ PATH \in 0..LOG+1
      /\ (BATCH_LOG - l) + l = BATCH_LOG /\ BATCH_LOG <= LOG + 1 /\ PATH + l <= LOG + 1
  BY Builds, Sizes DEF LeafNumbers
<1>1. P = 2 * Pow2[l - 1] /\ Pow2[l - 1] \in Nat \ {0} /\ P \in Nat \ {0} /\ D \in Nat \ {0}
  <2>1. Pow2[(l - 1) + 1] = 2 * Pow2[l - 1]
    BY <1>0, Powers
  <2> QED
    BY <1>0, <2>1, Powers
<1>2. Ancestor(i_star, BATCH_LOG - l) = Pow2[PATH + l] + q
  <2>1. Ancestor(i_star, BATCH_LOG - l)
          = Pow2[LOG - (BATCH_LOG - l)] + i_star \div Pow2[BATCH_LOG - l]
    BY <1>0, AncestorFacts
  <2> QED
    BY <1>0, <2>1
<1>3. Pow2[PATH + l] = Units * P /\ Batch = D * P
  BY <1>0, PowProduct
<1>4. x = Hidden
  <2> HIDE DEF P, D
  <2>1. (i_star \div D) \div P = i_star \div (D * P)
    BY <1>0, <1>1, DivDiv
  <2> QED
    BY <1>3, <2>1 DEF Hidden
<1> HIDE DEF P, D
<1>5. q \in Nat
  BY <1>0, <1>1, DivMod
<1> HIDE DEF q
<1>6. idx = q % P /\ x = q \div P
  BY DEF q, D, P
<1> HIDE DEF x
<1>7. idx \in 0..P-1 /\ q = P * x + idx /\ x \in Nat
  <2>1. q \div P \in Nat /\ q % P \in 0..P-1 /\ q = P * (q \div P) + (q % P)
    BY ONLY <1>1, <1>5, DivMod
  <2> QED
    BY ONLY <1>6, <2>1
<1>8. Hidden \in Nat /\ q = P * Hidden + idx
  BY <1>4, <1>7
<1>9. root * P = Units * P + Hidden * P /\ P * Hidden = Hidden * P /\ Hidden * P \in Nat
      /\ Units * P \in Nat /\ root \in Nat
  BY <1>0, <1>1, <1>8
<1>10. Ancestor(i_star, BATCH_LOG - l) = root * P + idx
  BY <1>2, <1>3, <1>7, <1>8, <1>9
<1>11. root * P = 2 * (root * Pow2[l - 1]) /\ root * Pow2[l - 1] \in Nat
  <2> HIDE DEF root
  <2> QED
    BY <1>1, <1>9, TwiceProduct
<1> DEFINE y == root * Pow2[l - 1]
           z == root * P
<1>12. z = 2 * y /\ y \in Nat
  BY <1>11
<1> HIDE DEF y, z, root
<1>13. Sibling(z + idx) = z + Sibling(idx)
  <2>1. CASE idx % 2 = 0
    <3>1. (z + idx) % 2 = 0
      BY <1>7, <1>12, <2>1, <1>1
    <3> QED
      BY <1>7, <1>12, <2>1, <3>1 DEF Sibling
  <2>2. CASE idx % 2 = 1
    <3>1. (z + idx) % 2 = 1
      BY <1>7, <1>12, <2>2, <1>1
    <3> QED
      BY <1>7, <1>12, <2>2, <3>1 DEF Sibling
  <2>3. idx \in Nat
    BY <1>1, <1>7
  <2>4. idx % 2 = 0 \/ idx % 2 = 1
    BY ONLY <2>3
  <2> QED
    BY <2>1, <2>2, <2>4
<1>14. Sibling(idx) \in 0..P-1 /\ Sibling(idx) # idx
  BY <1>1, <1>7 DEF Sibling
<1> QED
  BY <1>7, <1>10, <1>13, <1>14 DEF P, z, root

\* One level down, below the hidden node: the children of what is there, the
\* opening beside the hidden one, zero for the hidden one.
LEMMA HiddenStep ==
  ASSUME BATCH_LOG \in BatchLogs, i_star \in LeafNumbers,
         \A h \in Levels : opening[h] = Sibling(Ancestor(i_star, h)),
         NEW m \in 0..BATCH_LOG-1
  PROVE  Corrected(NextLevel(HiddenBelow(Units + Hidden, m), PATH + m), PATH + m)
           = HiddenBelow(Units + Hidden, m + 1)
<1> DEFINE root == Units + Hidden
           l == m + 1
           s == HiddenBelow(root, m)
           t == NextLevel(s, PATH + m)
           idx == (i_star \div Pow2[BATCH_LOG - l]) % Pow2[l]
           up == Ancestor(i_star, BATCH_LOG - m)
           hole == Ancestor(i_star, BATCH_LOG - l)
<1>0. /\ LOG \in Nat /\ BATCH_LOG \in 0..LOG-1 /\ PATH \in 1..LOG /\ PATH + BATCH_LOG = LOG
      /\ PATH \in 0..LOG /\ m \in 0..BATCH_LOG /\ m \in 0..LOG /\ m \in 0..LOG+1
      /\ l \in 1..BATCH_LOG /\ l \in 0..BATCH_LOG /\ l \in 0..LOG+1
      /\ LOG - 1 - (PATH + m) = BATCH_LOG - l /\ BATCH_LOG - l \in Levels
      /\ (BATCH_LOG - l) + 1 = BATCH_LOG - m
  BY Builds DEF Levels
<1>1. Pow2[m] \in Nat \ {0} /\ Pow2[l] = 2 * Pow2[m] /\ Pow2[l] \in Nat \ {0}
  BY <1>0, Powers
<1>2. AtLevel(root, PATH) /\ root \in Nat
  <2>1. Hidden \in 0..Units-1
    BY <1>0, UnitAncestor DEF Hidden
  <2>2. Root(Hidden, PATH) = root /\ AtLevel(Root(Hidden, PATH), PATH)
    BY <1>0, <2>1, RootFacts
  <2> QED
    BY <1>0, <2>2, LevelFacts
<1>3. /\ idx \in 0..Pow2[l]-1 /\ Sibling(idx) \in 0..Pow2[l]-1 /\ Sibling(idx) # idx
      /\ hole = root * Pow2[l] + idx /\ Sibling(hole) = root * Pow2[l] + Sibling(idx)
  BY <1>0, HiddenIndex
<1>4. /\ hole \div 2 = up
      /\ \A n \in Nat : n \div 2 = up => n \in {hole, Sibling(hole)}
  BY <1>0, PathSiblings
<1>5. opening[BATCH_LOG - l] = Sibling(hole)
  BY <1>0
<1>6. /\ s = [c \in 1..Pow2[m] |-> IF root * Pow2[m] + (c - 1) = up THEN ZeroSeed
                                   ELSE root * Pow2[m] + (c - 1)]
      /\ HiddenBelow(root, l) = [c \in 1..Pow2[l] |->
           IF root * Pow2[l] + (c - 1) = hole THEN ZeroSeed ELSE root * Pow2[l] + (c - 1)]
  BY DEF HiddenBelow
<1> HIDE DEF s, l, up, hole, root
<1>7. Len(s) = Pow2[m]
  BY <1>1, <1>6
<1>8. t = [c \in 1..Pow2[l] |-> t[c]]
  BY <1>1, <1>7 DEF NextLevel
<1>9. Len(t) = Pow2[l]
  <2> HIDE DEF t
  <2> QED
    BY <1>1, <1>8
<1>10. ASSUME NEW c \in 1..Pow2[l], c - 1 # idx, c - 1 # Sibling(idx)
       PROVE  t[c] = root * Pow2[l] + (c - 1) /\ root * Pow2[l] + (c - 1) # hole
  <2> DEFINE n == root * Pow2[l] + (c - 1)
             a == (c + 1) \div 2
             p == root * Pow2[m] + (a - 1)
  <2>1. root * Pow2[l] \in Nat /\ root * Pow2[m] \in Nat
    BY <1>1, <1>2, TwiceProduct
  <2>2. n # hole /\ n # Sibling(hole) /\ n \in Nat
    <3> DEFINE z == root * Pow2[l]
    <3> HIDE DEF idx
    <3>1. z \in Nat /\ hole = z + idx /\ Sibling(hole) = z + Sibling(idx)
      BY <1>3, <2>1
    <3>2. idx \in Nat /\ Sibling(idx) \in Nat /\ c - 1 \in Nat
      BY <1>1, <1>3
    <3> HIDE DEF z
    <3>3. z + (c - 1) # hole /\ z + (c - 1) # Sibling(hole) /\ z + (c - 1) \in Nat
      BY <1>10, <3>1, <3>2
    <3> QED
      BY <3>3 DEF z
  <2>3. /\ a \in 1..Pow2[m]
        /\ c % 2 = 1 => n = 2 * p
        /\ c % 2 # 1 => n = 2 * p + 1
    BY ONLY <1>1, <1>2, <1>10, ChildIndex
  <2>4. p # up
    <3>1. p \in Nat
      <4> DEFINE z == root * Pow2[m]
      <4> HIDE DEF z, a
      <4>1. z \in Nat /\ a \in Nat \ {0}
        BY <1>1, <2>1, <2>3 DEF z
      <4>2. z + (a - 1) \in Nat
        BY <4>1
      <4> QED
        BY <4>2 DEF z
    <3> HIDE DEF p, n
    <3>2. n \div 2 = p
      BY <2>3, <3>1
    <3> QED
      BY <1>4, <2>2, <3>2
  <2>5. s[a] = p
    <3> HIDE DEF a
    <3> QED
      BY <1>6, <2>3, <2>4
  <2>6. t[c] = n
    BY <1>0, <1>2, <1>7, <2>5, ChildExact DEF l
  <2> QED
    BY <2>2, <2>6
<1>11. Corrected(t, PATH + m) = [t EXCEPT ![Sibling(idx) + 1] = opening[BATCH_LOG - l],
                                          ![idx + 1] = ZeroSeed]
  BY <1>0, <1>9 DEF Corrected
<1> DEFINE r == [t EXCEPT ![Sibling(idx) + 1] = opening[BATCH_LOG - l], ![idx + 1] = ZeroSeed]
<1> HIDE DEF t, idx
<1>12. r = [c \in 1..Pow2[l] |-> r[c]]
  BY <1>8
<1>13. ASSUME NEW c \in 1..Pow2[l]
       PROVE  r[c] = IF root * Pow2[l] + (c - 1) = hole THEN ZeroSeed ELSE root * Pow2[l] + (c - 1)
  <2> DEFINE z == root * Pow2[l]
  <2>1. z \in Nat /\ hole = z + idx /\ Sibling(hole) = z + Sibling(idx)
    BY <1>1, <1>2, <1>3, TwiceProduct
  <2>2. idx \in Nat /\ Sibling(idx) \in Nat /\ c - 1 \in Nat /\ idx # Sibling(idx)
    BY <1>1, <1>3
  <2>3. CASE c - 1 = idx
    <3>1. r[c] = ZeroSeed
      BY <1>8, <2>2, <2>3
    <3> HIDE DEF z, r
    <3>2. z + (c - 1) = hole
      BY <2>1, <2>3
    <3> QED
      BY <3>1, <3>2 DEF z
  <2>4. CASE c - 1 = Sibling(idx)
    <3>1. r[c] = Sibling(hole)
      <4>1. c = Sibling(idx) + 1 /\ c # idx + 1
        BY <2>2, <2>4
      <4> QED
        BY <1>5, <1>8, <4>1
    <3> HIDE DEF z, r
    <3>2. z + (c - 1) # hole /\ z + (c - 1) = Sibling(hole)
      BY <2>1, <2>2, <2>4
    <3> QED
      BY <3>1, <3>2 DEF z
  <2>5. CASE c - 1 # idx /\ c - 1 # Sibling(idx)
    <3>1. r[c] = t[c]
      <4>1. c # Sibling(idx) + 1 /\ c # idx + 1
        BY <2>2, <2>5
      <4> QED
        BY <1>8, <4>1
    <3> HIDE DEF r
    <3> QED
      BY <1>10, <2>5, <3>1
  <2> QED
    BY <2>3, <2>4, <2>5
<1> HIDE DEF r
<1>14. r = HiddenBelow(root, l)
  BY <1>6, <1>12, <1>13
<1> QED
  BY <1>11, <1>14 DEF r, t, s, root, l

\* The subtree of the hidden unit, as a function with the equation of HiddenSubtree.
IsHidden(f) ==
  f = [l \in 0..BATCH_LOG |->
        IF l = 0 THEN <<ZeroSeed>> ELSE Corrected(NextLevel(f[l - 1], PATH + l - 1), PATH + l - 1)]

\* The hidden unit's subtree has zero at the hidden leaf, the other leaves elsewhere.
LEMMA HiddenExact ==
  ASSUME BATCH_LOG \in BatchLogs, i_star \in LeafNumbers,
         \A h \in Levels : opening[h] = Sibling(Ancestor(i_star, h))
  PROVE  HiddenSubtree = HiddenBelow(Units + Hidden, BATCH_LOG)
<1> DEFINE root == Units + Hidden
           g == [l \in 0..BATCH_LOG |-> HiddenBelow(root, l)]
<1>0. LOG \in Nat /\ BATCH_LOG \in Nat /\ PATH \in Nat /\ PATH + BATCH_LOG = LOG
      /\ BATCH_LOG \in 0..LOG /\ LOG - BATCH_LOG = PATH
  BY Builds
<1>1. HiddenBelow(root, 0) = <<ZeroSeed>>
  <2>1. Hidden \in 0..Units-1 /\ Ancestor(i_star, LOG - PATH) = Root(Hidden, PATH)
        /\ Root(Hidden, PATH) = root
    <3>1. PATH \in 0..PATH
      BY <1>0
    <3>2. Hidden \in 0..Units-1 /\ Ancestor(i_star, LOG - PATH) = Root(Hidden, PATH)
      BY <3>1, UnitAncestor DEF Hidden
    <3> QED
      BY <3>1, <3>2, RootFacts
  <2>2. Ancestor(i_star, BATCH_LOG - 0) = root /\ Pow2[0] = 1 /\ root \in Nat
    <3>1. LOG - PATH = BATCH_LOG - 0 /\ Units \in Nat
      BY <1>0, Builds
    <3> QED
      BY <2>1, <3>1, Powers
  <2> HIDE DEF root
  <2>3. \A c \in 1..1 : root * 1 + (c - 1) = root
    BY <2>2
  <2>4. HiddenBelow(root, 0) = [c \in 1..1 |-> ZeroSeed]
    BY <2>2, <2>3 DEF HiddenBelow
  <2>5. <<ZeroSeed>> = [c \in 1..1 |-> ZeroSeed]
    OBVIOUS
  <2> QED
    BY <2>4, <2>5
<1>2. ASSUME NEW m \in 0..BATCH_LOG-1
      PROVE  Corrected(NextLevel(HiddenBelow(root, m), PATH + m), PATH + m)
               = HiddenBelow(root, m + 1)
  BY HiddenStep
<1> HIDE DEF root
<1>3. \E f : IsHidden(f)
  <2>1. ASSUME NEW l \in 0..BATCH_LOG, l # 0
        PROVE  g[l] = Corrected(NextLevel(g[l - 1], PATH + l - 1), PATH + l - 1)
    <3>1. l - 1 \in 0..BATCH_LOG-1 /\ l - 1 \in 0..BATCH_LOG /\ (l - 1) + 1 = l
          /\ PATH + l - 1 = PATH + (l - 1)
      BY <1>0, <2>1
    <3> QED
      BY <1>2, <3>1
  <2>2. g[0] = <<ZeroSeed>> /\ g = [l \in 0..BATCH_LOG |-> g[l]]
    BY <1>0, <1>1
  <2> HIDE DEF g
  <2>3. IsHidden(g)
    BY <2>1, <2>2 DEF IsHidden
  <2> QED
    BY <2>3
<1> DEFINE w == CHOOSE f : IsHidden(f)
<1>4. IsHidden(w)
  <2> HIDE DEF IsHidden
  <2> QED
    BY <1>3
<1>5. HiddenSubtree = w[BATCH_LOG]
  BY DEF HiddenSubtree, IsHidden
<1> HIDE DEF w
<1> DEFINE T == {l \in Nat : l <= BATCH_LOG => w[l] = HiddenBelow(root, l)}
<1>6. 0 \in T
  <2>1. w[0] = <<ZeroSeed>>
    BY <1>0, <1>4 DEF IsHidden
  <2> QED
    BY <1>1, <2>1
<1>7. ASSUME NEW m \in 0..BATCH_LOG-1, m \in T PROVE m + 1 \in T
  <2>1. m + 1 \in 0..BATCH_LOG /\ m + 1 # 0 /\ (m + 1) - 1 = m /\ m <= BATCH_LOG
        /\ PATH + (m + 1) - 1 = PATH + m
    BY <1>0
  <2>2. w[m] = HiddenBelow(root, m)
    BY <1>7, <2>1
  <2>3. w[m + 1] = Corrected(NextLevel(w[m], PATH + m), PATH + m)
    BY <1>4, <2>1 DEF IsHidden
  <2>4. w[m + 1] = HiddenBelow(root, m + 1)
    BY <1>2, <2>2, <2>3
  <2> QED
    BY <2>1, <2>4
<1> HIDE DEF T
<1>8. BATCH_LOG \in T
  <2>1. \A l \in 0..BATCH_LOG : l \in T
    BY <1>0, <1>6, <1>7, Upto
  <2> QED
    BY <1>0, <2>1
<1> QED
  BY <1>0, <1>5, <1>8 DEF T, root

\* The subtree of a unit has its leaves, with zero for the hidden one.
LEMMA UnitExact ==
  ASSUME BATCH_LOG \in BatchLogs, NEW u \in 0..Units-1, partial => u # Hidden
  PROVE  Subtree(Root(u, PATH)) = Unit(u)
<1>0. PATH \in 0..PATH /\ Batch \in Nat \ {0} /\ Batch = Pow2[BATCH_LOG] /\ Units \in Nat
  BY Builds
<1>1. Root(u, PATH) = Units + u /\ AtLevel(Units + u, PATH)
  BY <1>0, RootFacts
<1>2. Subtree(Root(u, PATH)) = Below(Units + u, BATCH_LOG)
  BY <1>1, SubtreeExact
<1>3. ASSUME NEW c \in 1..Batch
      PROVE  (Units + u) * Batch + (c - 1) = Unit(u)[c]
  <2>1. c - 1 \in 0..Batch-1 /\ u * Batch \in Nat
    BY <1>0
  <2>2. u * Batch + c - 1 = u * Batch + (c - 1)
    BY <1>0, <2>1
  <2>3. /\ (u * Batch + (c - 1)) \div Batch = u
        /\ (Units + u) * Batch + (c - 1) = NB_EVALS + (u * Batch + (c - 1))
    BY <2>1, UnitLeaf
  <2>4. ~(partial /\ u * Batch + c - 1 = i_star)
    BY <2>2, <2>3 DEF Hidden
  <2> HIDE DEF Batch
  <2> QED
    BY <2>2, <2>3, <2>4 DEF Unit
<1>4. Unit(u) = [c \in 1..Batch |-> Unit(u)[c]]
  BY DEF Unit
<1> HIDE DEF Batch
<1> QED
  BY <1>0, <1>2, <1>3, <1>4 DEF Below

\* So does the hidden unit's.
LEMMA HiddenUnitExact ==
  ASSUME BATCH_LOG \in BatchLogs, i_star \in LeafNumbers, partial,
         \A h \in Levels : opening[h] = Sibling(Ancestor(i_star, h))
  PROVE  HiddenSubtree = Unit(Hidden)
<1>0. /\ LOG \in Nat /\ BATCH_LOG \in 0..LOG-1
      /\ Batch \in Nat \ {0} /\ Batch = Pow2[BATCH_LOG] /\ Units \in Nat
      /\ BATCH_LOG - BATCH_LOG = 0 /\ i_star \in Nat /\ NB_EVALS \in Nat
  BY Builds, Sizes DEF LeafNumbers
<1>1. HiddenSubtree = HiddenBelow(Units + Hidden, BATCH_LOG)
  BY HiddenExact
<1>2. Hidden \in 0..Units-1
  <2>1. 0 \in 0..PATH
    BY Builds
  <2> QED
    BY <2>1, UnitAncestor DEF Hidden
<1>3. Ancestor(i_star, 0) = NB_EVALS + i_star
  BY <1>0, AncestorFacts
<1>4. ASSUME NEW c \in 1..Batch
      PROVE  (IF (Units + Hidden) * Batch + (c - 1) = Ancestor(i_star, 0) THEN ZeroSeed
              ELSE (Units + Hidden) * Batch + (c - 1)) = Unit(Hidden)[c]
  <2>1. c - 1 \in 0..Batch-1 /\ Hidden * Batch \in Nat
    BY <1>0, <1>2
  <2>2. Hidden * Batch + c - 1 = Hidden * Batch + (c - 1) /\ Hidden * Batch + (c - 1) \in Nat
    BY <1>0, <2>1
  <2>3. (Units + Hidden) * Batch + (c - 1) = NB_EVALS + (Hidden * Batch + (c - 1))
    BY <1>2, <2>1, UnitLeaf
  <2> DEFINE x == Hidden * Batch + (c - 1)
  <2>4. Unit(Hidden)[c] = IF x = i_star THEN ZeroSeed ELSE NB_EVALS + x
    <3> HIDE DEF Batch, Hidden
    <3> QED
      BY <2>2 DEF Unit
  <2> HIDE DEF x
  <2>5. x \in Nat /\ (Units + Hidden) * Batch + (c - 1) = NB_EVALS + x
    BY <2>2, <2>3 DEF x
  <2>6. NB_EVALS + x = NB_EVALS + i_star <=> x = i_star
    BY <1>0, <2>5
  <2> QED
    BY <1>3, <2>4, <2>5, <2>6
<1>5. Unit(Hidden) = [c \in 1..Batch |-> Unit(Hidden)[c]]
  BY DEF Unit
<1> HIDE DEF Batch, Hidden
<1> QED
  BY <1>0, <1>1, <1>4, <1>5 DEF HiddenBelow

\* Units are seeds, as many as a call returns.
LEMMA UnitTyped ==
  ASSUME BATCH_LOG \in BatchLogs, NEW u \in 0..Units-1
  PROVE  Unit(u) \in Seq(SmallSeeds)
<1>0. Batch \in Nat \ {0} /\ NB_EVALS \in Nat \ {0} /\ Units \in Nat /\ NB_EVALS >= 2
  BY Builds, Sizes
<1>1. ASSUME NEW c \in 1..Batch PROVE Unit(u)[c] \in SmallSeeds
  <2> DEFINE x == u * Batch + (c - 1)
  <2>1. c - 1 \in 0..Batch-1 /\ u * Batch \in Nat
    BY <1>0
  <2>2. u * Batch + c - 1 = x
    BY <1>0, <2>1
  <2>3. x \in LeafNumbers
    BY <2>1, UnitLeaf
  <2>4. Unit(u)[c] = IF partial /\ x = i_star THEN ZeroSeed ELSE NB_EVALS + x
    <3> HIDE DEF Batch, x
    <3> QED
      BY <2>2 DEF Unit
  <2> HIDE DEF x
  <2>5. NB_EVALS + x \in SmallNodes
    BY <1>0, <2>3 DEF LeafNumbers, SmallNodes
  <2> QED
    BY <2>4, <2>5 DEF SmallSeeds
<1>2. Unit(u) = [c \in 1..Batch |-> Unit(u)[c]]
  BY DEF Unit
<1> HIDE DEF Batch
<1>3. Unit(u) \in [1..Batch -> SmallSeeds]
  BY <1>1, <1>2
<1> QED
  BY <1>0, <1>3, FunctionSeq

-----------------------------------------------------------------------------
(***************************************************************************)
(* From one call to the next.                                              *)
(***************************************************************************)

\* Level l of the path to unit u is in the context: the signer's path is whole, the
\* verifier's starts where it leaves the hidden one.
Known(u, l) == ~partial \/ (u # Hidden /\ l >= Fork(u, Hidden))

\* What a call finds.
LEMMA CallReady ==
  ASSUME TreeInv, IteratorTypeOK, ContextReady, ret = "running", ~Exhausted
  PROVE  /\ BATCH_LOG \in BatchLogs /\ path \in Paths
         /\ NextUnit \in 0..Units-1 /\ From \in 1..PATH /\ PATH \in 1..LOG
         /\ active => /\ num_leaf \in 0..Units-1 /\ NextUnit = num_leaf + 1
                      /\ num_leaf # NextUnit /\ NextUnit - 1 = num_leaf
                      /\ From = Fork(num_leaf, NextUnit)
         /\ ~active => NextUnit = 0 /\ From = 1
         /\ i_star \in LeafNumbers /\ Hidden \in 0..Units-1
         /\ \A h \in Levels : opening[h] = Sibling(Ancestor(i_star, h))
         /\ opening \in [Levels -> SmallSeeds]
<1>1. BATCH_LOG \in BatchLogs /\ path \in Paths
  BY DEF IteratorTypeOK, Paths
<1>2. PATH \in 1..LOG /\ Units \in Nat \ {0} /\ 1 \in 1..PATH /\ 0 \in 0..PATH
  BY <1>1, Builds
<1>3. /\ i_star \in LeafNumbers /\ \A h \in Levels : opening[h] = Sibling(Ancestor(i_star, h))
      /\ opening \in [Levels -> SmallSeeds]
  BY DEF ContextReady, TreeInv, TreeTypeOK, Opening
<1>4. Hidden \in 0..Units-1
  BY <1>1, <1>2, <1>3, UnitAncestor DEF Hidden
<1>5. CASE active
  <2> DEFINE v == Units
  <2>1. num_leaf \in 0..Units-1 /\ ~(num_leaf + 1 >= Units)
    BY <1>5 DEF IteratorTypeOK, Exhausted
  <2>2. NextUnit = num_leaf + 1 /\ From = Fork(num_leaf, num_leaf + 1)
    BY <1>5 DEF NextUnit, From
  <2>3. NextUnit \in 0..Units-1 /\ num_leaf # NextUnit /\ NextUnit - 1 = num_leaf
    BY <1>2, <2>1, <2>2
  <2>4. From \in 1..PATH
    BY <1>1, <2>1, <2>2, <2>3, ForkFacts
  <2> QED
    BY <1>1, <1>2, <1>3, <1>4, <1>5, <2>1, <2>2, <2>3, <2>4
<1>6. CASE ~active
  <2>1. NextUnit = 0 /\ From = 1
    BY <1>6 DEF NextUnit, From
  <2>2. NextUnit \in 0..Units-1
    BY <1>2, <2>1
  <2> QED
    BY <1>1, <1>2, <1>3, <1>4, <1>6, <2>1, <2>2
<1> QED
  BY <1>5, <1>6

\* A path with a turn is a path.
LEMMA TurnTyped ==
  ASSUME NEW p \in Paths, NEW lev PROVE TurnRight(p, lev) \in Paths
<1>1. XorBlocks(p[lev - 1], p[lev]) \in SmallSeeds
  BY DeriveTyped
<1> QED
  BY <1>1 DEF TurnRight, Paths

\* Where a call starts deriving.
LEMMA StartedTyped ==
  ASSUME TreeInv, IteratorTypeOK, ContextReady, ret = "running", ~Exhausted
  PROVE  Started.from \in 1..PATH /\ Started.path \in Paths
<1>1. /\ BATCH_LOG \in BatchLogs /\ path \in Paths /\ NextUnit \in 0..Units-1 /\ From \in 1..PATH
      /\ Hidden \in 0..Units-1 /\ opening \in [Levels -> SmallSeeds] /\ PATH \in 1..LOG
  BY CallReady
<1>2. CASE ~partial
  BY <1>1, <1>2, TurnTyped DEF Started, Resumed
<1>3. CASE partial /\ NextUnit = Hidden
  <2>1. PATH \in 1..PATH
    BY <1>1
  <2> QED
    BY <1>1, <1>3, <2>1 DEF Started
<1>4. CASE partial /\ NextUnit # Hidden
  <2> DEFINE higher == Fork(NextUnit, Hidden)
  <2>1. higher \in 1..PATH
    BY <1>1, <1>4, ForkFacts
  <2>2. LOG - higher \in Levels
    BY <1>1, <2>1, Depth DEF Levels
  <2>3. [path EXCEPT ![higher] = opening[LOG - higher]] \in Paths
    BY <1>1, <2>2 DEF Paths
  <2> QED
    BY <1>1, <1>4, <2>1, <2>3, TurnTyped DEF Started, ResumedPartial
<1> QED
  BY <1>2, <1>3, <1>4

\* Turning right: from the node of one unit's path to that of the next.
LEMMA TurnExact ==
  ASSUME BATCH_LOG \in BatchLogs, NEW u \in 0..Units-1, NEW v \in 0..Units-1, u # v,
         NEW p \in Paths, p[Fork(u, v) - 1] = Root(u, Fork(u, v) - 1),
         p[Fork(u, v)] = Root(u, Fork(u, v))
  PROVE  TurnRight(p, Fork(u, v)) = [p EXCEPT ![Fork(u, v)] = Root(v, Fork(u, v))]
<1> DEFINE f == Fork(u, v)
           n == Root(u, f)
<1>1. f \in 1..PATH /\ n = Sibling(Root(v, f)) /\ PATH \in 1..LOG /\ LOG \in Nat
  BY ForkFacts, Builds
<1> HIDE DEF f
<1>2. f \in 0..PATH /\ f >= 1 /\ f \in 1..LOG
  BY <1>1
<1>3. n \div 2 = Root(u, f - 1) /\ n \in SmallNodes
  BY <1>2, RootFacts
<1>4. AtLevel(Root(v, f), f)
  BY <1>2, RootFacts
<1>5. Sibling(n) = Root(v, f)
  BY <1>1, <1>2, <1>4, SiblingFacts
<1>6. XorBlocks(Root(u, f - 1), n) = Sibling(n)
  BY <1>3 DEF XorBlocks
<1>7. p[f - 1] = Root(u, f - 1) /\ p[f] = n
  BY DEF f
<1>8. TurnRight(p, f) = [p EXCEPT ![f] = Root(v, f)]
  BY <1>5, <1>6, <1>7 DEF TurnRight
<1> QED
  BY <1>8 DEF f

\* Paths that part below two units leave the hidden one at the same level.
LEMMA SameFork ==
  ASSUME BATCH_LOG \in BatchLogs, NEW u \in 0..Units-1, NEW v \in 0..Units-1, u # v,
         NEW w \in 0..Units-1, v # w, Fork(v, w) < Fork(u, v)
  PROVE  u # w /\ Fork(u, w) = Fork(v, w)
<1>1. /\ Fork(v, w) \in 1..PATH /\ Fork(u, v) \in 1..PATH /\ PATH \in 1..LOG /\ LOG \in Nat
      /\ \A l \in 0..PATH : Root(v, l) = Root(w, l) <=> l < Fork(v, w)
      /\ \A l \in 0..PATH : Root(u, l) = Root(v, l) <=> l < Fork(u, v)
  BY ForkFacts, Builds
<1> DEFINE f == Fork(v, w)
           g == Fork(u, v)
<1>2. f \in 0..PATH /\ f - 1 \in 0..PATH
  BY <1>1
<1>3. Root(u, f) = Root(v, f) /\ Root(v, f) # Root(w, f)
  BY <1>1, <1>2
<1>4. u # w
  BY <1>3
<1>5. Root(u, f - 1) = Root(w, f - 1)
  BY <1>1, <1>2
<1>6. /\ Fork(u, w) \in 1..PATH
      /\ \A l \in 0..PATH : Root(u, l) = Root(w, l) <=> l < Fork(u, w)
  BY <1>4, ForkFacts
<1>7. ~(f < Fork(u, w)) /\ f - 1 < Fork(u, w)
  BY <1>2, <1>3, <1>5, <1>6
<1> QED
  BY <1>1, <1>4, <1>6, <1>7

\* A call starts on the path to its unit, from a node the code may go on from: every
\* turn below it is to the left.
LEMMA StartedExact ==
  ASSUME TreeInv, IteratorTypeOK, ContextReady, PathIsCurrent, ret = "running", ~Exhausted,
         ~key_failed, ~partial \/ NextUnit # Hidden
  PROVE  /\ Started.path[Started.from] = Root(NextUnit, Started.from)
         /\ NextUnit # 0 => Started.from >= Fork(NextUnit - 1, NextUnit)
         /\ \A l \in 1..Started.from : Known(NextUnit, l) => Started.path[l] = Root(NextUnit, l)
         /\ ~partial => Started.path[0] = delta
<1> DEFINE u == NextUnit
<1>0. /\ BATCH_LOG \in BatchLogs /\ path \in Paths
      /\ u \in 0..Units-1 /\ From \in 1..PATH /\ PATH \in 1..LOG
      /\ active => /\ num_leaf \in 0..Units-1 /\ u = num_leaf + 1
                   /\ num_leaf # u /\ u - 1 = num_leaf
                   /\ From = Fork(num_leaf, u)
      /\ ~active => u = 0 /\ From = 1
      /\ i_star \in LeafNumbers /\ Hidden \in 0..Units-1
      /\ \A h \in Levels : opening[h] = Sibling(Ancestor(i_star, h))
      /\ LOG \in Nat
  BY CallReady, Depth
<1>1. u # 0 => active
  BY <1>0
<1>2. active => \A l \in 1..PATH : Known(num_leaf, l) => path[l] = Root(num_leaf, l)
  BY DEF PathIsCurrent, Known
<1>3. active => \A l \in 0..PATH : l < From => Root(num_leaf, l) = Root(u, l)
  BY <1>0, ForkFacts
<1> HIDE DEF u
<1>4. CASE ~partial
  <2>1. Started = Resumed
    BY <1>4 DEF Started
  <2>2. path[0] = delta /\ (~active => path[1] = 2)
    BY <1>4 DEF ContextReady
  <2>3. CASE active
    <3>1. \A l \in 0..PATH : path[l] = Root(num_leaf, l)
      <4>1. \A l \in 1..PATH : path[l] = Root(num_leaf, l)
        BY <1>2, <1>4, <2>3 DEF Known
      <4>2. Root(num_leaf, 0) = 1
        <5>1. 0 \in 0..PATH
          BY <1>0
        <5> QED
          BY <1>0, <2>3, <5>1, RootFacts
      <4>3. path[0] = Root(num_leaf, 0)
        BY <2>2, <4>2 DEF delta
      <4> QED
        BY <1>0, <4>1, <4>3
    <3>2. From \in 0..PATH /\ From - 1 \in 0..PATH
      BY <1>0
    <3>3. TurnRight(path, From) = [path EXCEPT ![From] = Root(u, From)]
      BY <1>0, <2>3, <3>1, <3>2, TurnExact
    <3>4. Started.from = From /\ Started.path = [path EXCEPT ![From] = Root(u, From)]
      BY <2>1, <2>3, <3>3 DEF Resumed
    <3>5. Started.path[From] = Root(u, From)
      BY <1>0, <3>2, <3>4 DEF Paths
    <3>6. ASSUME NEW l \in 0..PATH, l < From PROVE Started.path[l] = path[l]
      BY <1>0, <3>4, <3>6 DEF Paths
    <3>7. \A l \in 1..From : Started.path[l] = Root(u, l)
      BY <1>0, <1>3, <2>3, <3>1, <3>5, <3>6
    <3>8. Started.path[0] = delta
      BY <1>0, <2>2, <3>6
    <3>9. u # 0 => From >= Fork(u - 1, u)
      BY <1>0, <2>3
    <3> QED
      BY <3>4, <3>5, <3>7, <3>8, <3>9 DEF u
  <2>4. CASE ~active
    <3>1. Started.from = 1 /\ Started.path = path /\ u = 0
      BY <1>0, <2>1, <2>4 DEF Resumed
    <3>2. Root(0, 1) = 2
      <4>1. 1 \in 0..PATH /\ 0 \in 0..Units-1 /\ PATH - 1 \in 0..LOG+1
        BY <1>0, <3>1
      <4>2. Root(0, 1) = Pow2[1] + 0 \div Pow2[PATH - 1]
        BY <1>0, <4>1, RootFacts
      <4>3. 0 \div Pow2[PATH - 1] = 0
        <5>1. Pow2[PATH - 1] \in Nat \ {0}
          BY <4>1, Powers
        <5>2. 0 = 0 * Pow2[PATH - 1] + 0 /\ 0 \in 0 .. Pow2[PATH - 1] - 1
          BY <5>1
        <5> QED
          BY <5>1, <5>2, DivModUnique
      <4>4. Pow2[1] = 2
        <5>1. 0 \in 0..LOG /\ 0 + 1 = 1
          BY <1>0
        <5> QED
          BY <5>1, Powers
      <4> QED
        BY <4>2, <4>3, <4>4
    <3>3. \A l \in 1..1 : l = 1
      OBVIOUS
    <3> QED
      BY <2>2, <2>4, <3>1, <3>2, <3>3 DEF u
  <2> QED
    BY <2>3, <2>4
<1>5. CASE partial /\ u # Hidden
  <2> DEFINE higher == Fork(u, Hidden)
  <2>1. Started = ResumedPartial
    BY <1>5 DEF Started, u
  <2>2. higher \in 1..PATH /\ Root(u, higher) = Sibling(Root(Hidden, higher))
    BY <1>0, <1>5, ForkFacts
  <2>3. \A l : Known(u, l) => l >= higher
    BY <1>5 DEF Known
  <2>4. CASE From <= higher
    <3>1. Started.from = higher /\ Started.path = [path EXCEPT ![higher] = opening[LOG - higher]]
      BY <2>1, <2>4 DEF ResumedPartial, u
    <3> HIDE DEF higher
    <3>2. LOG - higher \in Levels /\ higher \in 0..PATH
      BY <1>0, <2>2 DEF Levels
    <3>3. opening[LOG - higher] = Sibling(Root(Hidden, higher))
      <4>1. Ancestor(i_star, LOG - higher) = Root(Hidden, higher)
        BY <1>0, <3>2, UnitAncestor DEF Hidden
      <4> QED
        BY <1>0, <3>2, <4>1
    <3>4. Started.path[higher] = Root(u, higher)
      BY <1>0, <2>2, <3>1, <3>2, <3>3 DEF Paths
    <3>5. u # 0 => higher >= Fork(u - 1, u)
      BY <1>0, <1>1, <2>2, <2>4
    <3>6. \A l \in 1..higher : Known(u, l) => l = higher
      BY <2>2, <2>3
    <3> QED
      BY <1>5, <3>1, <3>4, <3>5, <3>6 DEF u
  <2>5. CASE From > higher
    <3>1. active /\ From = Fork(num_leaf, u) /\ num_leaf \in 0..Units-1 /\ num_leaf # u
      BY <1>0, <2>2, <2>5
    <3>2. num_leaf # Hidden /\ Fork(num_leaf, Hidden) = higher
      BY <1>0, <1>5, <2>5, <3>1, SameFork
    <3>3. Started.from = From /\ Started.path = TurnRight(path, From)
      BY <1>0, <2>1, <2>2, <2>5 DEF ResumedPartial, u
    <3> HIDE DEF higher
    <3>4. \A l \in 1..PATH : l >= higher => path[l] = Root(num_leaf, l)
      BY <1>2, <3>1, <3>2 DEF Known
    <3>5. From \in 0..PATH /\ From - 1 \in 1..PATH /\ From - 1 >= higher
      BY <1>0, <2>2, <2>5
    <3>6. TurnRight(path, From) = [path EXCEPT ![From] = Root(u, From)]
      <4>1. path[From - 1] = Root(num_leaf, From - 1) /\ path[From] = Root(num_leaf, From)
        <5>1. From \in 1..PATH /\ From >= higher
          BY <1>0, <2>2, <2>5
        <5> QED
          BY <3>4, <3>5, <5>1
      <4> QED
        BY <1>0, <3>1, <4>1, TurnExact
    <3>7. Started.path[From] = Root(u, From)
      BY <1>0, <3>3, <3>5, <3>6 DEF Paths
    <3>8. ASSUME NEW l \in 1..From, l >= higher PROVE Started.path[l] = Root(u, l)
      <4>1. CASE l = From
        BY <3>7, <4>1
      <4>2. CASE l # From
        <5>1. l \in 1..PATH /\ l \in 0..PATH /\ l < From
          BY <1>0, <4>2
        <5>2. Started.path[l] = path[l]
          BY <1>0, <3>3, <3>6, <4>2, <5>1 DEF Paths
        <5> QED
          BY <1>3, <3>1, <3>4, <3>8, <5>1, <5>2
      <4> QED
        BY <4>1, <4>2
    <3>9. u # 0 => From >= Fork(u - 1, u)
      BY <1>0, <3>1
    <3> QED
      BY <1>5, <2>3, <3>3, <3>7, <3>8, <3>9 DEF u
  <2> QED
    BY <1>0, <2>2, <2>4, <2>5
<1> QED
  BY <1>4, <1>5 DEF u

\* The path a call leaves, when nothing fails.
LEMMA PathDerived ==
  ASSUME TreeInv, IteratorTypeOK, ContextReady, PathIsCurrent, ret = "running", ~Exhausted,
         ~key_failed, ~partial \/ NextUnit # Hidden,
         NEW p, p = DeriveDown(Started.path, Started.from, PATH)
  PROVE  /\ p[PATH] = Root(NextUnit, PATH)
         /\ \A l \in 1..PATH : Known(NextUnit, l) => p[l] = Root(NextUnit, l)
         /\ ~partial => p[0] = delta
<1> DEFINE u == NextUnit
           from == Started.from
           start == Started.path
<1>1. /\ BATCH_LOG \in BatchLogs /\ u \in 0..Units-1 /\ PATH \in 1..LOG
      /\ from \in 1..PATH /\ start \in Paths /\ LOG \in Nat
  BY CallReady, StartedTyped, Depth
<1>2. /\ start[from] = Root(u, from)
      /\ u # 0 => from >= Fork(u - 1, u)
      /\ \A l \in 1..from : Known(u, l) => start[l] = Root(u, l)
      /\ ~partial => start[0] = delta
  BY StartedExact
<1> HIDE DEF u, from, start
<1>3. DeriveDown(start, from, PATH)
        = [l \in 0..PATH |-> IF l \in from+1..PATH THEN Root(u, l) ELSE start[l]]
  BY <1>1, <1>2, DownExact
<1>4. p = [l \in 0..PATH |-> IF l \in from+1..PATH THEN Root(u, l) ELSE start[l]]
  BY <1>3 DEF from, start
<1>5. ASSUME NEW l \in 1..PATH
      PROVE  (l \in from+1..PATH \/ Known(u, l) \/ l = from) => p[l] = Root(u, l)
  <2>1. CASE l \in from+1..PATH
    BY <1>1, <1>4, <2>1
  <2>2. CASE l \notin from+1..PATH
    <3>1. p[l] = start[l] /\ l \in 1..from
      BY <1>1, <1>4, <2>2
    <3> QED
      BY <1>2, <2>2, <3>1
  <2> QED
    BY <2>1, <2>2
<1>6. p[0] = start[0]
  BY <1>1, <1>4
<1>7. PATH \in from+1..PATH \/ PATH = from
  BY <1>1
<1>8. PATH \in 1..PATH
  BY <1>1
<1> QED
  BY <1>2, <1>5, <1>6, <1>7, <1>8 DEF u

\* The build, the side and the tree stay what they are: so do what is reckoned from them.
LEMMA GivenFacts ==
  ASSUME Given
  PROVE  /\ BATCH_LOG' = BATCH_LOG /\ partial' = partial /\ i_star' = i_star /\ pc' = pc
         /\ UNCHANGED treeVars
         /\ PATH' = PATH /\ Batch' = Batch /\ Units' = Units /\ Hidden' = Hidden
         /\ \A u : Unit(u)' = Unit(u)
BY DEF Given, treeVars, PATH, Batch, Units, Hidden, Unit

\* Said of the next state in terms of this one.
LEMMA PathStays ==
  ASSUME Given
  PROVE  /\ IteratorTypeOK' <=>
              /\ BATCH_LOG \in BatchLogs /\ partial \in BOOLEAN /\ active' \in BOOLEAN
              /\ num_leaf' \in 0..Units-1 \/ (num_leaf' = Junk /\ ~active')
              /\ path' \in Paths
              /\ lseeds' \in Seq(SmallSeeds)
              /\ ret' \in {"idle", "ready", "running", "leaf", "done", "error"}
              /\ key_failed' \in BOOLEAN
         /\ PathIsCurrent' <=>
              (active' /\ ret' # "error" /\ ~key_failed' =>
                 \A l \in 1..PATH : Known(num_leaf', l) => path'[l] = Root(num_leaf', l))
<1>1. /\ BATCH_LOG' = BATCH_LOG /\ partial' = partial /\ PATH' = PATH /\ Units' = Units
      /\ Hidden' = Hidden
  BY GivenFacts
<1>2. \A l : Root(num_leaf, l)' = Root(num_leaf', l)
  BY <1>1 DEF Root
<1>3. Fork(num_leaf, Hidden)' = Fork(num_leaf', Hidden)
  <2> DEFINE F(p, u, v) == CHOOSE lev \in 1..p :
               /\ u \div Pow2[p - lev] # v \div Pow2[p - lev]
               /\ \A l \in 1..lev-1 : u \div Pow2[p - l] = v \div Pow2[p - l]
  <2>1. Fork(num_leaf, Hidden)' = F(PATH', num_leaf', Hidden')
    BY DEF Fork
  <2>2. Fork(num_leaf', Hidden) = F(PATH, num_leaf', Hidden)
    BY DEF Fork
  <2> HIDE DEF F
  <2> QED
    BY <1>1, <2>1, <2>2
<1>4. IteratorTypeOK' <=>
        /\ BATCH_LOG \in BatchLogs /\ partial \in BOOLEAN /\ active' \in BOOLEAN
        /\ num_leaf' \in 0..Units-1 \/ (num_leaf' = Junk /\ ~active')
        /\ path' \in Paths
        /\ lseeds' \in Seq(SmallSeeds)
        /\ ret' \in {"idle", "ready", "running", "leaf", "done", "error"}
        /\ key_failed' \in BOOLEAN
  BY <1>1 DEF IteratorTypeOK, Paths
<1>5. PathIsCurrent' <=>
        (active' /\ ret' # "error" /\ ~key_failed' =>
           \A l \in 1..PATH : Known(num_leaf', l) => path'[l] = Root(num_leaf', l))
  BY <1>1, <1>2, <1>3 DEF PathIsCurrent, Known
<1> QED
  BY <1>4, <1>5

\* A context that was not initialised promises nothing.
LEMMA IteratorInitial ==
  ASSUME Init PROVE IteratorTypeOK /\ ContextReady /\ PathIsCurrent
<1>1. path \in [0..PATH -> SmallSeeds]
  BY DEF Init, Unwritten, SmallSeeds
<1>2. lseeds \in Seq(SmallSeeds)
  BY DEF Init
<1>3. IteratorTypeOK
  BY <1>1, <1>2 DEF Init, IteratorTypeOK
<1> QED
  BY <1>3 DEF Init, ContextReady, PathIsCurrent

\* Initialised: the signer's path has its first two nodes.
LEMMA InitPreserves ==
  ASSUME IteratorInv, InitIncremental
  PROVE  IteratorTypeOK' /\ ContextReady' /\ PathIsCurrent'
<1>1. Given /\ pc = "done" /\ pc' = pc /\ partial' = partial /\ BATCH_LOG \in BatchLogs
  BY GivenFacts DEF InitIncremental, IteratorInv, IteratorTypeOK
<1>2. PATH \in 1..LOG /\ Units \in Nat \ {0} /\ LOG \in Nat
  BY <1>1, Builds
<1>3. CASE ret' = "error" /\ UNCHANGED <<active, num_leaf, path>>
  <2>1. IteratorTypeOK'
    BY <1>1, <1>3, PathStays DEF InitIncremental, IteratorInv, IteratorTypeOK, Paths
  <2> QED
    BY <1>1, <1>3, <2>1, PathStays DEF ContextReady
<1>4. CASE /\ ret' = "ready" /\ active' = FALSE
           /\ num_leaf' = IF BATCH_LOG = 0 THEN num_leaf ELSE 0
           /\ path' = IF partial THEN path
                      ELSE [Unwritten(0..PATH) EXCEPT ![0] = delta, ![1] = SeedDerive(0, mseed)]
  <2>1. SeedDerive(0, mseed) = 2 /\ 2 \in SmallSeeds /\ delta \in SmallSeeds /\ Junk \in SmallSeeds
    BY Derived DEF SmallSeeds
  <2>2. path' \in Paths /\ (~partial => path'[0] = delta /\ path'[1] = 2)
    <3>1. CASE partial
      BY <1>4, <3>1 DEF IteratorInv, IteratorTypeOK, Paths
    <3>2. CASE ~partial
      <4>1. path' = [l \in 0..PATH |-> IF l = 1 THEN 2 ELSE IF l = 0 THEN delta ELSE Junk]
        BY <1>2, <1>4, <2>1, <3>2 DEF Unwritten
      <4>2. 0 \in 0..PATH /\ 1 \in 0..PATH
        BY <1>2
      <4>3. path' \in Paths
        BY <2>1, <4>1 DEF Paths
      <4> QED
        BY <4>1, <4>2, <4>3
    <3> QED
      BY <3>1, <3>2
  <2>3. num_leaf' \in 0..Units-1 \/ num_leaf' = Junk
    BY <1>2, <1>4 DEF IteratorInv, IteratorTypeOK
  <2>4. IteratorTypeOK'
    BY <1>1, <1>4, <2>2, <2>3, PathStays DEF InitIncremental, IteratorInv, IteratorTypeOK
  <2> QED
    BY <1>1, <1>4, <2>2, <2>4, PathStays DEF ContextReady
<1> QED
  BY <1>3, <1>4 DEF InitIncremental

\* A call that starts, or that has nothing left to return, leaves the context as it was.
LEMMA NoMovePreserves ==
  ASSUME IteratorInv, Call \/ GetNextLeafDone \/ UNCHANGED vars
  PROVE  IteratorTypeOK' /\ ContextReady' /\ PathIsCurrent'
<1>1. /\ Given /\ pc' = pc /\ partial' = partial
      /\ UNCHANGED <<active, num_leaf, path, lseeds, key_failed>>
      /\ \/ ret \notin {"idle", "running", "error"} /\ ret' = "running"
         \/ ret = "running" /\ ret' = "done"
         \/ ret' = ret
  BY DEF Call, GetNextLeafDone, vars, treeVars, iterator, Given
<1>2. IteratorTypeOK'
  BY <1>1, PathStays DEF IteratorInv, IteratorTypeOK, Paths
<1>3. PathIsCurrent'
  <2>1. active /\ ret # "error" /\ ~key_failed =>
          \A l \in 1..PATH : Known(num_leaf, l) => path[l] = Root(num_leaf, l)
    BY DEF IteratorInv, PathIsCurrent, Known
  <2>2. ret' # "error" => ret # "error"
    BY <1>1
  <2> HIDE DEF Known
  <2> QED
    BY <1>1, <2>1, <2>2, PathStays
<1>4. ContextReady'
  BY <1>1 DEF IteratorInv, ContextReady
<1> QED
  BY <1>2, <1>3, <1>4

\* A step of the tree is taken before any context is used.
LEMMA TreePreserves ==
  ASSUME IteratorInv, TreeNext, UNCHANGED iterator
  PROVE  IteratorTypeOK' /\ ContextReady' /\ PathIsCurrent'
<1>1. pc # "done"
  BY DEF TreeNext, ExpandRoot, ExpandChunk, CopyLeaves, ExpandFails, Refused, Open, OpenFails,
         CopyPath, DeriveRun, NextPart, CopyKnownLeaves, PartialFails
<1>2. ~active /\ ret = "idle"
  BY <1>1 DEF IteratorInv, ContextReady
<1>3. IteratorTypeOK'
  BY DEF IteratorInv, IteratorTypeOK, iterator, PATH, Units, Batch
<1>4. ~active' /\ ret' = "idle"
  BY <1>2 DEF iterator
<1> QED
  BY <1>3, <1>4 DEF ContextReady, PathIsCurrent

\* The unit a call returns, when no key schedule has failed before.
LEMMA UnitReturned ==
  ASSUME IteratorInv, GetNextLeaf \/ GetNextLeafPartial
  PROVE  /\ path' \in Paths /\ lseeds' \in Seq(SmallSeeds)
         /\ ~key_failed => lseeds' = Unit(NextUnit)
         /\ ~key_failed => \A l \in 1..PATH : Known(NextUnit, l) => path'[l] = Root(NextUnit, l)
         /\ ~key_failed /\ ~partial => path'[0] = delta
<1> DEFINE p == DeriveDown(Started.path, Started.from, PATH)
<1>1. TreeInv /\ IteratorTypeOK /\ ContextReady /\ PathIsCurrent /\ ret = "running" /\ ~Exhausted
  BY DEF IteratorInv, GetNextLeaf, GetNextLeafPartial, Begun
<1>2. /\ BATCH_LOG \in BatchLogs /\ NextUnit \in 0..Units-1 /\ PATH \in 1..LOG /\ LOG \in Nat
      /\ i_star \in LeafNumbers /\ Hidden \in 0..Units-1
      /\ \A h \in Levels : opening[h] = Sibling(Ancestor(i_star, h))
      /\ Started.from \in 1..PATH /\ Started.path \in Paths
  BY <1>1, CallReady, StartedTyped, Depth
<1>3. p \in Paths
  <2>1. PATH \in Started.from..PATH
    BY <1>2
  <2> HIDE DEF Started
  <2> QED
    BY <1>2, <2>1, DownTyped
<1>4. path' = p
  BY DEF GetNextLeaf, GetNextLeafPartial
<1>5. ~key_failed /\ (~partial \/ NextUnit # Hidden) =>
         /\ p[PATH] = Root(NextUnit, PATH)
         /\ \A l \in 1..PATH : Known(NextUnit, l) => p[l] = Root(NextUnit, l)
         /\ ~partial => p[0] = delta
  BY <1>1, PathDerived
<1> HIDE DEF p
<1>6. p[PATH] \in SmallSeeds
  <2>1. PATH \in 0..PATH
    BY <1>2
  <2> QED
    BY <1>3, <2>1 DEF Paths
<1>7. CASE ~partial \/ NextUnit # Hidden
  <2>1. lseeds' = Subtree(p[PATH])
    BY <1>4, <1>7 DEF GetNextLeaf, GetNextLeafPartial
  <2>2. Subtree(p[PATH]) \in Seq(SmallSeeds)
    BY <1>2, <1>6, SubtreeTyped
  <2>3. ~key_failed => Subtree(p[PATH]) = Unit(NextUnit)
    BY <1>2, <1>5, <1>7, UnitExact
  <2> QED
    BY <1>3, <1>4, <1>5, <1>7, <2>1, <2>2, <2>3
<1>8. CASE partial /\ NextUnit = Hidden
  <2>1. lseeds' = HiddenSubtree
    BY <1>8 DEF GetNextLeaf, GetNextLeafPartial
  <2>2. HiddenSubtree = Unit(Hidden)
    BY <1>2, <1>8, HiddenUnitExact
  <2>3. Unit(Hidden) \in Seq(SmallSeeds)
    BY <1>2, UnitTyped
  <2>4. \A l : ~Known(NextUnit, l)
    BY <1>8 DEF Known
  <2> QED
    BY <1>3, <1>4, <1>8, <2>1, <2>2, <2>3, <2>4
<1> QED
  BY <1>7, <1>8

\* A unit is returned, and the path to it kept.
LEMMA LeafPreserves ==
  ASSUME IteratorInv, GetNextLeaf \/ GetNextLeafPartial
  PROVE  IteratorTypeOK' /\ ContextReady' /\ PathIsCurrent'
<1>1. /\ Given /\ pc' = pc /\ partial' = partial /\ active' = TRUE /\ num_leaf' = NextUnit
      /\ ret' = "leaf" /\ key_failed' = key_failed /\ pc = "done" /\ NextUnit \in 0..Units-1
  <2>1. ret = "running" /\ ~Exhausted
    BY DEF GetNextLeaf, GetNextLeafPartial, Begun
  <2> QED
    BY <2>1, CallReady, GivenFacts
       DEF IteratorInv, ContextReady, GetNextLeaf, GetNextLeafPartial, Begun
<1>2. /\ path' \in Paths /\ lseeds' \in Seq(SmallSeeds)
      /\ ~key_failed => \A l \in 1..PATH : Known(NextUnit, l) => path'[l] = Root(NextUnit, l)
      /\ ~key_failed /\ ~partial => path'[0] = delta
  BY UnitReturned
<1>3. IteratorTypeOK'
  BY <1>1, <1>2, PathStays DEF IteratorInv, IteratorTypeOK
<1>4. PathIsCurrent'
  BY <1>1, <1>2, PathStays
<1>5. ContextReady'
  BY <1>1, <1>2 DEF ContextReady
<1> QED
  BY <1>3, <1>4, <1>5

\* After a failure the context is not used as it is, whatever the call returned.
LEMMA LeafFailsPreserves ==
  ASSUME IteratorInv, GetNextLeafFails
  PROVE  IteratorTypeOK' /\ ContextReady' /\ PathIsCurrent'
<1>1. TreeInv /\ IteratorTypeOK /\ ContextReady /\ ret = "running" /\ ~Exhausted
  BY DEF IteratorInv, GetNextLeafFails, Begun
<1>2. /\ Given /\ pc' = pc /\ active' = TRUE /\ num_leaf' = NextUnit /\ pc = "done"
      /\ BATCH_LOG \in BatchLogs /\ NextUnit \in 0..Units-1 /\ PATH \in 1..LOG /\ LOG \in Nat
      /\ Started.from \in 1..PATH /\ Started.path \in Paths
  BY <1>1, CallReady, StartedTyped, GivenFacts, Depth DEF ContextReady, GetNextLeafFails, Begun
<1>3. PICK lev \in Started.from..LOG-1 :
        /\ path' = DeriveDown(Started.path, Started.from, IF lev < PATH THEN lev ELSE PATH)
        /\ lseeds' = IF lev < PATH THEN lseeds ELSE <<>>
        /\ \/ ret' = "error" /\ UNCHANGED key_failed
           \/ ret' = "leaf" /\ key_failed' = TRUE
  BY DEF GetNextLeafFails
<1> DEFINE to == IF lev < PATH THEN lev ELSE PATH
<1>4. to \in Started.from..PATH
  <2> HIDE DEF Started
  <2> QED
    BY <1>2, <1>3
<1> HIDE DEF to
<1>5. path' \in Paths
  <2>1. path' = DeriveDown(Started.path, Started.from, to)
    BY <1>3 DEF to
  <2> HIDE DEF Started
  <2> QED
    BY <1>2, <1>4, <2>1, DownTyped
<1>6. lseeds' \in Seq(SmallSeeds)
  BY <1>1, <1>3 DEF IteratorTypeOK
<1>7. IteratorTypeOK'
  BY <1>1, <1>2, <1>3, <1>5, <1>6, PathStays DEF IteratorTypeOK
<1> QED
  BY <1>2, <1>3, <1>7 DEF ContextReady, PathIsCurrent

\* Every step keeps what the calls rely on.
LEMMA IteratorStep == IteratorInv /\ [Next]_vars => IteratorInv'
<1> SUFFICES ASSUME IteratorInv, [Next]_vars PROVE IteratorInv'
  OBVIOUS
<1>1. TreeInv'
  BY TreeStep DEF IteratorInv
<1>2. IteratorTypeOK' /\ ContextReady' /\ PathIsCurrent'
  <2>1. CASE TreeNext /\ UNCHANGED iterator
    BY <2>1, TreePreserves
  <2>2. CASE InitIncremental
    BY <2>2, InitPreserves
  <2>3. CASE Call \/ GetNextLeafDone \/ UNCHANGED vars
    BY <2>3, NoMovePreserves
  <2>4. CASE GetNextLeaf \/ GetNextLeafPartial
    BY <2>4, LeafPreserves
  <2>5. CASE GetNextLeafFails
    BY <2>5, LeafFailsPreserves
  <2> QED
    BY <2>1, <2>2, <2>3, <2>4, <2>5 DEF Next, Iterate
<1> QED
  BY <1>1, <1>2 DEF IteratorInv

\* What the calls rely on holds whenever one is made.
LEMMA IteratorInvariance == Spec => []IteratorInv
<1>1. Init => IteratorInv
  BY TreeInitEstablishes, IteratorInitial DEF Init, IteratorInv
<1> QED
  BY <1>1, IteratorStep, PTL DEF Spec

\* Whatever is called, fails and is called again, a context holds a leaf number that is
\* one of its units, and the path the next call goes on from.
THEOREM PathKept == Spec => []PathInvariant
<1>1. IteratorInv => PathInvariant
  BY DEF IteratorInv, TreeInv, PathInvariant, TypeOK, IteratorTypeOK
<1> QED
  BY <1>1, IteratorInvariance, PTL

-----------------------------------------------------------------------------
(***************************************************************************)
(* What a caller sees: a stream of units (LeafStream).                     *)
(***************************************************************************)

\* What the caller expects, how many units it has, what it was given and told.
Expected == [u \in 0..Units-1 |-> Unit(u)]
Returned == IF active /\ ~key_failed THEN num_leaf + 1 ELSE 0
Written == IF key_failed THEN <<>> ELSE lseeds
Told     == IF key_failed THEN "error" ELSE IF ret = "idle" THEN "ready" ELSE ret

\* The units expected stay the same.
LEMMA ExpectedKept ==
  ASSUME BATCH_LOG' = BATCH_LOG, partial' = partial, i_star' = i_star
  PROVE  Expected' = Expected
BY DEF Expected, Unit, Units, Batch

\* Once a key schedule has failed the stream has ended, until the context is
\* initialised again.
LEMMA EndedStream ==
  ASSUME Given, key_failed, key_failed'
  PROVE  UNCHANGED Stream!vars
<1>1. Expected' = Expected
  BY ExpectedKept, GivenFacts
<1>2. Expected' = Expected /\ Returned' = Returned /\ Written' = Written /\ Told' = Told
  BY <1>1 DEF Returned, Written, Told
<1> QED
  BY <1>2 DEF Stream!vars, Expected, Returned, Written, Told

\* Initialisation restarts the stream.
LEMMA InitStream ==
  ASSUME InitIncremental PROVE Stream!Next
<1>1. Expected' = Expected
  BY ExpectedKept, GivenFacts DEF InitIncremental
<1>2. Told # "running"
  BY DEF Told, InitIncremental
<1>3. (Told' = "ready" /\ Returned' = 0) \/ Told' = "error"
  BY DEF Told, Returned, InitIncremental
<1>4. Stream!Restart
  BY <1>1, <1>2, <1>3 DEF Stream!Restart, Expected, Returned, Told
<1> QED
  BY <1>4 DEF Stream!Next

\* A call starts.
LEMMA CallStream ==
  ASSUME Call, ~key_failed PROVE Stream!Next
<1>1. Expected' = Expected
  BY ExpectedKept, GivenFacts DEF Call
<1>2. Told \notin {"running", "error"} /\ Told' = "running"
  BY DEF Told, Call
<1>3. Returned' = Returned /\ Written' = Written
  BY DEF Returned, Written, Call
<1>4. Stream!Call
  BY <1>1, <1>2, <1>3 DEF Stream!Call, Expected, Returned, Written, Told
<1> QED
  BY <1>4 DEF Stream!Next

\* A call returns the next unit.
LEMMA LeafStreams ==
  ASSUME IteratorInv, GetNextLeaf \/ GetNextLeafPartial, ~key_failed PROVE Stream!Next
<1>1. Given /\ ret = "running" /\ ~Exhausted /\ active' = TRUE /\ num_leaf' = NextUnit
      /\ ret' = "leaf" /\ key_failed' = key_failed
  BY DEF GetNextLeaf, GetNextLeafPartial, Begun
<1>2. NextUnit \in 0..Units-1 /\ (active => NextUnit = num_leaf + 1) /\ (~active => NextUnit = 0)
  BY <1>1, CallReady DEF IteratorInv
<1>3. Expected' = Expected
  BY <1>1, ExpectedKept, GivenFacts
<1>4. Returned = NextUnit /\ Returned' = NextUnit + 1
  BY <1>1, <1>2 DEF Returned
<1>5. Told = "running" /\ Told' = "leaf"
  BY <1>1 DEF Told
<1>6. Written' = Unit(NextUnit)
  BY <1>1, UnitReturned DEF Written
<1>7. DOMAIN Expected = 0..Units-1 /\ Expected[NextUnit] = Unit(NextUnit)
  BY <1>2 DEF Expected
<1>8. /\ Told = "running" /\ Returned \in DOMAIN Expected
      /\ Written' = Expected[Returned] /\ Returned' = Returned + 1 /\ Told' = "leaf"
      /\ Expected' = Expected
  BY <1>2, <1>3, <1>4, <1>5, <1>6, <1>7
<1>9. Stream!Leaf
  BY <1>8 DEF Stream!Leaf, Expected, Returned, Written, Told
<1> QED
  BY <1>9 DEF Stream!Next

\* There are no more.
LEMMA DoneStream ==
  ASSUME IteratorInv, GetNextLeafDone, ~key_failed PROVE Stream!Next
<1>1. /\ Given /\ ret = "running" /\ ret' = "done" /\ active /\ num_leaf + 1 >= Units
      /\ UNCHANGED <<active, num_leaf, lseeds, key_failed>>
  BY DEF GetNextLeafDone, Exhausted
<1>2. Expected' = Expected
  BY <1>1, ExpectedKept, GivenFacts
<1>3. Units \in Nat /\ num_leaf \in Nat
  BY <1>1, Builds DEF IteratorInv, IteratorTypeOK
<1>4. Returned = num_leaf + 1 /\ Returned' = Returned /\ Written' = Written
  BY <1>1 DEF Returned, Written
<1>5. Told = "running" /\ Told' = "done"
  BY <1>1 DEF Told
<1>6. Returned \notin DOMAIN Expected
  <2>1. DOMAIN Expected = 0..Units-1
    BY DEF Expected
  <2> QED
    BY <1>1, <1>3, <1>4, <2>1
<1>7. Stream!Done
  BY <1>2, <1>4, <1>5, <1>6 DEF Stream!Done, Expected, Returned, Written, Told
<1> QED
  BY <1>7 DEF Stream!Next

\* A call fails, whatever it returns.
LEMMA FailStream ==
  ASSUME GetNextLeafFails, ~key_failed PROVE Stream!Next
<1>1. Expected' = Expected
  BY ExpectedKept, GivenFacts DEF GetNextLeafFails, Begun
<1>2. Told = "running"
  BY DEF Told, GetNextLeafFails, Begun
<1>3. Told' = "error"
  BY DEF Told, GetNextLeafFails
<1>4. Stream!Fail
  BY <1>1, <1>2, <1>3 DEF Stream!Fail, Expected, Told
<1> QED
  BY <1>4 DEF Stream!Next

\* Every step is one of the stream, or shows nothing.
LEMMA StreamStep == IteratorInv /\ [Next]_vars => [Stream!Next]_(Stream!vars)
<1> SUFFICES ASSUME IteratorInv, [Next]_vars PROVE [Stream!Next]_(Stream!vars)
  OBVIOUS
<1>1. CASE (TreeNext /\ UNCHANGED iterator) \/ UNCHANGED vars
  <2>1. i_star' = i_star
    BY <1>1 DEF vars, treeVars, TreeNext, ExpandRoot, ExpandChunk, CopyLeaves, ExpandFails,
         Refused, Open, OpenFails, CopyPath, DeriveRun, NextPart, CopyKnownLeaves, PartialFails,
         SignerIdle
  <2>2. UNCHANGED iterator
    BY <1>1 DEF vars
  <2>3. Expected' = Expected
    BY <2>1, <2>2, ExpectedKept DEF iterator
  <2>4. Returned' = Returned /\ Written' = Written /\ Told' = Told
    BY <2>2 DEF iterator, Returned, Written, Told
  <2> QED
    BY <2>3, <2>4 DEF Stream!vars, Expected, Returned, Written, Told
<1>2. CASE InitIncremental
  BY <1>2, InitStream
<1>3. CASE Iterate /\ ~InitIncremental /\ key_failed
  <2>1. Given /\ key_failed'
    BY <1>3 DEF Iterate, Call, GetNextLeaf, GetNextLeafPartial, GetNextLeafDone,
                GetNextLeafFails, Begun
  <2> QED
    BY <1>3, <2>1, EndedStream
<1>4. CASE Iterate /\ ~InitIncremental /\ ~key_failed
  BY <1>4, CallStream, LeafStreams, DoneStream, FailStream DEF Iterate
<1> QED
  BY <1>1, <1>2, <1>3, <1>4 DEF Next

\* The iterators return the leaves in order, each once and with the seed it has in the
\* kept tree, zero for the hidden one, and then stop; a call in which a key schedule or
\* the cipher fails ends the stream.  Safety only: that every call returns is checked
\* by TLC with the rest of LeavesInOrder.
THEOREM IteratorsStream == Spec => Stream!Init /\ [][Stream!Next]_(Stream!vars)
<1>1. Init => Stream!Init
  BY DEF Init, Stream!Init
<1> QED
  BY <1>1, StreamStep, IteratorInvariance, PTL DEF Spec

=============================================================================
