------------------------------- MODULE BLCProofs ------------------------------
(***************************************************************************)
(* Proofs about the batch line commitment: for every family, every build   *)
(* that the build system makes, every number of executions and leaves, and *)
(* every challenge, what Commit and Eval return is the line that the       *)
(* definition gives, and no call leaves anything behind.                   *)
(*                                                                         *)
(* The lemmas come in the order of the argument: arithmetic, the Gray code *)
(* and its bits, sums of rows, the ways of folding, the verifier's sums    *)
(* without the hidden leaf; then the invariant of the calls (Control),     *)
(* what they hold (HeldInv), and what they have computed (LineInv).        *)
(***************************************************************************)
EXTENDS BLC, WellFoundedInduction, FiniteSetTheorems, TLAPS

-----------------------------------------------------------------------------
(***************************************************************************)
(* Arithmetic, and powers of two.                                          *)
(***************************************************************************)
\* Quotient and remainder.
LEMMA DivMod ==
  ASSUME NEW a \in Nat, NEW d \in Nat \ {0}
  PROVE  a \div d \in Nat /\ a % d \in 0 .. d - 1 /\ a = d * (a \div d) + (a % d)
OBVIOUS

\* They are the only ones.
LEMMA DivModUnique ==
  ASSUME NEW d \in Nat \ {0}, NEW a, NEW q \in Nat, NEW r \in 0 .. d - 1, a = q * d + r
  PROVE  a \div d = q /\ a % d = r
OBVIOUS

\* Those of a multiple.
LEMMA MultipleMod ==
  ASSUME NEW d \in Nat \ {0}, NEW q \in Nat
  PROVE  q * d \in Nat /\ (q * d) % d = 0 /\ (q * d) \div d = q
OBVIOUS

\* Products of sums.
LEMMA Distribute ==
  ASSUME NEW a \in Int, NEW b \in Int, NEW d \in Int
  PROVE  (a + b) * d = a * d + b * d /\ d * b = b * d
OBVIOUS

\* Multiples of the same factor grow with what is multiplied.
LEMMA MultMonotone ==
  ASSUME NEW a \in Nat, NEW b \in Nat, NEW c \in Nat, a <= b
  PROVE  a * c <= b * c
OBVIOUS

\* The order of the natural numbers.
LEMMA NatWellFounded == IsWellFoundedOn({p \in Nat \X Nat : p[1] < p[2]}, Nat)
BY NatLessThanWellFounded DEF OpToRel

\* A set of natural numbers with an element has a smallest one.
LEMMA Smallest ==
  ASSUME NEW S, S \subseteq Nat, S # {}
  PROVE  \E x \in S : \A z \in S : x <= z
<1> DEFINE R == {p \in Nat \X Nat : p[1] < p[2]}
<1>1. IsWellFoundedOn(R, Nat)
  BY NatWellFounded
<1> HIDE DEF R
<1>2. PICK x \in S : \A z \in S : <<z, x>> \notin R
  BY <1>1, WFMin
<1>3. ASSUME NEW z \in S PROVE x <= z
  <2>1. <<z, x>> \notin R
    BY <1>2
  <2> QED
    BY <2>1 DEF R
<1> QED
  BY <1>3
-----------------------------------------------------------------------------
\* What the sizes are.
LEMMA LineSizes == TAU \in Nat \ {0} /\ NB_EVALS_LOG \in Nat /\ NB_EVALS_LOG >= 3
BY LineAssumption

\* The powers of two up to n, as a function with the equation of Pow2.
IsPowers(f, n) == f = [k \in 0..n |-> IF k = 0 THEN 1 ELSE 2 * f[k - 1]]

\* There are such functions: the recursion of Pow2 is well founded.
LEMMA PowersExist == \E f : IsPowers(f, NB_EVALS_LOG)
<1> DEFINE Bad == {n \in Nat : ~ \E f : IsPowers(f, n)}
<1>1. ASSUME Bad # {} PROVE FALSE
  <2>1. Bad \subseteq Nat
    OBVIOUS
  <2> HIDE DEF Bad
  <2>2. PICK n \in Bad : \A m \in Bad : n <= m
    BY <1>1, <2>1, Smallest
  <2>3. n \in Nat /\ ~ \E f : IsPowers(f, n)
    BY <2>2 DEF Bad
  <2>4. CASE n = 0
    <3> DEFINE g == [k \in 0..0 |-> 1]
    <3>1. IsPowers(g, 0)
      BY DEF IsPowers
    <3> QED
      BY <2>3, <2>4, <3>1
  <2>5. CASE n # 0
    <3>1. n - 1 \in Nat /\ n - 1 \notin Bad
      BY <2>2, <2>3, <2>5
    <3>2. PICK f : IsPowers(f, n - 1)
      BY <3>1 DEF Bad
    <3> DEFINE g == [k \in 0..n |-> IF k = n THEN 2 * f[n - 1] ELSE f[k]]
    <3>3. ASSUME NEW k \in 0..n PROVE g[k] = IF k = 0 THEN 1 ELSE 2 * g[k - 1]
      <4>1. CASE k = n
        <5>1. g[n - 1] = f[n - 1]
          BY <2>3, <2>5
        <5> QED
          BY <2>5, <4>1, <5>1
      <4>2. CASE k # n
        <5>1. k \in 0..(n - 1) /\ (k # 0 => k - 1 \in 0..n /\ k - 1 # n)
          BY <2>3, <4>2
        <5>2. f[k] = IF k = 0 THEN 1 ELSE 2 * f[k - 1]
          BY <3>2, <5>1 DEF IsPowers
        <5> QED
          BY <4>2, <5>1, <5>2
      <4> QED
        BY <4>1, <4>2
    <3>4. IsPowers(g, n)
      BY <3>3 DEF IsPowers
    <3> QED
      BY <2>3, <3>4
  <2> QED
    BY <2>4, <2>5
<1>2. NB_EVALS_LOG \notin Bad
  BY <1>1
<1> QED
  BY <1>2, LineSizes

\* What the recursion gives: powers of two are positive and double.
LEMMA Powers ==
  /\ Pow2[0] = 1
  /\ \A k \in 1..NB_EVALS_LOG : Pow2[k] = 2 * Pow2[k - 1]
  /\ \A k \in 0..NB_EVALS_LOG : Pow2[k] \in Nat \ {0}
<1>1. \E f : f = [k \in 0..NB_EVALS_LOG |-> IF k = 0 THEN 1 ELSE 2 * f[k - 1]]
  BY PowersExist DEF IsPowers
<1>2. Pow2 = [k \in 0..NB_EVALS_LOG |-> IF k = 0 THEN 1 ELSE 2 * Pow2[k - 1]]
  BY <1>1 DEF Pow2
<1>3. Pow2[0] = 1 /\ \A k \in 1..NB_EVALS_LOG : Pow2[k] = 2 * Pow2[k - 1]
  BY <1>2, LineSizes
<1> DEFINE Bad == {k \in 0..NB_EVALS_LOG : Pow2[k] \notin Nat \ {0}}
<1>4. ASSUME Bad # {} PROVE FALSE
  <2>1. Bad \subseteq Nat
    OBVIOUS
  <2> HIDE DEF Bad
  <2>2. PICK k \in Bad : \A m \in Bad : k <= m
    BY <1>4, <2>1, Smallest
  <2>3. k \in 0..NB_EVALS_LOG /\ Pow2[k] \notin Nat \ {0}
    BY <2>2 DEF Bad
  <2>4. k # 0
    BY <1>3, <2>3
  <2>5. k - 1 \in 0..NB_EVALS_LOG /\ k \in 1..NB_EVALS_LOG
    BY <2>3, <2>4, LineSizes
  <2>6. Pow2[k - 1] \in Nat \ {0}
    BY <2>2, <2>3, <2>5 DEF Bad
  <2> QED
    BY <1>3, <2>3, <2>5, <2>6
<1> QED
  BY <1>3, <1>4

\* The number of leaves, a multiple of 8.
LEMMA Leaves8 ==
  /\ NB_EVALS \in Nat \ {0} /\ NB_EVALS % 8 = 0
  /\ Pow2[1] = 2 /\ Pow2[2] = 4 /\ Pow2[3] = 8
<1>1. Pow2[1] = 2 /\ Pow2[2] = 4 /\ Pow2[3] = 8
  <2>1. 1 \in 1..NB_EVALS_LOG /\ 2 \in 1..NB_EVALS_LOG /\ 3 \in 1..NB_EVALS_LOG
    BY LineSizes
  <2>2. Pow2[1] = 2 * Pow2[0] /\ Pow2[2] = 2 * Pow2[1] /\ Pow2[3] = 2 * Pow2[2]
    BY <2>1, Powers
  <2> QED
    BY <2>2, Powers
<1> DEFINE Bad == {k \in 3..NB_EVALS_LOG : Pow2[k] % 8 # 0}
<1>2. ASSUME Bad # {} PROVE FALSE
  <2>1. Bad \subseteq Nat
    OBVIOUS
  <2> HIDE DEF Bad
  <2>2. PICK k \in Bad : \A m \in Bad : k <= m
    BY <1>2, <2>1, Smallest
  <2>3. k \in 3..NB_EVALS_LOG /\ Pow2[k] % 8 # 0
    BY <2>2 DEF Bad
  <2>4. k # 3
    BY <1>1, <2>3
  <2>5. k - 1 \in 3..NB_EVALS_LOG /\ k \in 1..NB_EVALS_LOG /\ k - 1 \in 0..NB_EVALS_LOG
    BY <2>3, <2>4, LineSizes
  <2>6. Pow2[k - 1] % 8 = 0
    BY <2>2, <2>3, <2>5 DEF Bad
  <2>7. Pow2[k] = 2 * Pow2[k - 1] /\ Pow2[k - 1] \in Nat
    BY <2>5, Powers
  <2> QED
    BY <2>3, <2>6, <2>7
<1>3. NB_EVALS_LOG \in 3..NB_EVALS_LOG /\ NB_EVALS_LOG \in 0..NB_EVALS_LOG
  BY LineSizes
<1>4. NB_EVALS \in Nat \ {0}
  BY <1>3, Powers DEF NB_EVALS
<1>5. NB_EVALS % 8 = 0
  BY <1>2, <1>3 DEF NB_EVALS
<1> QED
  BY <1>1, <1>4, <1>5

-----------------------------------------------------------------------------
\* Counting by one, a quotient goes up at the multiples of the divisor.
LEMMA QuotientStep ==
  ASSUME NEW n \in Nat \ {0}, NEW d \in Nat \ {0}
  PROVE  n \div d = ((n - 1) \div d) + (IF n % d = 0 THEN 1 ELSE 0)
<1> DEFINE q == n \div d
           r == n % d
<1>1. q \in Nat /\ r \in 0..d - 1 /\ n = q * d + r
  <2>1. q \in Nat /\ r \in 0..d - 1 /\ n = d * q + r
    BY DivMod
  <2> HIDE DEF q, r
  <2> QED
    BY <2>1
<1> HIDE DEF q, r
<1>2. CASE r = 0
  <2>1. q # 0
    BY <1>1, <1>2
  <2>2. n - 1 = (q - 1) * d + (d - 1) /\ q - 1 \in Nat /\ d - 1 \in 0..d - 1
    <3>1. (q - 1) * d = q * d - d
      BY <1>1
    <3> QED
      BY <1>1, <1>2, <2>1, <3>1
  <2>3. (n - 1) \div d = q - 1
    BY <2>2, DivModUnique
  <2> QED
    BY <1>1, <1>2, <2>3 DEF q, r
<1>3. CASE r # 0
  <2>1. n - 1 = q * d + (r - 1) /\ r - 1 \in 0..d - 1
    BY <1>1, <1>3
  <2>2. (n - 1) \div d = q
    BY <1>1, <2>1, DivModUnique
  <2> QED
    BY <1>1, <1>3, <2>2 DEF q, r
<1> QED
  BY <1>2, <1>3

\* Multiples of twice a divisor are those with an even quotient.
LEMMA EvenQuotient ==
  ASSUME NEW n \in Nat, NEW d \in Nat \ {0}
  PROVE  n % (2 * d) = 0 <=> n % d = 0 /\ (n \div d) % 2 = 0
<1>1. ASSUME n % (2 * d) = 0 PROVE n % d = 0 /\ (n \div d) % 2 = 0
  <2> DEFINE q == n \div (2 * d)
  <2>1. q \in Nat /\ n = (2 * d) * q
    <3>1. 2 * d \in Nat \ {0}
      OBVIOUS
    <3>2. q \in Nat /\ n = (2 * d) * q + (n % (2 * d))
      BY <3>1, DivMod
    <3> HIDE DEF q
    <3> QED
      BY <1>1, <3>2
  <2> HIDE DEF q
  <2>2. n = (2 * q) * d + 0 /\ 2 * q \in Nat /\ 0 \in 0..d - 1
    BY <2>1
  <2>3. n \div d = 2 * q /\ n % d = 0
    BY <2>2, DivModUnique
  <2> QED
    BY <2>1, <2>3
<1>2. ASSUME n % d = 0, (n \div d) % 2 = 0 PROVE n % (2 * d) = 0
  <2> DEFINE q == n \div d
             h == q \div 2
  <2>1. q \in Nat /\ n = q * d
    BY <1>2, DivMod
  <2>2. q % 2 = 0
    BY <1>2
  <2> HIDE DEF q
  <2>4. h \in Nat /\ q = 2 * h
    BY <2>1, <2>2
  <2> HIDE DEF h
  <2>3. n = h * (2 * d) + 0 /\ 2 * d \in Nat \ {0} /\ 0 \in 0..(2 * d) - 1
    BY <2>1, <2>4
  <2> QED
    BY <2>3, <2>4, DivModUnique
<1> QED
  BY <1>1, <1>2

-----------------------------------------------------------------------------
(***************************************************************************)
(* The Gray code: the bit that the code turns at each leaf.                *)
(***************************************************************************)
\* Whether 2^c divides n.
Div2(n, c) == n % Pow2[c] = 0

\* Twice a power divides what the power divides with an even quotient.
LEMMA DivStep ==
  ASSUME NEW n \in Nat, NEW c \in 0..NB_EVALS_LOG - 1
  PROVE  Div2(n, c + 1) <=> Div2(n, c) /\ Bit(n, c) = 0
<1>1. Pow2[c + 1] = 2 * Pow2[c] /\ Pow2[c] \in Nat \ {0}
  <2>1. c + 1 \in 1..NB_EVALS_LOG /\ (c + 1) - 1 = c /\ c \in 0..NB_EVALS_LOG
    BY LineSizes
  <2> QED
    BY <2>1, Powers
<1> QED
  BY <1>1, EvenQuotient DEF Div2, Bit

\* A power that divides is divided by the smaller ones.
LEMMA DivDown ==
  ASSUME NEW n \in Nat, NEW b \in 0..NB_EVALS_LOG, NEW a \in 0..b, Div2(n, b)
  PROVE  Div2(n, a)
<1> DEFINE Bad == {k \in 0..b : ~Div2(n, b - k)}
<1>1. ASSUME Bad # {} PROVE FALSE
  <2>1. Bad \subseteq Nat
    OBVIOUS
  <2> HIDE DEF Bad
  <2>2. PICK k \in Bad : \A m \in Bad : k <= m
    BY <1>1, <2>1, Smallest
  <2>3. k \in 0..b /\ ~Div2(n, b - k)
    BY <2>2 DEF Bad
  <2>4. k # 0
    <3>1. b - 0 = b
      BY LineSizes
    <3> QED
      BY <2>3, <3>1
  <2>5. k - 1 \in 0..b /\ k - 1 \notin Bad
    BY <2>2, <2>3, <2>4, LineSizes
  <2>6. Div2(n, b - (k - 1))
    BY <2>5 DEF Bad
  <2>7. b - k \in 0..NB_EVALS_LOG - 1 /\ b - (k - 1) = (b - k) + 1
    BY <2>3, <2>4, LineSizes
  <2> QED
    BY <2>3, <2>6, <2>7, DivStep
<1>2. b - a \in 0..b /\ b - (b - a) = a
  BY LineSizes
<1> QED
  BY <1>1, <1>2

\* Counting by one changes the bits up to the lowest one set.
LEMMA BitChanges ==
  ASSUME NEW n \in Nat \ {0}, NEW c \in 0..NB_EVALS_LOG
  PROVE  /\ Bit(n, c) \in {0, 1} /\ Bit(n - 1, c) \in {0, 1}
         /\ Bit(n, c) # Bit(n - 1, c) <=> Div2(n, c)
<1> DEFINE d == Pow2[c]
<1>1. d \in Nat \ {0}
  BY Powers
<1> HIDE DEF d
<1>0. n \in Nat /\ n - 1 \in Nat
  OBVIOUS
<1>2. n \div d \in Nat /\ (n - 1) \div d \in Nat
  BY <1>0, <1>1, DivMod
<1>3. n \div d = ((n - 1) \div d) + (IF n % d = 0 THEN 1 ELSE 0)
  BY <1>1, QuotientStep
<1> DEFINE q == n \div d
           s == (n - 1) \div d
<1>4. Bit(n, c) = q % 2 /\ Bit(n - 1, c) = s % 2 /\ (Div2(n, c) <=> n % d = 0)
  BY DEF Bit, Div2, d
<1>5. q \in Nat /\ s \in Nat /\ q = s + (IF n % d = 0 THEN 1 ELSE 0)
  BY <1>2, <1>3
<1> HIDE DEF q, s
<1> QED
  BY <1>4, <1>5

\* The one power that divides n with an odd quotient.
LEMMA LowestBit ==
  ASSUME NEW n \in Nat \ {0}, n < NB_EVALS
  PROVE  \E b \in Bits : /\ Bit(n, b) = 1 /\ Div2(n, b)
                         /\ \A c \in Bits : Bit(n, c) = 1 /\ Div2(n, c) => c = b
<1> DEFINE S == {c \in 0..NB_EVALS_LOG : ~Div2(n, c)}
<1>1. S \subseteq Nat
  OBVIOUS
<1>2. NB_EVALS_LOG \in S
  <2>1. n % NB_EVALS = n
    <3>1. NB_EVALS \in Nat \ {0}
      BY Leaves8
    <3>2. n = 0 * NB_EVALS + n /\ n \in 0..NB_EVALS - 1
      BY <3>1
    <3> QED
      BY <3>1, <3>2, DivModUnique
  <2> QED
    BY <2>1, LineSizes DEF Div2, NB_EVALS
<1> HIDE DEF S
<1>3. PICK s \in S : \A z \in S : s <= z
  BY <1>1, <1>2, Smallest
<1>4. s \in 0..NB_EVALS_LOG /\ ~Div2(n, s)
  BY <1>3 DEF S
<1>5. s # 0
  <2>1. Div2(n, 0)
    BY Powers DEF Div2
  <2> QED
    BY <1>4, <2>1
<1> DEFINE b == s - 1
<1>6. b \in Bits /\ b \in 0..NB_EVALS_LOG - 1 /\ b + 1 = s /\ b \in 0..NB_EVALS_LOG
  BY <1>4, <1>5, LineSizes DEF Bits
<1>7. Div2(n, b)
  <2>1. b \notin S
    BY <1>1, <1>3, <1>6
  <2> QED
    BY <1>6, <2>1 DEF S
<1>8. Bit(n, b) = 1
  BY <1>4, <1>6, <1>7, DivStep, BitChanges
<1>9. ASSUME NEW c \in Bits, Bit(n, c) = 1, Div2(n, c) PROVE c = b
  <2>0. c \in 0..NB_EVALS_LOG - 1 /\ c \in 0..NB_EVALS_LOG
    BY LineSizes DEF Bits
  <2>1. CASE c < b
    <3>1. c + 1 \in 0..b
      BY <1>6, <2>0, <2>1
    <3>2. Div2(n, c + 1)
      BY <1>6, <1>7, <3>1, DivDown
    <3>3. Bit(n, c) = 0
      BY <2>0, <3>2, DivStep
    <3> QED
      BY <1>9, <3>3
  <2>2. CASE c > b
    <3>1. s \in 0..c
      BY <1>6, <2>0, <2>2
    <3> QED
      BY <1>4, <1>9, <2>0, <3>1, DivDown
  <2> QED
    BY <1>6, <2>0, <2>1, <2>2
<1> QED
  BY <1>6, <1>7, <1>8, <1>9

\* The Gray code, which is back at 0 after the last leaf.
GrayBit(m, p) == IF m = NB_EVALS THEN 0 ELSE PointBit(m, p)

\* From leaf to leaf it changes in the bit that the code computes.
LEMMA GrayStep ==
  ASSUME NEW i \in Evals
  PROVE  /\ get_gray_code_bit_position(i) \in Bits
         /\ \A p \in Bits : /\ GrayBit(i, p) \in {0, 1}
                            /\ GrayBit(i + 1, p) \in {0, 1}
                            /\ GrayBit(i + 1, p) # GrayBit(i, p) <=>
                                 p = get_gray_code_bit_position(i)
<1>0. i \in Nat /\ i + 1 \in Nat \ {0} /\ (i + 1) - 1 = i /\ i # NB_EVALS /\ i < NB_EVALS
  BY Leaves8 DEF Evals
<1> DEFINE n == i + 1
<1>1. ASSUME NEW p \in Bits
      PROVE  /\ PointBit(i, p) \in {0, 1} /\ PointBit(n, p) \in {0, 1}
             /\ PointBit(n, p) # PointBit(i, p) <=> Div2(n, p) /\ Bit(n, p) = 1
  <2>0. p \in 0..NB_EVALS_LOG - 1 /\ p \in 0..NB_EVALS_LOG /\ p + 1 \in 0..NB_EVALS_LOG
    BY LineSizes DEF Bits
  <2>1. /\ Bit(n, p) \in {0, 1} /\ Bit(i, p) \in {0, 1}
        /\ Bit(n, p) # Bit(i, p) <=> Div2(n, p)
    BY <1>0, <2>0, BitChanges
  <2>2. /\ Bit(n, p + 1) \in {0, 1} /\ Bit(i, p + 1) \in {0, 1}
        /\ Bit(n, p + 1) # Bit(i, p + 1) <=> Div2(n, p + 1)
    BY <1>0, <2>0, BitChanges
  <2>3. Div2(n, p + 1) <=> Div2(n, p) /\ Bit(n, p) = 0
    BY <1>0, <2>0, DivStep
  <2> DEFINE x == Bit(n, p)
             y == Bit(n, p + 1)
             v == Bit(i, p)
             w == Bit(i, p + 1)
  <2>4. PointBit(n, p) = (x + y) % 2 /\ PointBit(i, p) = (v + w) % 2
    BY DEF PointBit
  <2> HIDE DEF x, y, v, w
  <2>5. x \in {0, 1} /\ y \in {0, 1} /\ v \in {0, 1} /\ w \in {0, 1}
    BY <2>1, <2>2 DEF x, y, v, w
  <2>6. /\ (x + y) % 2 = IF x = y THEN 0 ELSE 1
        /\ (v + w) % 2 = IF v = w THEN 0 ELSE 1
    BY <2>5
  <2>7. PointBit(n, p) # PointBit(i, p) <=> ~(x # v <=> y # w)
    BY <2>4, <2>5, <2>6
  <2>8. (x # v <=> Div2(n, p)) /\ (y # w <=> Div2(n, p) /\ x = 0)
    BY <2>1, <2>2, <2>3 DEF x, y, v, w
  <2>9. PointBit(n, p) # PointBit(i, p) <=> Div2(n, p) /\ x = 1
    BY <2>5, <2>7, <2>8
  <2> QED
    BY <2>4, <2>6, <2>9 DEF x
<1>2. CASE n < NB_EVALS
  <2>1. PICK b \in Bits : /\ Bit(n, b) = 1 /\ Div2(n, b)
                          /\ \A c \in Bits : Bit(n, c) = 1 /\ Div2(n, c) => c = b
    BY <1>0, <1>2, LowestBit
  <2>2. get_gray_code_bit_position(i) = b
    BY <1>2, <2>1 DEF get_gray_code_bit_position, Div2
  <2>3. n # NB_EVALS
    BY <1>0, <1>2, Leaves8
  <2> QED
    BY <1>0, <1>1, <2>1, <2>2, <2>3 DEF GrayBit
<1>3. CASE ~(n < NB_EVALS)
  <2>1. n = NB_EVALS
    BY <1>0, <1>3, Leaves8
  <2>2. get_gray_code_bit_position(i) = NB_EVALS_LOG - 1 /\ NB_EVALS_LOG - 1 \in Bits
    BY <1>3, LineSizes DEF get_gray_code_bit_position, Bits
  <2>3. ASSUME NEW c \in 0..NB_EVALS_LOG - 1 PROVE Div2(n, c + 1) /\ Div2(n, c) /\ Bit(n, c) = 0
    <3>1. Div2(n, NB_EVALS_LOG)
      <4>1. NB_EVALS % NB_EVALS = 0
        <5>1. NB_EVALS = 1 * NB_EVALS + 0 /\ 0 \in 0..NB_EVALS - 1
          BY Leaves8
        <5> QED
          BY <5>1, Leaves8, DivModUnique
      <4> QED
        BY <2>1, <4>1 DEF Div2, NB_EVALS
    <3>2. c + 1 \in 0..NB_EVALS_LOG /\ NB_EVALS_LOG \in 0..NB_EVALS_LOG
      BY LineSizes
    <3>3. Div2(n, c + 1)
      BY <1>0, <3>1, <3>2, DivDown
    <3> QED
      BY <1>0, <3>3, DivStep
  <2>4. ASSUME NEW c \in 0..NB_EVALS_LOG - 1 PROVE Bit(i, c) = 1
    <3>1. c \in 0..NB_EVALS_LOG
      BY LineSizes
    <3>2. Bit(n, c) # Bit(i, c) /\ Bit(i, c) \in {0, 1}
      BY <1>0, <2>3, <3>1, BitChanges
    <3> QED
      BY <2>3, <3>2
  <2>5. Bit(i, NB_EVALS_LOG) = 0
    <3>1. i = 0 * NB_EVALS + i /\ i \in 0..NB_EVALS - 1
      BY <1>0, <2>1, Leaves8
    <3>2. i \div NB_EVALS = 0
      BY <3>1, Leaves8, DivModUnique
    <3> QED
      BY <3>2 DEF Bit, NB_EVALS
  <2>6. ASSUME NEW p \in Bits PROVE PointBit(i, p) = IF p = NB_EVALS_LOG - 1 THEN 1 ELSE 0
    <3>1. p \in 0..NB_EVALS_LOG - 1 /\ Bit(i, p) = 1
      BY <2>4, LineSizes DEF Bits
    <3>2. CASE p = NB_EVALS_LOG - 1
      <4>1. p + 1 = NB_EVALS_LOG
        BY <3>2, LineSizes
      <4> QED
        BY <2>5, <3>1, <3>2, <4>1 DEF PointBit
    <3>3. CASE p # NB_EVALS_LOG - 1
      <4>1. p + 1 \in 0..NB_EVALS_LOG - 1
        BY <3>1, <3>3, LineSizes
      <4>2. Bit(i, p + 1) = 1
        BY <2>4, <4>1
      <4> QED
        BY <3>1, <3>3, <4>2 DEF PointBit
    <3> QED
      BY <3>2, <3>3
  <2> QED
    BY <1>0, <2>1, <2>2, <2>6 DEF GrayBit
<1> QED
  BY <1>2, <1>3

\* The places that ConvertToLine takes from its table are those of the Gray code.
LEMMA PlacesExact ==
  ASSUME NEW i \in Evals
  PROVE  gpos(i) = get_gray_code_bit_position(i)
<1>0. i \in Nat /\ i + 1 \in Nat \ {0} /\ NB_EVALS \in Nat \ {0} /\ i + 1 <= NB_EVALS
  BY Leaves8 DEF Evals
<1>1. CASE (i + 1) % GROUP = 0
  BY <1>1 DEF gpos
<1>2. CASE (i + 1) % GROUP # 0
  <2>1. GROUP = 8 /\ (i + 1) % 8 # 0
    BY <1>2, GroupAssumption
  <2>2. i + 1 < NB_EVALS
    BY <1>0, <2>1, Leaves8
  <2>3. PICK b \in Bits : /\ Bit(i + 1, b) = 1 /\ Div2(i + 1, b)
                          /\ \A c \in Bits : Bit(i + 1, c) = 1 /\ Div2(i + 1, c) => c = b
    BY <1>0, <2>2, LowestBit
  <2>4. get_gray_code_bit_position(i) = b
    BY <2>2, <2>3 DEF get_gray_code_bit_position, Div2
  <2>5. 0 \in Bits /\ 1 \in Bits /\ 2 \in Bits
    BY LineSizes DEF Bits
  <2>6. gpos(i) = <<0, 1, 0, 2, 0, 1, 0>>[(i % 8) + 1] /\ i % 8 \in 0..6
    BY <1>0, <1>2, <2>1 DEF gpos
  <2>7. CASE i % 8 \in {0, 2, 4, 6}
    <3>1. Bit(i + 1, 0) = 1 /\ Div2(i + 1, 0)
      BY <1>0, <2>7, Powers DEF Bit, Div2
    <3>2. gpos(i) = 0
      BY <2>6, <2>7
    <3> QED
      BY <2>3, <2>4, <2>5, <3>1, <3>2
  <2>8. CASE i % 8 \in {1, 5}
    <3>1. Bit(i + 1, 1) = 1 /\ Div2(i + 1, 1)
      BY <1>0, <2>8, Leaves8 DEF Bit, Div2
    <3>2. gpos(i) = 1
      BY <2>6, <2>8
    <3> QED
      BY <2>3, <2>4, <2>5, <3>1, <3>2
  <2>9. CASE i % 8 = 3
    <3>1. Bit(i + 1, 2) = 1 /\ Div2(i + 1, 2)
      BY <1>0, <2>9, Leaves8 DEF Bit, Div2
    <3>2. gpos(i) = 2
      BY <2>6, <2>9
    <3> QED
      BY <2>3, <2>4, <2>5, <3>1, <3>2
  <2> QED
    BY <2>6, <2>7, <2>8, <2>9
<1> QED
  BY <1>1, <1>2

-----------------------------------------------------------------------------
(***************************************************************************)
(* Sums.                                                                   *)
(***************************************************************************)
\* A bit of a sum is the parity of the terms that have it.
LEMMA XorAllMember ==
  ASSUME NEW f, NEW S, NEW a
  PROVE  a \in XorAll(f, S) <=> Cardinality({k \in S : a \in f[k]}) % 2 = 1
<1> DEFINE A == {k \in S : a \in f[k]}
<1>1. ASSUME Cardinality(A) % 2 = 1 PROVE a \in UNION {f[k] : k \in S}
  <2>1. A # {}
    <3>1. Cardinality({}) = 0
      BY FS_EmptySet
    <3> HIDE DEF A
    <3> QED
      BY <1>1, <3>1
  <2> QED
    BY <2>1
<1> QED
  BY <1>1 DEF XorAll

\* The parity of a symmetric difference.
LEMMA ParityOfDifference ==
  ASSUME NEW A, NEW B, IsFiniteSet(A), IsFiniteSet(B)
  PROVE  /\ Cardinality((A \ B) \cup (B \ A)) % 2 = 1 <=>
              ~(Cardinality(A) % 2 = 1 <=> Cardinality(B) % 2 = 1)
         /\ Cardinality(A) \in Nat /\ Cardinality(B) \in Nat
<1>1. /\ IsFiniteSet(A \ B) /\ IsFiniteSet(B \ A) /\ IsFiniteSet(A \cap B)
      /\ Cardinality(A \ B) = Cardinality(A) - Cardinality(A \cap B)
      /\ Cardinality(B \ A) = Cardinality(B) - Cardinality(A \cap B)
  <2>1. B \cap A = A \cap B
    OBVIOUS
  <2>2. IsFiniteSet(A \ B) /\ Cardinality(A \ B) = Cardinality(A) - Cardinality(A \cap B)
    BY FS_Difference
  <2>3. IsFiniteSet(B \ A) /\ Cardinality(B \ A) = Cardinality(B) - Cardinality(B \cap A)
    BY FS_Difference
  <2>4. IsFiniteSet(A \cap B)
    BY FS_Subset
  <2> QED
    BY <2>1, <2>2, <2>3, <2>4
<1>2. Cardinality((A \ B) \cup (B \ A)) = Cardinality(A \ B) + Cardinality(B \ A)
  <2>1. (A \ B) \cap (B \ A) = {}
    OBVIOUS
  <2>2. Cardinality((A \ B) \cup (B \ A)) =
          Cardinality(A \ B) + Cardinality(B \ A) - Cardinality((A \ B) \cap (B \ A))
    BY <1>1, FS_Union
  <2>3. Cardinality((A \ B) \cap (B \ A)) = 0
    BY <2>1, FS_EmptySet
  <2>4. Cardinality(A \ B) \in Nat /\ Cardinality(B \ A) \in Nat
    BY <1>1, FS_CardinalityType
  <2> QED
    BY <2>2, <2>3, <2>4
<1>3. Cardinality(A) \in Nat /\ Cardinality(B) \in Nat /\ Cardinality(A \cap B) \in Nat
  BY <1>1, FS_CardinalityType
<1> DEFINE a == Cardinality(A)
           b == Cardinality(B)
           c == Cardinality(A \cap B)
           u == Cardinality((A \ B) \cup (B \ A))
<1>4. a \in Nat /\ b \in Nat /\ c \in Nat /\ u = (a - c) + (b - c)
  BY <1>1, <1>2, <1>3
<1> HIDE DEF a, b, c, u
<1>5. u % 2 = 1 <=> ~(a % 2 = 1 <=> b % 2 = 1)
  BY <1>4
<1> QED
  BY <1>3, <1>5 DEF a, b, u

\* What two sums have in common drops out.
LEMMA XorAllDifference ==
  ASSUME NEW f, NEW S, NEW T, IsFiniteSet(S), IsFiniteSet(T)
  PROVE  XorAll(f, (S \ T) \cup (T \ S)) = Xor(XorAll(f, S), XorAll(f, T))
<1>1. ASSUME NEW a
      PROVE  a \in XorAll(f, (S \ T) \cup (T \ S)) <=> a \in Xor(XorAll(f, S), XorAll(f, T))
  <2> DEFINE A == {k \in S : a \in f[k]}
             B == {k \in T : a \in f[k]}
             D == {k \in (S \ T) \cup (T \ S) : a \in f[k]}
  <2>1. D = (A \ B) \cup (B \ A)
    OBVIOUS
  <2>2. IsFiniteSet(A) /\ IsFiniteSet(B)
    BY FS_Subset
  <2>3. a \in XorAll(f, (S \ T) \cup (T \ S)) <=> Cardinality(D) % 2 = 1
    BY XorAllMember
  <2>4. a \in XorAll(f, S) <=> Cardinality(A) % 2 = 1
    BY XorAllMember
  <2>5. a \in XorAll(f, T) <=> Cardinality(B) % 2 = 1
    BY XorAllMember
  <2> HIDE DEF A, B, D
  <2>6. Cardinality(D) % 2 = 1 <=> ~(Cardinality(A) % 2 = 1 <=> Cardinality(B) % 2 = 1)
    BY <2>1, <2>2, ParityOfDifference
  <2> QED
    BY <2>3, <2>4, <2>5, <2>6 DEF Xor
<1> HIDE DEF XorAll, Xor
<1> QED
  BY <1>1 DEF Xor, XorAll

\* The sum of one term.
LEMMA XorAllSingle ==
  ASSUME NEW f, NEW k
  PROVE  XorAll(f, {k}) = f[k] /\ XorAll(f, {}) = {}
<1>1. ASSUME NEW a PROVE a \in XorAll(f, {k}) <=> a \in f[k]
  <2>1. a \in XorAll(f, {k}) <=> Cardinality({j \in {k} : a \in f[j]}) % 2 = 1
    BY XorAllMember
  <2>2. CASE a \in f[k]
    <3>1. {j \in {k} : a \in f[j]} = {k}
      BY <2>2
    <3>2. Cardinality({k}) = 1
      BY FS_Singleton
    <3> QED
      BY <2>1, <2>2, <3>1, <3>2
  <2>3. CASE a \notin f[k]
    <3>1. {j \in {k} : a \in f[j]} = {}
      BY <2>3
    <3>2. Cardinality({}) = 0
      BY FS_EmptySet
    <3> QED
      BY <2>1, <2>3, <3>1, <3>2
  <2> QED
    BY <2>2, <2>3
<1>2. XorAll(f, {k}) = f[k]
  BY <1>1 DEF XorAll
<1>3. XorAll(f, {}) = {}
  BY DEF XorAll
<1> QED
  BY <1>2, <1>3

\* A sum of other values is another sum only where they differ.
LEMMA XorAllSame ==
  ASSUME NEW f, NEW g, NEW S, \A k \in S : f[k] = g[k]
  PROVE  XorAll(f, S) = XorAll(g, S)
<1>1. {f[k] : k \in S} = {g[k] : k \in S}
  OBVIOUS
<1>2. \A a : {k \in S : a \in f[k]} = {k \in S : a \in g[k]}
  OBVIOUS
<1> QED
  BY <1>1, <1>2 DEF XorAll

-----------------------------------------------------------------------------
\* Rows, and sums of rows.
IsRow(r) == r = [b \in Blocks |-> r[b]]
AreRows(R) == \A i \in Evals : IsRow(R[i])

\* Sums of rows are rows.
LEMMA SumIsRow == ASSUME NEW R, NEW S PROVE IsRow(ColumnSum(R, S))
BY DEF ColumnSum, IsRow

\* Leaves are finitely many.
LEMMA FiniteEvals == ASSUME NEW S, S \subseteq Evals PROVE IsFiniteSet(S)
<1>1. IsFiniteSet(Evals)
  BY FS_Interval, Leaves8 DEF Evals
<1> QED
  BY <1>1, FS_Subset

\* Adding two sums leaves the terms of one of them.
LEMMA SumOfDifference ==
  ASSUME NEW R, NEW S, NEW T, S \subseteq Evals, T \subseteq Evals
  PROVE  ColumnSum(R, (S \ T) \cup (T \ S)) = RowAdd(ColumnSum(R, S), ColumnSum(R, T))
BY XorAllDifference, FiniteEvals DEF ColumnSum, RowAdd

\* The sum of one row.
LEMMA SumOfOne ==
  ASSUME NEW R, AreRows(R), NEW i \in Evals
  PROVE  ColumnSum(R, {i}) = R[i] /\ ColumnSum(R, {}) = ZeroRow
<1>1. \A b \in Blocks : XorAll([k \in Evals |-> R[k][b]], {i}) = R[i][b]
  BY XorAllSingle
<1>2. \A b \in Blocks : XorAll([k \in Evals |-> R[k][b]], {}) = {}
  BY XorAllSingle
<1>3. ColumnSum(R, {i}) = [b \in Blocks |-> R[i][b]]
  BY <1>1 DEF ColumnSum
<1>4. ColumnSum(R, {}) = ZeroRow
  BY <1>2 DEF ColumnSum, ZeroRow, ZeroBlock
<1> QED
  BY <1>3, <1>4 DEF AreRows, IsRow

\* Addition of rows.
LEMMA AddRows ==
  ASSUME NEW r, NEW s, NEW t
  PROVE  /\ RowAdd(r, s) = RowAdd(s, r)
         /\ RowAdd(RowAdd(r, s), t) = RowAdd(r, RowAdd(s, t))
         /\ IsRow(r) => RowAdd(r, ZeroRow) = r
         /\ RowAdd(r, r) = ZeroRow
<1>1. \A b \in Blocks : Xor(r[b], s[b]) = Xor(s[b], r[b])
  BY DEF Xor
<1>2. \A b \in Blocks : Xor(Xor(r[b], s[b]), t[b]) = Xor(r[b], Xor(s[b], t[b]))
  BY DEF Xor
<1>3. \A b \in Blocks : Xor(r[b], {}) = r[b] /\ Xor(r[b], r[b]) = {}
  BY DEF Xor
<1> QED
  BY <1>1, <1>2, <1>3 DEF RowAdd, ZeroRow, ZeroBlock, IsRow

-----------------------------------------------------------------------------
(***************************************************************************)
(* Folding.  After m leaves with rows R: the accumulator is their sum, and *)
(* bucket p the sum of those whose bit p of the Gray code is not that of   *)
(* leaf m.                                                                 *)
(***************************************************************************)
AccAt(R, m) == ColumnSum(R, 0..m - 1)
Turned(m, p) == {j \in 0..m - 1 : GrayBit(j, p) # GrayBit(m, p)}
BucketsAt(R, m) == [p \in Bits |-> ColumnSum(R, Turned(m, p))]

\* Before the first leaf.
LEMMA FoldStart ==
  ASSUME NEW R, AreRows(R)
  PROVE  AccAt(R, 0) = ZeroRow /\ BucketsAt(R, 0) = ZeroBuckets /\ BucketsAt(R, 0) = ZeroExt
<1>1. 0..0 - 1 = {}
  OBVIOUS
<1>2. ColumnSum(R, {}) = ZeroRow
  <2>1. 0 \in Evals
    BY Leaves8 DEF Evals
  <2> QED
    BY <2>1, SumOfOne
<1>3. \A p \in Bits : Turned(0, p) = {}
  BY <1>1 DEF Turned
<1> QED
  BY <1>1, <1>2, <1>3 DEF AccAt, BucketsAt, ZeroBuckets, ZeroExt

\* A leaf adds its row to the accumulator.
LEMMA AccStep ==
  ASSUME NEW R, AreRows(R), NEW m \in Evals
  PROVE  AccAt(R, m + 1) = RowAdd(AccAt(R, m), R[m])
<1> DEFINE S == 0..m - 1
<1>1. /\ S \subseteq Evals /\ {m} \subseteq Evals
      /\ (S \ {m}) \cup ({m} \ S) = 0..(m + 1) - 1
  BY Leaves8 DEF Evals
<1> HIDE DEF S
<1>2. ColumnSum(R, (S \ {m}) \cup ({m} \ S)) = RowAdd(ColumnSum(R, S), ColumnSum(R, {m}))
  BY <1>1, SumOfDifference
<1> QED
  BY <1>1, <1>2, SumOfOne DEF AccAt, S

\* A leaf adds the accumulator to the bucket of the bit that turns.
LEMMA BucketsStep ==
  ASSUME NEW R, AreRows(R), NEW m \in Evals, NEW q, q = get_gray_code_bit_position(m)
  PROVE  /\ q \in Bits
         /\ BucketsAt(R, m + 1) = [BucketsAt(R, m) EXCEPT ![q] = RowAdd(@, AccAt(R, m + 1))]
<1>1. q \in Bits
  BY GrayStep
<1>2. /\ 0..m - 1 \subseteq Evals /\ 0..(m + 1) - 1 \subseteq Evals
      /\ 0..(m + 1) - 1 = (0..m - 1) \cup {m} /\ m \notin 0..m - 1
  BY Leaves8 DEF Evals
<1>3. ASSUME NEW p \in Bits, p # q PROVE Turned(m + 1, p) = Turned(m, p)
  <2>1. GrayBit(m + 1, p) = GrayBit(m, p)
    BY <1>3, GrayStep
  <2> QED
    BY <1>2, <2>1 DEF Turned
<1>4. ColumnSum(R, Turned(m + 1, q)) = RowAdd(ColumnSum(R, Turned(m, q)), AccAt(R, m + 1))
  <2> DEFINE S == Turned(m, q)
             T == 0..(m + 1) - 1
  <2>1. \A j \in T : GrayBit(j, q) \in {0, 1}
    BY <1>1, <1>2, GrayStep
  <2>2. GrayBit(m + 1, q) # GrayBit(m, q) /\ GrayBit(m + 1, q) \in {0, 1} /\ GrayBit(m, q) \in {0, 1}
    BY <1>1, GrayStep
  <2>3. Turned(m + 1, q) = (S \ T) \cup (T \ S)
    BY <1>2, <2>1, <2>2 DEF Turned
  <2>4. S \subseteq Evals /\ T \subseteq Evals
    BY <1>2 DEF Turned
  <2> HIDE DEF S, T
  <2>5. ColumnSum(R, (S \ T) \cup (T \ S)) = RowAdd(ColumnSum(R, S), ColumnSum(R, T))
    BY <2>4, SumOfDifference
  <2> QED
    BY <2>3, <2>5 DEF S, T, AccAt
<1>5. ASSUME NEW p \in Bits
      PROVE  BucketsAt(R, m + 1)[p] = [BucketsAt(R, m) EXCEPT ![q] = RowAdd(@, AccAt(R, m + 1))][p]
  BY <1>1, <1>3, <1>4 DEF BucketsAt
<1>6. /\ DOMAIN BucketsAt(R, m + 1) = Bits /\ DOMAIN BucketsAt(R, m) = Bits
  BY DEF BucketsAt
<1>7. BucketsAt(R, m + 1) = [p \in Bits |-> BucketsAt(R, m + 1)[p]]
  BY DEF BucketsAt
<1>8. [BucketsAt(R, m) EXCEPT ![q] = RowAdd(@, AccAt(R, m + 1))]
        = [p \in Bits |-> [BucketsAt(R, m) EXCEPT ![q] = RowAdd(@, AccAt(R, m + 1))][p]]
  BY <1>6
<1> QED
  BY <1>1, <1>5, <1>7, <1>8

\* After the last leaf, bucket p is the sum of the rows with bit p of the point.
LEMMA BucketsEnd ==
  ASSUME NEW R
  PROVE  /\ AccAt(R, NB_EVALS) = ColumnSum(R, Evals)
         /\ BucketsAt(R, NB_EVALS) = [p \in Bits |-> ColumnSum(R, {i \in Evals : PointBit(i, p) = 1})]
<1>1. 0..NB_EVALS - 1 = Evals
  BY DEF Evals
<1>2. ASSUME NEW p \in Bits PROVE Turned(NB_EVALS, p) = {i \in Evals : PointBit(i, p) = 1}
  <2>1. \A i \in Evals : GrayBit(i, p) = PointBit(i, p) /\ GrayBit(i, p) \in {0, 1}
    BY Leaves8, GrayStep DEF GrayBit, Evals
  <2>2. GrayBit(NB_EVALS, p) = 0
    BY DEF GrayBit
  <2>3. Turned(NB_EVALS, p) = {i \in Evals : GrayBit(i, p) # GrayBit(NB_EVALS, p)}
    BY <1>1 DEF Turned
  <2>4. \A i \in Evals : GrayBit(i, p) # GrayBit(NB_EVALS, p) <=> PointBit(i, p) = 1
    BY <2>1, <2>2
  <2> QED
    BY <2>3, <2>4
<1> QED
  BY <1>1, <1>2 DEF AccAt, BucketsAt

-----------------------------------------------------------------------------
(***************************************************************************)
(* The ways of folding, each against the sums.                             *)
(***************************************************************************)
\* Two functions that begin alike and go on alike.
GoAlike(f, g, n) == f[0] = g[0] /\ \A k \in 1..n : f[k - 1] = g[k - 1] => f[k] = g[k]

\* They are alike throughout.
LEMMA AlikeThroughout ==
  ASSUME NEW n \in Nat, NEW f, NEW g, GoAlike(f, g, n)
  PROVE  \A k \in 0..n : f[k] = g[k]
<1> DEFINE Bad == {k \in 0..n : f[k] # g[k]}
<1>1. ASSUME Bad # {} PROVE FALSE
  <2>1. Bad \subseteq Nat
    OBVIOUS
  <2> HIDE DEF Bad
  <2>2. PICK k \in Bad : \A m \in Bad : k <= m
    BY <1>1, <2>1, Smallest
  <2>3. k \in 0..n /\ f[k] # g[k]
    BY <2>2 DEF Bad
  <2>4. k \in 1..n /\ k - 1 \in 0..n
    BY <2>3 DEF GoAlike
  <2>5. f[k - 1] = g[k - 1]
    BY <2>2, <2>4 DEF Bad
  <2> QED
    BY <2>3, <2>4, <2>5 DEF GoAlike
<1> QED
  BY <1>1

\* n rows of R from row m on, and the accumulators after each of them with the
\* buckets that they go to.
RowsFrom(rows, R, m, n) ==
  Len(rows) = n /\ \A k \in 1..n : rows[k] = R[m + k - 1]
PlacedFrom(snapshots, pos, R, m, n) ==
  /\ Len(snapshots) = n
  /\ \A k \in 1..n : /\ snapshots[k] = AccAt(R, m + k)
                     /\ pos[k] = get_gray_code_bit_position(m + k - 1)

\* ConvertToLine: the snapshots of a group are the sums so far.
LEMMA SnapshotsExact ==
  ASSUME NEW R, AreRows(R), NEW m \in Nat, NEW n \in Nat, m + n <= NB_EVALS,
         NEW rows, RowsFrom(rows, R, m, n)
  PROVE  Snapshots(AccAt(R, m), rows) = [k \in 1..n |-> AccAt(R, m + k)]
<1>0. Len(rows) = n /\ \A k \in 1..n : rows[k] = R[m + k - 1]
  BY DEF RowsFrom
<1> DEFINE g == [k \in 0..n |-> AccAt(R, m + k)]
<1>1. \A k \in 1..n : AccAt(R, m + k) = RowAdd(AccAt(R, m + (k - 1)), rows[k])
  <2> SUFFICES ASSUME NEW k \in 1..n
               PROVE  AccAt(R, m + k) = RowAdd(AccAt(R, m + (k - 1)), rows[k])
    OBVIOUS
  <2>1. m + (k - 1) \in Evals /\ (m + (k - 1)) + 1 = m + k /\ m + k - 1 = m + (k - 1)
    BY Leaves8 DEF Evals
  <2>2. AccAt(R, (m + (k - 1)) + 1) = RowAdd(AccAt(R, m + (k - 1)), R[m + (k - 1)])
    BY <1>0, <2>1, AccStep
  <2> QED
    BY <1>0, <2>1, <2>2
<1>2. g = [k \in 0..n |-> IF k = 0 THEN AccAt(R, m) ELSE RowAdd(g[k - 1], rows[k])]
  BY <1>1
<1> HIDE DEF g
<1>3. \E s : /\ s = [k \in 0..n |-> IF k = 0 THEN AccAt(R, m) ELSE RowAdd(s[k - 1], rows[k])]
             /\ Snapshots(AccAt(R, m), rows) = [k \in 1..n |-> s[k]]
  BY <1>0, <1>2 DEF Snapshots
<1>4. PICK s : /\ s = [k \in 0..n |-> IF k = 0 THEN AccAt(R, m) ELSE RowAdd(s[k - 1], rows[k])]
                 /\ Snapshots(AccAt(R, m), rows) = [k \in 1..n |-> s[k]]
  BY <1>3
<1>5. \A k \in 0..n : s[k] = g[k]
  <2>1. s[0] = g[0]
    BY <1>2, <1>4
  <2>2. \A k \in 1..n : s[k] = RowAdd(s[k - 1], rows[k]) /\ g[k] = RowAdd(g[k - 1], rows[k])
    BY <1>2, <1>4
  <2>3. GoAlike(s, g, n)
    BY <2>1, <2>2 DEF GoAlike
  <2> QED
    BY <2>3, AlikeThroughout
<1> QED
  BY <1>4, <1>5 DEF g

\* ConvertToLine: they go to the buckets of their leaves.
LEMMA BucketedExact ==
  ASSUME NEW R, AreRows(R), NEW m \in Nat, NEW n \in Nat, m + n <= NB_EVALS,
         NEW snapshots, NEW pos, PlacedFrom(snapshots, pos, R, m, n)
  PROVE  Bucketed(BucketsAt(R, m), snapshots, pos) = BucketsAt(R, m + n)
<1>0. /\ Len(snapshots) = n
      /\ \A k \in 1..n : /\ snapshots[k] = AccAt(R, m + k)
                         /\ pos[k] = get_gray_code_bit_position(m + k - 1)
  BY DEF PlacedFrom
<1> DEFINE g == [k \in 0..n |-> BucketsAt(R, m + k)]
<1>1. \A k \in 1..n : BucketsAt(R, m + k) =
                        [BucketsAt(R, m + (k - 1)) EXCEPT ![pos[k]] = RowAdd(@, snapshots[k])]
  <2> SUFFICES ASSUME NEW k \in 1..n
               PROVE  BucketsAt(R, m + k) =
                        [BucketsAt(R, m + (k - 1)) EXCEPT ![pos[k]] = RowAdd(@, snapshots[k])]
    OBVIOUS
  <2>1. m + (k - 1) \in Evals /\ (m + (k - 1)) + 1 = m + k /\ m + k - 1 = m + (k - 1)
    BY Leaves8 DEF Evals
  <2>2. /\ pos[k] = get_gray_code_bit_position(m + (k - 1))
        /\ snapshots[k] = AccAt(R, (m + (k - 1)) + 1)
    BY <1>0, <2>1
  <2>3. BucketsAt(R, (m + (k - 1)) + 1) =
          [BucketsAt(R, m + (k - 1)) EXCEPT ![pos[k]] = RowAdd(@, AccAt(R, (m + (k - 1)) + 1))]
    BY <2>1, <2>2, BucketsStep
  <2> QED
    BY <2>1, <2>2, <2>3
<1>2. g = [k \in 0..n |-> IF k = 0 THEN BucketsAt(R, m)
                          ELSE [g[k - 1] EXCEPT ![pos[k]] = RowAdd(@, snapshots[k])]]
  <2>1. g[0] = BucketsAt(R, m)
    OBVIOUS
  <2>2. ASSUME NEW k \in 1..n
        PROVE  g[k] = [g[k - 1] EXCEPT ![pos[k]] = RowAdd(@, snapshots[k])]
    <3>1. g[k] = BucketsAt(R, m + k) /\ g[k - 1] = BucketsAt(R, m + (k - 1))
      OBVIOUS
    <3> HIDE DEF g
    <3> QED
      BY <1>1, <3>1
  <2>3. g = [k \in 0..n |-> g[k]]
    OBVIOUS
  <2> HIDE DEF g
  <2>4. \A k \in 0..n : k = 0 \/ k \in 1..n
    OBVIOUS
  <2>5. \A k \in 0..n : g[k] = IF k = 0 THEN BucketsAt(R, m)
                               ELSE [g[k - 1] EXCEPT ![pos[k]] = RowAdd(@, snapshots[k])]
    BY <2>1, <2>2, <2>4
  <2> QED
    BY <2>3, <2>5
<1> HIDE DEF g
<1>3. \E s : /\ s = [k \in 0..n |-> IF k = 0 THEN BucketsAt(R, m)
                                    ELSE [s[k - 1] EXCEPT ![pos[k]] = RowAdd(@, snapshots[k])]]
             /\ Bucketed(BucketsAt(R, m), snapshots, pos) = s[n]
  BY <1>0, <1>2 DEF Bucketed
<1>4. PICK s : /\ s = [k \in 0..n |-> IF k = 0 THEN BucketsAt(R, m)
                                    ELSE [s[k - 1] EXCEPT ![pos[k]] = RowAdd(@, snapshots[k])]]
               /\ Bucketed(BucketsAt(R, m), snapshots, pos) = s[n]
  BY <1>3
<1>5. \A k \in 0..n : s[k] = g[k]
  <2>1. s[0] = g[0]
    BY <1>2, <1>4
  <2>2. ASSUME NEW k \in 1..n, s[k - 1] = g[k - 1] PROVE s[k] = g[k]
    <3>1. k \in 0..n /\ k # 0
      OBVIOUS
    <3>2. s[k] = [s[k - 1] EXCEPT ![pos[k]] = RowAdd(@, snapshots[k])]
      BY <1>4, <3>1
    <3>3. g[k] = [g[k - 1] EXCEPT ![pos[k]] = RowAdd(@, snapshots[k])]
      BY <1>2, <3>1
    <3> QED
      BY <2>2, <3>2, <3>3
  <2>3. GoAlike(s, g, n)
    BY <2>1, <2>2 DEF GoAlike
  <2> QED
    BY <2>3, AlikeThroughout
<1>6. s[n] = g[n] /\ g[n] = BucketsAt(R, m + n)
  BY <1>5 DEF g
<1> QED
  BY <1>4, <1>6

\* A scaled row is added to the bucket of its constant.
LEMMA AddScaled ==
  ASSUME NEW v, v = [p \in Bits |-> v[p]], \A p \in Bits : IsRow(v[p]), NEW q \in Bits, NEW row
  PROVE  ExtAdd(v, Scaled(q, row)) = [v EXCEPT ![q] = RowAdd(@, row)]
<1>1. \A p \in Bits : Scaled(q, row)[p] = IF p = q THEN row ELSE ZeroRow
  BY DEF Scaled, ZeroExt
<1>2. \A p \in Bits : RowAdd(v[p], ZeroRow) = v[p]
  BY AddRows
<1>3. \A p \in Bits : RowAdd(v[p], Scaled(q, row)[p]) = IF p = q THEN RowAdd(v[q], row) ELSE v[p]
  BY <1>1, <1>2
<1>4. ExtAdd(v, Scaled(q, row)) = [p \in Bits |-> IF p = q THEN RowAdd(v[q], row) ELSE v[p]]
  BY <1>3 DEF ExtAdd
<1> QED
  BY <1>4

\* Buckets are rows.
LEMMA BucketRows == ASSUME NEW R, NEW m
  PROVE  /\ BucketsAt(R, m) = [p \in Bits |-> BucketsAt(R, m)[p]]
         /\ \A p \in Bits : IsRow(BucketsAt(R, m)[p])
BY SumIsRow DEF BucketsAt

\* The folding without buckets computes the same sums, and P0 at once.
LEMMA SlowFoldExact ==
  ASSUME NEW R, AreRows(R), NEW m \in Nat, NEW n \in Nat, m + n <= NB_EVALS,
         NEW snapshots, NEW pos, PlacedFrom(snapshots, pos, R, m, n)
  PROVE  SlowFold(BucketsAt(R, m), snapshots, pos) = BucketsAt(R, m + n)
<1>0. /\ Len(snapshots) = n
      /\ \A k \in 1..n : /\ snapshots[k] = AccAt(R, m + k)
                         /\ pos[k] = get_gray_code_bit_position(m + k - 1)
  BY DEF PlacedFrom
<1> DEFINE g == [k \in 0..n |-> BucketsAt(R, m + k)]
<1>1. \A k \in 1..n : BucketsAt(R, m + k) =
                        ExtAdd(BucketsAt(R, m + (k - 1)), Scaled(pos[k], snapshots[k]))
  <2> SUFFICES ASSUME NEW k \in 1..n
               PROVE  BucketsAt(R, m + k) =
                        ExtAdd(BucketsAt(R, m + (k - 1)), Scaled(pos[k], snapshots[k]))
    OBVIOUS
  <2>1. m + (k - 1) \in Evals /\ (m + (k - 1)) + 1 = m + k /\ m + k - 1 = m + (k - 1)
    BY Leaves8 DEF Evals
  <2>2. /\ pos[k] = get_gray_code_bit_position(m + (k - 1))
        /\ snapshots[k] = AccAt(R, (m + (k - 1)) + 1)
    BY <1>0, <2>1
  <2>3. /\ pos[k] \in Bits
        /\ BucketsAt(R, (m + (k - 1)) + 1) =
             [BucketsAt(R, m + (k - 1)) EXCEPT ![pos[k]] = RowAdd(@, AccAt(R, (m + (k - 1)) + 1))]
    BY <2>1, <2>2, BucketsStep
  <2>4. ExtAdd(BucketsAt(R, m + (k - 1)), Scaled(pos[k], snapshots[k])) =
          [BucketsAt(R, m + (k - 1)) EXCEPT ![pos[k]] = RowAdd(@, snapshots[k])]
    <3> DEFINE v == BucketsAt(R, m + (k - 1))
    <3>1. v = [p \in Bits |-> v[p]] /\ \A p \in Bits : IsRow(v[p])
      BY BucketRows
    <3> DEFINE q == pos[k]
               row == snapshots[k]
    <3>2. q \in Bits
      BY <2>3
    <3> HIDE DEF v, q, row
    <3>3. ExtAdd(v, Scaled(q, row)) = [v EXCEPT ![q] = RowAdd(@, row)]
      BY <3>1, <3>2, AddScaled
    <3> QED
      BY <3>3 DEF v, q, row
  <2> QED
    BY <2>1, <2>2, <2>3, <2>4
<1>2. g = [k \in 0..n |-> IF k = 0 THEN BucketsAt(R, m)
                          ELSE ExtAdd(g[k - 1], Scaled(pos[k], snapshots[k]))]
  BY <1>1
<1> HIDE DEF g
<1>3. \E s : /\ s = [k \in 0..n |-> IF k = 0 THEN BucketsAt(R, m)
                                    ELSE ExtAdd(s[k - 1], Scaled(pos[k], snapshots[k]))]
             /\ SlowFold(BucketsAt(R, m), snapshots, pos) = s[n]
  BY <1>0, <1>2 DEF SlowFold
<1>4. PICK s : /\ s = [k \in 0..n |-> IF k = 0 THEN BucketsAt(R, m)
                                    ELSE ExtAdd(s[k - 1], Scaled(pos[k], snapshots[k]))]
               /\ SlowFold(BucketsAt(R, m), snapshots, pos) = s[n]
  BY <1>3
<1>5. \A k \in 0..n : s[k] = g[k]
  <2>1. s[0] = g[0]
    BY <1>2, <1>4
  <2>2. \A k \in 1..n : /\ s[k] = ExtAdd(s[k - 1], Scaled(pos[k], snapshots[k]))
                        /\ g[k] = ExtAdd(g[k - 1], Scaled(pos[k], snapshots[k]))
    BY <1>2, <1>4
  <2>3. GoAlike(s, g, n)
    BY <2>1, <2>2 DEF GoAlike
  <2> QED
    BY <2>3, AlikeThroughout
<1>6. s[n] = g[n] /\ g[n] = BucketsAt(R, m + n)
  BY <1>5 DEF g
<1> QED
  BY <1>4, <1>6

\* P0 is the buckets, scaled by the constants of the bits.
LEMMA FoldedP0Exact ==
  ASSUME NEW data, data = [p \in Bits |-> data[p]], \A p \in Bits : IsRow(data[p])
  PROVE  FoldedP0(data) = data
<1> DEFINE n == NB_EVALS_LOG
           g == [k \in 0..n |-> [q \in Bits |-> IF q < k THEN data[q] ELSE ZeroRow]]
<1>0. n \in Nat /\ Bits = 0..n - 1
  BY LineSizes DEF Bits
<1>1. ASSUME NEW k \in 1..n
      PROVE  g[k] = ExtAdd(g[k - 1], Scaled(k - 1, data[k - 1]))
  <2> DEFINE v == g[k - 1]
  <2>1. k - 1 \in 0..n /\ k - 1 \in Bits
    BY <1>0
  <2>2. v = [q \in Bits |-> IF q < k - 1 THEN data[q] ELSE ZeroRow]
    BY <2>1
  <2>3. IsRow(ZeroRow) /\ v = [q \in Bits |-> v[q]] /\ v[k - 1] = ZeroRow
    BY <1>0, <2>1, <2>2 DEF IsRow, ZeroRow
  <2>4. \A q \in Bits : IsRow(v[q])
    BY <2>2, <2>3
  <2> HIDE DEF v
  <2>5. ExtAdd(v, Scaled(k - 1, data[k - 1])) = [v EXCEPT ![k - 1] = RowAdd(@, data[k - 1])]
    BY <2>1, <2>3, <2>4, AddScaled
  <2>6. RowAdd(v[k - 1], data[k - 1]) = data[k - 1]
    <3>1. RowAdd(ZeroRow, data[k - 1]) = RowAdd(data[k - 1], ZeroRow)
      BY AddRows
    <3>2. RowAdd(data[k - 1], ZeroRow) = data[k - 1]
      BY <2>1, AddRows
    <3> QED
      BY <2>3, <3>1, <3>2
  <2>7. [v EXCEPT ![k - 1] = RowAdd(@, data[k - 1])] = [q \in Bits |-> IF q = k - 1 THEN data[k - 1] ELSE v[q]]
    BY <2>3, <2>6
  <2>8. \A q \in Bits : (IF q = k - 1 THEN data[k - 1] ELSE v[q]) = IF q < k THEN data[q] ELSE ZeroRow
    BY <1>0, <2>1, <2>2
  <2>9. g[k] = [q \in Bits |-> IF q < k THEN data[q] ELSE ZeroRow]
    OBVIOUS
  <2>10. g[k] = [v EXCEPT ![k - 1] = RowAdd(@, data[k - 1])]
    BY <2>7, <2>8, <2>9
  <2>11. g[k - 1] = v
    BY DEF v
  <2> HIDE DEF g
  <2> QED
    BY <2>5, <2>10, <2>11
<1>2. g[0] = ZeroExt
  BY <1>0 DEF ZeroExt
<1>3. g = [k \in 0..n |-> g[k]] /\ g[n] = [q \in Bits |-> IF q < n THEN data[q] ELSE ZeroRow]
  BY <1>0
<1>4. g[n] = data
  BY <1>0, <1>3
<1> HIDE DEF g
<1>5. g = [k \in 0..n |-> IF k = 0 THEN ZeroExt ELSE ExtAdd(g[k - 1], Scaled(k - 1, data[k - 1]))]
  <2>1. \A k \in 0..n : k = 0 \/ k \in 1..n
    BY <1>0
  <2>2. \A k \in 0..n : g[k] = IF k = 0 THEN ZeroExt ELSE ExtAdd(g[k - 1], Scaled(k - 1, data[k - 1]))
    BY <1>1, <1>2, <2>1
  <2> QED
    BY <1>3, <2>2
<1>6. \E s : /\ s = [k \in 0..n |-> IF k = 0 THEN ZeroExt
                                    ELSE ExtAdd(s[k - 1], Scaled(k - 1, data[k - 1]))]
             /\ FoldedP0(data) = s[n]
  BY <1>5 DEF FoldedP0
<1>7. PICK s : /\ s = [k \in 0..n |-> IF k = 0 THEN ZeroExt
                                    ELSE ExtAdd(s[k - 1], Scaled(k - 1, data[k - 1]))]
               /\ FoldedP0(data) = s[n]
  BY <1>6
<1>8. \A k \in 0..n : s[k] = g[k]
  <2>1. s[0] = g[0]
    BY <1>0, <1>2, <1>7
  <2>2. ASSUME NEW k \in 1..n
        PROVE  /\ s[k] = ExtAdd(s[k - 1], Scaled(k - 1, data[k - 1]))
               /\ g[k] = ExtAdd(g[k - 1], Scaled(k - 1, data[k - 1]))
    <3>1. k \in 0..n /\ k # 0
      BY <1>0
    <3>2. s[k] = ExtAdd(s[k - 1], Scaled(k - 1, data[k - 1]))
      BY <1>7, <3>1
    <3>3. g[k] = ExtAdd(g[k - 1], Scaled(k - 1, data[k - 1]))
      BY <1>5, <3>1
    <3> QED
      BY <3>2, <3>3
  <2>3. GoAlike(s, g, n)
    BY <2>1, <2>2 DEF GoAlike
  <2> QED
    BY <1>0, <2>3, AlikeThroughout
<1> QED
  BY <1>0, <1>4, <1>7, <1>8

-----------------------------------------------------------------------------
(***************************************************************************)
(* The verifier's rows: that of the hidden leaf is zero.                   *)
(***************************************************************************)
Without(R, h) == [i \in Evals |-> IF i = h THEN ZeroRow ELSE R[i]]

\* They are rows, too.
LEMMA WithoutRows ==
  ASSUME NEW R, AreRows(R), NEW h
  PROVE  AreRows(Without(R, h))
<1>1. IsRow(ZeroRow)
  BY DEF IsRow, ZeroRow
<1> QED
  BY <1>1 DEF AreRows, Without

\* A sum without the hidden row lacks it exactly where it has a term for it.
LEMMA HiddenSum ==
  ASSUME NEW R, AreRows(R), NEW h \in Evals, NEW S, S \subseteq Evals
  PROVE  ColumnSum(Without(R, h), S) =
           IF h \in S THEN RowAdd(ColumnSum(R, S), R[h]) ELSE ColumnSum(R, S)
<1> DEFINE V == Without(R, h)
           T == S \ {h}
<1>1. AreRows(V) /\ V[h] = ZeroRow /\ \A i \in Evals : i # h => V[i] = R[i]
  BY WithoutRows DEF Without
<1>2. ASSUME NEW U, U \subseteq Evals, h \notin U
      PROVE  ColumnSum(V, U) = ColumnSum(R, U)
  <2>1. ASSUME NEW b \in Blocks
        PROVE  XorAll([i \in Evals |-> V[i][b]], U) = XorAll([i \in Evals |-> R[i][b]], U)
    <3>1. \A k \in U : [i \in Evals |-> V[i][b]][k] = [i \in Evals |-> R[i][b]][k]
      BY <1>1, <1>2
    <3> DEFINE f == [i \in Evals |-> V[i][b]]
               g == [i \in Evals |-> R[i][b]]
    <3>2. \A k \in U : f[k] = g[k]
      BY <3>1
    <3> HIDE DEF f, g
    <3>3. XorAll(f, U) = XorAll(g, U)
      BY <3>2, XorAllSame
    <3> QED
      BY <3>3 DEF f, g
  <2> QED
    BY <2>1 DEF ColumnSum
<1>3. CASE h \notin S
  BY <1>2, <1>3
<1>4. CASE h \in S
  <2>1. T \subseteq Evals /\ {h} \subseteq Evals /\ h \notin T /\ S = (T \ {h}) \cup ({h} \ T)
    BY <1>4
  <2> HIDE DEF V, T
  <2>2. ColumnSum(V, S) = RowAdd(ColumnSum(V, T), ColumnSum(V, {h}))
    BY <2>1, SumOfDifference
  <2>3. ColumnSum(R, S) = RowAdd(ColumnSum(R, T), ColumnSum(R, {h}))
    BY <2>1, SumOfDifference
  <2>4. ColumnSum(V, {h}) = ZeroRow /\ ColumnSum(R, {h}) = R[h]
    BY <1>1, SumOfOne
  <2>5. ColumnSum(V, T) = ColumnSum(R, T)
    BY <1>2, <2>1
  <2> DEFINE t == ColumnSum(R, T)
             r == R[h]
  <2>6. IsRow(t)
    BY SumIsRow
  <2>7. ColumnSum(V, S) = RowAdd(t, ZeroRow) /\ ColumnSum(R, S) = RowAdd(t, r)
    BY <2>2, <2>3, <2>4, <2>5
  <2> HIDE DEF t, r
  <2>8. RowAdd(t, ZeroRow) = t /\ RowAdd(r, r) = ZeroRow
    BY <2>6, AddRows
  <2>9. RowAdd(RowAdd(t, r), r) = RowAdd(t, RowAdd(r, r))
    BY AddRows
  <2>10. ColumnSum(V, S) = RowAdd(ColumnSum(R, S), r)
    BY <2>7, <2>8, <2>9
  <2> QED
    BY <1>4, <2>10 DEF V, r
<1> QED
  BY <1>3, <1>4

-----------------------------------------------------------------------------
\* Rows of leaves are rows.
LEMMA LeafRows == ASSUME NEW F, NEW k, NEW s PROVE IsRow(Row(F, k, s))
BY DEF Row, IsRow

\* So those of an execution are rows.
LEMMA RowsAreRows == ASSUME NEW F, NEW e PROVE AreRows(RowsOf(F, e))
BY LeafRows DEF RowsOf, AreRows

\* The leaves of a correlated tree add up to the first block of the witness.
LEMMA CorrelatedTotal ==
  ASSUME NEW e
  PROVE  ColumnSum(RowsOf("CT", e), Evals)[0] = Witness[0]
<1> DEFINE f == [i \in Evals |-> RowsOf("CT", e)[i][0]]
           L == NB_EVALS - 1
<1>1. L \in Evals /\ L \in Nat /\ Evals = 0..L /\ 0..NB_EVALS - 2 = 0..L - 1
  BY Leaves8 DEF Evals
<1>2. 0 \in Blocks /\ 0 \in XBlocks
  BY DEF Blocks, XBlocks
<1>3. /\ f[L] = {WitnessAtom(0)} \cup {SeedAtom(<<e, i>>) : i \in 0..L - 1}
      /\ \A i \in 0..L - 1 : f[i] = {SeedAtom(<<e, i>>)}
  <2>1. \A i \in Evals : f[i] = RawSeed(<<e, i>>)
    BY <1>2 DEF RowsOf, Row, Seed
  <2>2. L = NB_EVALS - 1 /\ L \in Evals /\ \A i \in 0..L - 1 : i \in Evals /\ i # L
    BY <1>1
  <2> HIDE DEF f, L
  <2>3. \A i \in Evals : RawSeed(<<e, i>>) =
          IF i = L THEN {WitnessAtom(0)} \cup {SeedAtom(<<e, k>>) : k \in 0..L - 1}
          ELSE {SeedAtom(<<e, i>>)}
    BY <1>1, <2>2 DEF RawSeed
  <2> QED
    BY <2>1, <2>2, <2>3
<1>4. \A i \in Evals : i = L \/ i \in 0..L - 1
  BY <1>1
<1> HIDE DEF f, L
<1>5. \A i \in Nat : SeedAtom(<<e, i>>) # WitnessAtom(0)
  BY DEF SeedAtom, WitnessAtom
<1>6. \A i \in Nat : \A k \in Nat : SeedAtom(<<e, i>>) = SeedAtom(<<e, k>>) => i = k
  BY DEF SeedAtom
<1>7. ASSUME NEW a PROVE a \in XorAll(f, Evals) <=> a = WitnessAtom(0)
  <2> DEFINE A == {i \in Evals : a \in f[i]}
  <2>1. a \in XorAll(f, Evals) <=> Cardinality(A) % 2 = 1
    BY XorAllMember
  <2>2. CASE a = WitnessAtom(0)
    <3>1. A = {L}
      <4>1. a \in f[L]
        BY <1>3, <2>2
      <4>2. ASSUME NEW k \in 0..L - 1 PROVE a \notin f[k]
        <5>1. k \in Nat
          OBVIOUS
        <5>2. SeedAtom(<<e, k>>) # WitnessAtom(0)
          BY <1>5, <5>1
        <5> QED
          BY <1>3, <2>2, <5>2
      <4> QED
        BY <1>1, <1>4, <4>1, <4>2
    <3>2. Cardinality({L}) = 1
      BY FS_Singleton
    <3> QED
      BY <2>1, <2>2, <3>1, <3>2
  <2>3. CASE a # WitnessAtom(0) /\ \E i \in 0..L - 1 : a = SeedAtom(<<e, i>>)
    <3>1. PICK i \in 0..L - 1 : a = SeedAtom(<<e, i>>)
      BY <2>3
    <3>2. i \in Nat /\ i \in Evals /\ i # L /\ \A k \in 0..L - 1 : k \in Nat
      BY <1>1
    <3>3. A = {i, L}
      <4>1. a \in f[i] /\ a \in f[L]
        BY <1>3, <3>1
      <4>2. ASSUME NEW k \in Evals, a \in f[k], k # L PROVE k = i
        <5>1. k \in 0..L - 1
          BY <1>4, <4>2
        <5>2. a = SeedAtom(<<e, k>>)
          BY <1>3, <4>2, <5>1
        <5> QED
          BY <1>6, <3>1, <3>2, <5>1, <5>2
      <4> QED
        BY <1>1, <3>2, <4>1, <4>2
    <3>4. Cardinality({i, L}) = 2
      <4>1. IsFiniteSet({i}) /\ Cardinality({i}) = 1
        BY FS_Singleton
      <4>2. Cardinality({i} \cup {L}) = Cardinality({i}) + 1
        BY <3>2, <4>1, FS_AddElement
      <4>3. {i} \cup {L} = {i, L}
        OBVIOUS
      <4> QED
        BY <4>1, <4>2, <4>3
    <3>5. 2 % 2 # 1
      OBVIOUS
    <3> HIDE DEF A
    <3> QED
      BY <2>1, <2>3, <3>3, <3>4, <3>5
  <2>4. CASE a # WitnessAtom(0) /\ \A i \in 0..L - 1 : a # SeedAtom(<<e, i>>)
    <3>1. A = {}
      BY <1>3, <1>4, <2>4
    <3>2. Cardinality({}) = 0
      BY FS_EmptySet
    <3>3. 0 % 2 # 1
      OBVIOUS
    <3> HIDE DEF A
    <3> QED
      BY <2>1, <2>4, <3>1, <3>2, <3>3
  <2> QED
    BY <2>2, <2>3, <2>4
<1>8. XorAll(f, Evals) = {WitnessAtom(0)}
  <2> HIDE DEF XorAll
  <2> QED
    BY <1>7
<1>9. ColumnSum(RowsOf("CT", e), Evals)[0] = XorAll(f, Evals)
  BY <1>2 DEF ColumnSum, f
<1>10. Witness[0] = {WitnessAtom(0)}
  BY <1>2 DEF Witness
<1> QED
  BY <1>8, <1>9, <1>10

-----------------------------------------------------------------------------
\* The line that a signer makes of the sums over all leaves.
LEMMA SignedExact ==
  ASSUME NEW R
  PROVE  [p0 |-> BucketsAt(R, NB_EVALS), u1 |-> AccAt(R, NB_EVALS)[UBlock],
          delta_x |-> [b \in XBlocks |-> Xor(Witness[b], AccAt(R, NB_EVALS)[b])]] = LineOf(R)
BY BucketsEnd DEF LineOf

\* What the verifier computes without the hidden row, and with what it was sent
\* of delta_x, is the value of the line.
LEMMA EvaluatedExact ==
  ASSUME NEW F \in {"CT", "OT"}, NEW e, NEW h \in Evals, NEW R, R = RowsOf(F, e),
         NEW V, V = Without(R, h)
  PROVE  EvaluatedAt(h, BucketsAt(V, NB_EVALS), AccAt(V, NB_EVALS), Sent(F, LineOf(R).delta_x))
           = LineAt(LineOf(R), h)
<1> DEFINE total == ColumnSum(R, Evals)
           r     == R[h]
           sent  == Sent(F, LineOf(R).delta_x)
           O(p)  == {i \in Evals : PointBit(i, p) = 1}
<1>1. AreRows(R) /\ IsRow(r)
  BY RowsAreRows DEF AreRows
<1>2. AccAt(V, NB_EVALS) = RowAdd(total, r)
  <2>1. AccAt(V, NB_EVALS) = ColumnSum(V, Evals)
    BY BucketsEnd
  <2>2. ColumnSum(V, Evals) = RowAdd(total, r)
    BY <1>1, HiddenSum
  <2> QED
    BY <2>1, <2>2
<1>3. BucketsAt(V, NB_EVALS) = [p \in Bits |-> ColumnSum(V, O(p))]
  BY BucketsEnd
<1>4. \A p \in Bits : ColumnSum(V, O(p)) =
        IF PointBit(h, p) = 1 THEN RowAdd(ColumnSum(R, O(p)), r) ELSE ColumnSum(R, O(p))
  <2> SUFFICES ASSUME NEW p \in Bits
               PROVE  ColumnSum(V, O(p)) =
                        IF PointBit(h, p) = 1 THEN RowAdd(ColumnSum(R, O(p)), r)
                        ELSE ColumnSum(R, O(p))
    OBVIOUS
  <2>1. O(p) \subseteq Evals /\ (h \in O(p) <=> PointBit(h, p) = 1)
    OBVIOUS
  <2> HIDE DEF O
  <2> QED
    BY <1>1, <2>1, HiddenSum
<1> DEFINE vrow == [b \in Blocks |-> IF b \in DOMAIN sent
                                     THEN Xor(AccAt(V, NB_EVALS)[b], sent[b])
                                     ELSE AccAt(V, NB_EVALS)[b]]
           srow == [Witness EXCEPT ![UBlock] = total[UBlock]]
<1>5. ASSUME NEW b \in Blocks PROVE vrow[b] = Xor(srow[b], r[b])
  <2>1. AccAt(V, NB_EVALS)[b] = Xor(total[b], r[b])
    BY <1>2 DEF RowAdd
  <2>2. CASE b = UBlock
    <3>1. UBlock \notin XBlocks /\ UBlock \in Blocks /\ 1 # UBlock
      BY DEF UBlock, XBlocks, Blocks
    <3>2. b \notin DOMAIN sent
      BY <2>2, <3>1 DEF Sent
    <3>3. srow[b] = total[b]
      BY <2>2, <3>1 DEF Witness
    <3> QED
      BY <2>1, <3>2, <3>3
  <2>3. CASE b # UBlock
    <3>1. b \in XBlocks /\ srow[b] = Witness[b]
      BY <2>3 DEF Blocks, Witness
    <3>2. LineOf(R).delta_x[b] = Xor(Witness[b], total[b])
      BY <3>1 DEF LineOf
    <3>3. CASE b \in DOMAIN sent
      <4>1. sent[b] = Xor(Witness[b], total[b])
        BY <3>2, <3>3 DEF Sent
      <4>2. Xor(Xor(total[b], r[b]), Xor(Witness[b], total[b])) = Xor(Witness[b], r[b])
        BY DEF Xor
      <4> QED
        BY <2>1, <3>1, <3>3, <4>1, <4>2
    <3>4. CASE b \notin DOMAIN sent
      <4>1. b = 0 /\ F = "CT"
        BY <3>1, <3>4 DEF Sent, XBlocks
      <4>2. total[b] = Witness[b]
        BY <4>1, CorrelatedTotal
      <4> QED
        BY <2>1, <3>1, <3>4, <4>2
    <3> QED
      BY <3>3, <3>4
  <2> QED
    BY <2>2, <2>3
<1>6. EvaluatedAt(h, BucketsAt(V, NB_EVALS), AccAt(V, NB_EVALS), sent)
        = [p \in Bits |-> RowAdd(ColumnSum(V, O(p)), AtPoint(h, vrow)[p])]
  BY <1>3 DEF EvaluatedAt, ExtAdd
<1>7. LineAt(LineOf(R), h) = [p \in Bits |-> RowAdd(ColumnSum(R, O(p)), AtPoint(h, srow)[p])]
  BY DEF LineAt, LineOf, ExtAdd
<1>8. ASSUME NEW p \in Bits
      PROVE  RowAdd(ColumnSum(V, O(p)), AtPoint(h, vrow)[p])
               = RowAdd(ColumnSum(R, O(p)), AtPoint(h, srow)[p])
  <2>1. CASE PointBit(h, p) # 1
    BY <1>4, <2>1 DEF AtPoint
  <2>2. CASE PointBit(h, p) = 1
    <3> DEFINE c == ColumnSum(R, O(p))
    <3>1. /\ ColumnSum(V, O(p)) = RowAdd(c, r)
          /\ AtPoint(h, vrow)[p] = vrow /\ AtPoint(h, srow)[p] = srow
      BY <1>4, <2>2 DEF AtPoint
    <3> HIDE DEF c, vrow, srow, r
    <3>2. \A b \in Blocks : Xor(Xor(c[b], r[b]), vrow[b]) = Xor(c[b], srow[b])
      <4>1. \A b \in Blocks : Xor(Xor(c[b], r[b]), Xor(srow[b], r[b])) = Xor(c[b], srow[b])
        BY DEF Xor
      <4> QED
        BY <1>5, <4>1
    <3>3. RowAdd(RowAdd(c, r), vrow) = RowAdd(c, srow)
      BY <3>2 DEF RowAdd
    <3> QED
      BY <3>1, <3>3 DEF c
  <2> QED
    BY <2>1, <2>2
<1> HIDE DEF vrow, srow, O
<1> QED
  BY <1>6, <1>7, <1>8

-----------------------------------------------------------------------------
\* The commitments of the first m leaves.
ComsAt(e, m) == [k \in 1..m |-> SeedCommit(e, Seed(e, k - 1))]

\* A function on 1..m is a sequence of length m.
LEMMA ASequence ==
  ASSUME NEW V, NEW m \in Nat, NEW f \in [1..m -> V]
  PROVE  f \in Seq(V) /\ Len(f) = m
OBVIOUS

\* The commitment of the next leaf.
LEMMA ComsExtend ==
  ASSUME NEW e, NEW m \in Nat, NEW n \in Nat, NEW s,
         s = [k \in 1..n |-> SeedCommit(e, Seed(e, m + k - 1))]
  PROVE  ComsAt(e, m) \o s = ComsAt(e, m + n)
<1> DEFINE c == ComsAt(e, m)
           u == c \o s
           V == {SeedCommit(e, Seed(e, k)) : k \in Int}
<1>1. Len(c) = m /\ Len(s) = n /\ c \in Seq(V) /\ s \in Seq(V)
  <2>1. \A k \in Int : SeedCommit(e, Seed(e, k)) \in V
    OBVIOUS
  <2> HIDE DEF V
  <2>2. c = [k \in 1..m |-> SeedCommit(e, Seed(e, k - 1))]
    BY DEF ComsAt
  <2>3. \A k \in 1..m : k - 1 \in Int
    OBVIOUS
  <2>4. \A k \in 1..n : m + k - 1 \in Int
    OBVIOUS
  <2>5. c \in [1..m -> V]
    BY <2>1, <2>2, <2>3
  <2>6. s \in [1..n -> V]
    BY <2>1, <2>4
  <2> HIDE DEF c
  <2> QED
    BY <2>5, <2>6, ASequence
<1> HIDE DEF V
<1>2. u = [k \in 1..m + n |-> u[k]]
  BY <1>1
<1>3. \A k \in 1..m + n : u[k] = SeedCommit(e, Seed(e, k - 1))
  <2> SUFFICES ASSUME NEW k \in 1..m + n PROVE u[k] = SeedCommit(e, Seed(e, k - 1))
    OBVIOUS
  <2>1. CASE k <= m
    <3>1. k \in 1..m
      BY <2>1
    <3>2. u[k] = c[k]
      BY <1>1, <3>1
    <3> QED
      BY <3>1, <3>2 DEF ComsAt
  <2>2. CASE ~(k <= m)
    <3>1. k - m \in 1..n /\ m + (k - m) - 1 = k - 1
      BY <2>2
    <3>2. u[k] = s[k - m]
      BY <1>1, <2>2
    <3> QED
      BY <3>1, <3>2
  <2> QED
    BY <2>1, <2>2
<1> HIDE DEF u, c
<1> QED
  BY <1>2, <1>3 DEF ComsAt, u, c

-----------------------------------------------------------------------------
(***************************************************************************)
(* Control.                                                                *)
(***************************************************************************)
\* The points of a call: of the default build, of the low-memory build, of Open.
DefaultPcs == {"alloc", "tree", "loop", "group", "hash", "cleanup", "done"}
MemoptPcs  == {"pass", "leaves", "pass_err", "done"}
OpenPcs    == {"open", "cleanup", "done"}

\* Which call is at which point, with which execution: the bounds that the
\* computations rely on.
Control ==
  /\ fam \in Families /\ build \in Builds
  /\ exec \in 0..TAU
  /\ rc \in {0, -1}
  /\ i_star \in [Execs -> Evals]
  /\ \/ call = "none" /\ pc = "done"
     \/ call \in {"commit", "eval"} /\ build.impl = "default" /\ pc \in DefaultPcs
     \/ call \in {"commit", "eval"} /\ build.impl = "memopt" /\ pc \in MemoptPcs
     \/ call = "open" /\ pc \in OpenPcs
  /\ pc \in {"group", "hash", "leaves", "pass_err"} => exec < TAU
  /\ pc \in {"alloc", "tree"} => exec = 0
  /\ pc = "tree" => fam = "OT"

-----------------------------------------------------------------------------
(***************************************************************************)
(* What is held, at each point of each call.                               *)
(***************************************************************************)
\* What the end of the call releases and wipes.
Releases == IF call = "commit" THEN CommitReleases ELSE EvalReleases
Wipes    == IF call = "commit" THEN CommitWipes ELSE {}

\* Within a group ConvertToLine has contexts and locals of its own.
DefaultHeld ==
  /\ contexts = {}
  /\ pc = "alloc" => todo \in Seq(Releases)
  /\ held \subseteq IF pc = "group" THEN Releases \cup ConvertContexts ELSE Releases
  /\ dirty \subseteq IF pc = "group" /\ Signing THEN Wipes \cup ConvertLocals ELSE Wipes

\* The low-memory build has nothing on the heap: the contexts and locals of a pass.
MemoptHeld ==
  /\ held = {}
  /\ contexts \subseteq IF pc = "pass" THEN {} ELSE Cleaned
  /\ dirty \subseteq IF pc = "pass" THEN {} ELSE PassLocals

\* Open: the context and the seeds of the hidden leaves.
OpenHeld ==
  /\ contexts = {}
  /\ held \subseteq {"seedcommit_ctx"}
  /\ dirty \subseteq {"hidden_lseeds"}

\* In every state, failures included.
HeldInv ==
  /\ pc = "done" => held = {} /\ dirty = {} /\ contexts = {}
  /\ pc # "done" /\ call \in {"commit", "eval"} =>
       IF build.impl = "default" THEN DefaultHeld ELSE MemoptHeld
  /\ pc # "done" /\ call = "open" => OpenHeld

-----------------------------------------------------------------------------
\* What the builds are (BuildsAssumption), in the terms of the invariant.
LEMMA BuildFacts ==
  ASSUME Control
  PROVE  /\ fam \in {"CT", "OT"}
         /\ build.impl \in {"default", "memopt"} /\ build.keep \in BOOLEAN
         /\ build.fast \in BOOLEAN /\ build.h7 \in Nat \ {0} /\ build.batch \in Nat \ {0}
         /\ build.par \in Nat \ {0} /\ build.sim \in Nat \ {0}
         /\ build.impl = "memopt" => /\ ~build.keep
                                    /\ NB_EVALS % build.par = 0
                                    /\ NB_EVALS % build.sim = 0 /\ build.sim % build.par = 0
BY BuildsAssumption DEF Control

\* A pass has one execution at least, and none after the last.
LEMMA BatchSize ==
  ASSUME Control, exec < TAU
  PROVE  Batch \in 1..TAU - exec
<1>1. fam \in {"CT", "OT"} /\ build.batch \in Nat \ {0} /\ TAU \in Nat /\ exec \in Nat
  BY BuildFacts, LineSizes DEF Control
<1> QED
  BY <1>1 DEF Batch, ot_batch_min

\* Nothing is called yet.
LEMMA ControlInit == Init => Control
<1>1. 0 \in Evals /\ 0 \in 0..TAU
  BY Leaves8, LineSizes DEF Evals
<1> QED
  BY <1>1 DEF Init, StateInit, Control

\* Every step keeps the bounds and the order of the calls.
LEMMA ControlStep ==
  ASSUME Control, [Next]_vars
  PROVE  Control'
<1>1. TAU \in Nat \ {0} /\ exec \in 0..TAU /\ Challenges \subseteq [Execs -> Evals]
  BY LineSizes, BuildsAssumption DEF Control
<1>2. exec < TAU => Batch \in 1..TAU - exec
  BY BatchSize

<1>3. ASSUME DefaultCommit PROVE Control'
  BY <1>1, <1>3
     DEF DefaultPcs, MemoptPcs, OpenPcs, Control, control, outputs, DefaultCommit, StartCommit,
         Enter

<1>4. ASSUME DefaultEval PROVE Control'
  BY <1>1, <1>4
     DEF DefaultPcs, MemoptPcs, OpenPcs, Control, control, outputs, DefaultEval, StartEval,
         Enter, Returned, InitCache

<1>5. ASSUME Allocate PROVE Control'
  BY <1>1, <1>5 DEF DefaultPcs, MemoptPcs, OpenPcs, Control, control, outputs, Allocate, At, Fails

<1>6. ASSUME Allocated PROVE Control'
  BY <1>1, <1>6
     DEF DefaultPcs, MemoptPcs, OpenPcs, Control, control, outputs, Allocated, At, InitCache,
         Signing

<1>7. ASSUME ExpandAll PROVE Control'
  BY <1>1, <1>7
     DEF DefaultPcs, MemoptPcs, OpenPcs, Control, control, outputs, ExpandAll, At, Fails,
         Signing

<1>8. ASSUME LeavesOfExec PROVE Control'
  BY <1>1, <1>8
     DEF DefaultPcs, MemoptPcs, OpenPcs, Control, control, outputs, LeavesOfExec, At, Fails,
         Signing

<1>9. ASSUME ConvertGroup PROVE Control'
  BY <1>1, <1>9
     DEF DefaultPcs, MemoptPcs, OpenPcs, Control, control, outputs, ConvertGroup, At, Signing

<1>10. ASSUME ConvertFails PROVE Control'
  BY <1>1, <1>10
     DEF DefaultPcs, MemoptPcs, OpenPcs, Control, control, outputs, ConvertFails, At, Fails

<1>11. ASSUME ConvertEnd PROVE Control'
  BY <1>1, <1>11
     DEF DefaultPcs, MemoptPcs, OpenPcs, Control, control, outputs, ConvertEnd, At, Signing

<1>12. ASSUME HashSign PROVE Control'
  BY <1>1, <1>12
     DEF DefaultPcs, MemoptPcs, OpenPcs, Control, control, outputs, HashSign, InDefault,
         NextExec

<1>13. ASSUME HashEval PROVE Control'
  BY <1>1, <1>13
     DEF DefaultPcs, MemoptPcs, OpenPcs, Control, control, outputs, HashEval, InDefault,
         NextExec

<1>14. ASSUME LoopEnd PROVE Control'
  BY <1>1, <1>14 DEF DefaultPcs, MemoptPcs, OpenPcs, Control, control, outputs, LoopEnd, At

<1>15. ASSUME HashFails PROVE Control'
  BY <1>1, <1>15
     DEF DefaultPcs, MemoptPcs, OpenPcs, Control, control, outputs, HashFails, At, InDefault,
         Fails

<1>16. ASSUME DefaultCleanup PROVE Control'
  BY <1>1, <1>16
     DEF DefaultPcs, MemoptPcs, OpenPcs, Control, control, outputs, DefaultCleanup, Return

<1>17. ASSUME MemoptCommit PROVE Control'
  BY <1>1, <1>17
     DEF DefaultPcs, MemoptPcs, OpenPcs, Control, control, outputs, MemoptCommit, StartCommit,
         Enter

<1>18. ASSUME MemoptEval PROVE Control'
  BY <1>1, <1>18
     DEF DefaultPcs, MemoptPcs, OpenPcs, Control, control, outputs, MemoptEval, StartEval,
         Enter, Returned

<1>19. ASSUME InitPass PROVE Control'
  BY <1>1, <1>19
     DEF DefaultPcs, MemoptPcs, OpenPcs, Control, control, outputs, InitPass, InMemopt, Fails

<1>20. ASSUME NextLeafs PROVE Control'
  BY <1>1, <1>20
     DEF DefaultPcs, MemoptPcs, OpenPcs, Control, control, outputs, NextLeafs, InMemopt, Tainted

<1>21. ASSUME SkipLeaf PROVE Control'
  BY <1>1, <1>21
     DEF DefaultPcs, MemoptPcs, OpenPcs, Control, control, outputs, SkipLeaf, InMemopt, Tainted

<1>22. ASSUME TakeLeaf PROVE Control'
  BY <1>1, <1>22
     DEF DefaultPcs, MemoptPcs, OpenPcs, Control, control, outputs, TakeLeaf, InMemopt, Tainted

<1>23. ASSUME PassFails PROVE Control'
  BY <1>1, <1>23
     DEF DefaultPcs, MemoptPcs, OpenPcs, Control, control, outputs, PassFails, InMemopt, Fails,
         Tainted

<1>24. ASSUME FinalizeSign PROVE Control'
  BY <1>1, <1>24
     DEF DefaultPcs, MemoptPcs, OpenPcs, Control, control, outputs, FinalizeSign, InMemopt

<1>25. ASSUME FinalizeVerify PROVE Control'
  BY <1>1, <1>25
     DEF DefaultPcs, MemoptPcs, OpenPcs, Control, control, outputs, FinalizeVerify, InMemopt

<1>26. ASSUME PassErr PROVE Control'
  BY <1>1, <1>2, <1>26
     DEF DefaultPcs, MemoptPcs, OpenPcs, Control, control, outputs, PassErr, InMemopt

<1>27. ASSUME PassesEnd PROVE Control'
  BY <1>1, <1>27 DEF DefaultPcs, MemoptPcs, OpenPcs, Control, control, outputs, PassesEnd, InMemopt

<1>28. ASSUME Open PROVE Control'
  BY <1>1, <1>28
     DEF DefaultPcs, MemoptPcs, OpenPcs, Control, control, outputs, Open, StartOpen, Enter,
         Returned

<1>29. ASSUME OpenExec PROVE Control'
  BY <1>1, <1>29 DEF DefaultPcs, MemoptPcs, OpenPcs, Control, control, outputs, OpenExec, Fails

<1>30. ASSUME OpenCleanup PROVE Control'
  BY <1>1, <1>30 DEF DefaultPcs, MemoptPcs, OpenPcs, Control, control, outputs, OpenCleanup, Return

<1>31. ASSUME UNCHANGED vars PROVE Control'
  BY <1>1, <1>31 DEF Control, vars, control, outputs
<1> QED
  BY <1>3, <1>4, <1>5, <1>6, <1>7, <1>8, <1>9, <1>10, <1>11, <1>12, <1>13, <1>14, <1>15, <1>16, <1>17, <1>18, <1>19, <1>20, <1>21, <1>22, <1>23, <1>24, <1>25, <1>26, <1>27, <1>28, <1>29, <1>30, <1>31
     DEF Next, DefaultNext, MemoptNext

\* Nothing is held yet.
LEMMA HeldInit == Init => HeldInv
BY DEF Init, StateInit, MemoptInit, HeldInv

\* Every step takes on only what the end of its call releases or wipes.
LEMMA HeldStep ==
  ASSUME Control, HeldInv, [Next]_vars
  PROVE  HeldInv'
<1>1. TAU \in Nat \ {0} /\ fam \in {"CT", "OT"} /\ build.keep \in BOOLEAN
  BY LineSizes, BuildFacts
<1>2. exec < TAU => Batch \in 1..TAU - exec
  BY BatchSize

<1>3. ASSUME DefaultCommit, UNCHANGED pass PROVE HeldInv'
  <2>1. CommitAllocations \in Seq(CommitReleases)
    <3>1. CASE fam = "CT"
      <4> DEFINE S == {"cache", "node_e", "ls_com_e", "lseed"}
      <4>1. /\ Unless(build.keep, <<"node_e", "ls_com_e">>) \in Seq(S)
            /\ <<"lseed">> \in Seq(S)
        <5>1. /\ <<"node_e", "ls_com_e">> \in Seq(S) /\ <<>> \in Seq(S)
              /\ <<"lseed">> \in Seq(S)
          OBVIOUS
        <5> HIDE DEF S
        <5> QED
          BY <1>1, <5>1 DEF Unless
      <4> HIDE DEF S
      <4>2. Unless(build.keep, <<"node_e", "ls_com_e">>) \o <<"lseed">> \in Seq(S)
        BY <4>1
      <4> QED
        BY <3>1, <4>2 DEF CommitAllocations, CommitReleases, S
    <3>2. CASE fam = "OT"
      <4> DEFINE S == {"cache", "lseed_all", "lseed_e", "ls_com_e"}
      <4>1. /\ Unless(build.keep, <<"ls_com_e">>) \in Seq(S)
            /\ <<"lseed_all">> \in Seq(S)
        <5>1. /\ <<"ls_com_e">> \in Seq(S) /\ <<>> \in Seq(S)
              /\ <<"lseed_all">> \in Seq(S)
          OBVIOUS
        <5> HIDE DEF S
        <5> QED
          BY <1>1, <5>1 DEF Unless
      <4> HIDE DEF S
      <4>2. <<"lseed_all">> \o Unless(build.keep, <<"ls_com_e">>) \in Seq(S)
        BY <4>1
      <4> QED
        BY <3>2, <4>2 DEF CommitAllocations, CommitReleases, S
    <3> QED
      BY <1>1, <3>1, <3>2
  <2>2. contexts' = {} /\ held' = {} /\ dirty' \subseteq CommitWipes
    BY <1>1, <1>3 DEF Control, HeldInv, DefaultCommit, StartCommit, pass, CommitWipes
  <2>3. pc' = "alloc" /\ call' = "commit" /\ build'.impl = "default" /\ todo' = CommitAllocations
    BY <1>3 DEF DefaultCommit, StartCommit, Enter
  <2>4. CommitReleases' = CommitReleases /\ CommitWipes' = CommitWipes
    BY <1>3 DEF DefaultCommit, StartCommit, Enter, CommitReleases, CommitWipes
  <2> QED
    BY <2>1, <2>2, <2>3, <2>4 DEF HeldInv, DefaultHeld, Releases, Wipes, Signing

<1>4. ASSUME DefaultEval, UNCHANGED pass PROVE HeldInv'
  <2>1. EvalAllocations \in Seq(EvalReleases)
    <3> DEFINE S == {"cache", "lseed", "lseed_all", "lseed_e", "ls_com_batch"}
    <3>1. <<"lseed", "ls_com_batch">> \in Seq(S)
      OBVIOUS
    <3>2. <<"lseed_all", "lseed_e", "ls_com_batch">> \in Seq(S)
      OBVIOUS
    <3> QED
      BY <3>1, <3>2 DEF EvalAllocations, EvalReleases
  <2>2. contexts' = {} /\ held' \subseteq EvalReleases /\ dirty' = {}
    BY <1>4 DEF HeldInv, DefaultEval, StartEval, Returned, InitCache, EvalReleases, pass
  <2>3. pc' = "alloc" /\ call' = "eval" /\ build'.impl = "default" /\ todo' = EvalAllocations
    BY <1>4 DEF DefaultEval, StartEval, Enter
  <2> QED
    BY <2>1, <2>2, <2>3 DEF HeldInv, DefaultHeld, Releases, Wipes, Signing

<1>5. ASSUME Allocate, UNCHANGED pass PROVE HeldInv'
  <2>1. Releases' = Releases /\ Wipes' = Wipes
    BY <1>5 DEF Allocate, Releases, Wipes, CommitReleases, CommitWipes, EvalReleases
  <2>2. /\ build.impl = "default" /\ pc = "alloc" /\ call \in {"commit", "eval"}
        /\ build' = build /\ call' = call
    BY <1>5 DEF Control, DefaultPcs, OpenPcs, Allocate, At, outputs
  <2>3. todo # <<>> /\ todo \in Seq(Releases) /\ held \subseteq Releases /\ dirty \subseteq Wipes
    BY <1>5, <2>2 DEF HeldInv, DefaultHeld, Allocate
  <2>4. Head(todo) \in Releases /\ Tail(todo) \in Seq(Releases)
    BY <2>3
  <2>5. /\ contexts' = {} /\ dirty' = dirty /\ pc' \in {"alloc", "cleanup"}
        /\ held' \subseteq Releases
        /\ pc' = "alloc" => todo' \in Seq(Releases)
    BY <1>5, <2>2, <2>3, <2>4 DEF HeldInv, DefaultHeld, Allocate, pass
  <2> QED
    BY <2>1, <2>2, <2>3, <2>5 DEF HeldInv, DefaultHeld

<1>6. ASSUME Allocated, UNCHANGED pass PROVE HeldInv'
  BY <1>1, <1>6
     DEF DefaultPcs, OpenPcs, Control, HeldInv, DefaultHeld, Releases, Wipes, Signing, control,
         outputs, work, pass, Allocated, At, InitCache, CommitReleases, CommitWipes,
         EvalReleases

<1>7. ASSUME ExpandAll, UNCHANGED pass PROVE HeldInv'
  <2>1. fam = "OT" => <<"lseed_e">> \in Seq(CommitReleases) /\ "lseed_all" \in CommitWipes
    BY DEF CommitReleases, CommitWipes
  <2>2. <<>> \in Seq(EvalReleases)
    OBVIOUS
  <2>3. fam = "OT"
    BY <1>7 DEF ExpandAll, At, Control
  <2> QED
    BY <1>1, <1>7, <2>1, <2>2, <2>3
      
          DEF DefaultPcs, OpenPcs, Control, HeldInv, DefaultHeld, Releases, Wipes, Signing,
              control, outputs, work, pass, ExpandAll, At, CommitReleases, CommitWipes,
              EvalReleases

<1>8. ASSUME LeavesOfExec, UNCHANGED pass PROVE HeldInv'
  <2>1. LeafBuffers \subseteq CommitWipes
    BY <1>1 DEF LeafBuffers, CommitWipes
  <2> QED
    BY <1>1, <1>8, <2>1
       DEF DefaultPcs, OpenPcs, Control, HeldInv, DefaultHeld, Releases, Wipes, Signing,
           control, outputs, work, pass, LeavesOfExec, At, CommitReleases, CommitWipes,
           EvalReleases

<1>9. ASSUME ConvertGroup, UNCHANGED pass PROVE HeldInv'
  BY <1>1, <1>9
     DEF DefaultPcs, OpenPcs, Control, HeldInv, DefaultHeld, Releases, Wipes, Signing, control,
         outputs, work, pass, ConvertGroup, At, ConvertLocals, ConvertContexts, CommitReleases,
         CommitWipes, EvalReleases

<1>10. ASSUME ConvertFails, UNCHANGED pass PROVE HeldInv'
  BY <1>1, <1>10
     DEF DefaultPcs, OpenPcs, Control, HeldInv, DefaultHeld, Releases, Wipes, Signing, control,
         outputs, work, pass, ConvertFails, At, ConvertLocals, ConvertContexts, CommitReleases,
         CommitWipes, EvalReleases

<1>11. ASSUME ConvertEnd, UNCHANGED pass PROVE HeldInv'
  BY <1>1, <1>11
     DEF DefaultPcs, OpenPcs, Control, HeldInv, DefaultHeld, Releases, Wipes, Signing, control,
         outputs, work, pass, ConvertEnd, At, ConvertLocals, ConvertContexts, CommitReleases,
         CommitWipes, EvalReleases

<1>12. ASSUME HashSign, UNCHANGED pass PROVE HeldInv'
  BY <1>1, <1>12
     DEF DefaultPcs, OpenPcs, Control, HeldInv, DefaultHeld, Releases, Wipes, Signing, control,
         outputs, work, pass, HashSign, InDefault, NextExec, CommitReleases, CommitWipes,
         EvalReleases

<1>13. ASSUME HashEval, UNCHANGED pass PROVE HeldInv'
  BY <1>1, <1>13
     DEF DefaultPcs, OpenPcs, Control, HeldInv, DefaultHeld, Releases, Wipes, Signing, control,
         outputs, work, pass, HashEval, InDefault, NextExec, CommitReleases, CommitWipes,
         EvalReleases

<1>14. ASSUME LoopEnd, UNCHANGED pass PROVE HeldInv'
  BY <1>1, <1>14
     DEF DefaultPcs, OpenPcs, Control, HeldInv, DefaultHeld, Releases, Wipes, Signing, control,
         outputs, work, pass, LoopEnd, At, CommitReleases, CommitWipes, EvalReleases

<1>15. ASSUME HashFails, UNCHANGED pass PROVE HeldInv'
  BY <1>1, <1>15
     DEF DefaultPcs, OpenPcs, Control, HeldInv, DefaultHeld, Releases, Wipes, Signing, control,
         outputs, work, pass, HashFails, At, InDefault, CommitReleases, CommitWipes,
         EvalReleases

<1>16. ASSUME DefaultCleanup, UNCHANGED pass PROVE HeldInv'
  BY <1>1, <1>16
     DEF DefaultPcs, OpenPcs, Control, HeldInv, DefaultHeld, Releases, Wipes, Signing, control,
         outputs, work, pass, DefaultCleanup, Return

<1>17. ASSUME MemoptCommit, UNCHANGED work PROVE HeldInv'
  BY <1>1, <1>17
     DEF MemoptPcs, Control, HeldInv, MemoptHeld, Cleaned, Slots, Batch, control, outputs, work,
         pass, MemoptCommit, StartCommit, Enter

<1>18. ASSUME MemoptEval, UNCHANGED work PROVE HeldInv'
  BY <1>1, <1>18
     DEF MemoptPcs, Control, HeldInv, MemoptHeld, Cleaned, Slots, Batch, control, outputs, work,
         pass, MemoptEval, StartEval, Enter, Returned

<1>19. ASSUME InitPass, UNCHANGED work PROVE HeldInv'
  <2>1. build.impl = "memopt" /\ call \in {"commit", "eval"} /\ pc = "pass"
    BY <1>19 DEF InitPass, InMemopt
  <2>2. held' = {} /\ dirty' = {}
    BY <1>19, <2>1 DEF HeldInv, MemoptHeld, InitPass
  <2>3. Cleaned' = Cleaned
    BY <1>19 DEF InitPass, control, Cleaned, Slots, Batch
  <2>4. contexts' \subseteq Cleaned
    <3>1. Batch \in Nat
      BY <1>2, <1>19 DEF InitPass
    <3>2. \A b \in Slots : 0..b \subseteq Slots
      BY <3>1 DEF Slots
    <3> QED
      BY <1>19, <3>2 DEF InitPass, Cleaned
  <2>5. pc' \in {"leaves", "pass_err"} /\ call' = call /\ build' = build
    BY <1>19 DEF InitPass, control
  <2> QED
    BY <2>1, <2>2, <2>3, <2>4, <2>5 DEF HeldInv, MemoptHeld

<1>20. ASSUME NextLeafs, UNCHANGED work PROVE HeldInv'
  BY <1>1, <1>20
     DEF MemoptPcs, Control, HeldInv, MemoptHeld, Cleaned, Slots, Batch, control, outputs, work,
         pass, NextLeafs, InMemopt, Tainted, PassLocals

<1>21. ASSUME SkipLeaf, UNCHANGED work PROVE HeldInv'
  BY <1>1, <1>21
     DEF MemoptPcs, Control, HeldInv, MemoptHeld, Cleaned, Slots, Batch, control, outputs, work,
         pass, SkipLeaf, InMemopt, Tainted, PassLocals

<1>22. ASSUME TakeLeaf, UNCHANGED work PROVE HeldInv'
  BY <1>1, <1>22
     DEF MemoptPcs, Control, HeldInv, MemoptHeld, Cleaned, Slots, Batch, control, outputs, work,
         pass, TakeLeaf, InMemopt, Tainted, PassLocals

<1>23. ASSUME PassFails, UNCHANGED work PROVE HeldInv'
  BY <1>1, <1>23
     DEF MemoptPcs, Control, HeldInv, MemoptHeld, Cleaned, Slots, Batch, control, outputs, work,
         pass, PassFails, InMemopt, Tainted, PassLocals

<1>24. ASSUME FinalizeSign, UNCHANGED work PROVE HeldInv'
  BY <1>1, <1>24
     DEF MemoptPcs, Control, HeldInv, MemoptHeld, Cleaned, Slots, Batch, control, outputs, work,
         pass, FinalizeSign, InMemopt

<1>25. ASSUME FinalizeVerify, UNCHANGED work PROVE HeldInv'
  BY <1>1, <1>25
     DEF MemoptPcs, Control, HeldInv, MemoptHeld, Cleaned, Slots, Batch, control, outputs, work,
         pass, FinalizeVerify, InMemopt

<1>26. ASSUME PassErr, UNCHANGED work PROVE HeldInv'
  BY <1>1, <1>26, <1>2
     DEF MemoptPcs, Control, HeldInv, MemoptHeld, Cleaned, Slots, Batch, control, outputs, work,
         pass, PassErr, InMemopt, PassLocals

<1>27. ASSUME PassesEnd, UNCHANGED work PROVE HeldInv'
  BY <1>1, <1>27
     DEF MemoptPcs, Control, HeldInv, MemoptHeld, Cleaned, Slots, Batch, control, outputs, work,
         pass, PassesEnd, InMemopt

<1>28. ASSUME Open, UNCHANGED <<work, pass>> PROVE HeldInv'
  BY <1>1, <1>28
     DEF OpenPcs, Control, HeldInv, OpenHeld, control, outputs, work, pass, Open, StartOpen,
         Enter, Returned

<1>29. ASSUME OpenExec, UNCHANGED <<work, pass>> PROVE HeldInv'
  BY <1>1, <1>29 DEF OpenPcs, Control, HeldInv, OpenHeld, control, outputs, work, pass, OpenExec

<1>30. ASSUME OpenCleanup, UNCHANGED <<work, pass>> PROVE HeldInv'
  BY <1>1, <1>30
     DEF OpenPcs, Control, HeldInv, OpenHeld, control, outputs, work, pass, OpenCleanup, Return

<1>31. ASSUME UNCHANGED vars PROVE HeldInv'
  BY <1>31
     DEF Control, DefaultPcs, MemoptPcs, OpenPcs, HeldInv, DefaultHeld, MemoptHeld, OpenHeld,
         Releases, Wipes, CommitReleases, EvalReleases, CommitWipes, Cleaned, Slots, Batch,
         Signing, ConvertContexts, ConvertLocals, PassLocals, control, outputs, work, pass, vars
<1> QED
  BY <1>3, <1>4, <1>5, <1>6, <1>7, <1>8, <1>9, <1>10, <1>11, <1>12, <1>13, <1>14, <1>15, <1>16, <1>17, <1>18, <1>19, <1>20, <1>21, <1>22, <1>23, <1>24, <1>25, <1>26, <1>27, <1>28, <1>29, <1>30, <1>31
     DEF Next, DefaultNext, MemoptNext

-----------------------------------------------------------------------------
(***************************************************************************)
(* What the results are, for each execution.                               *)
(***************************************************************************)
\* The line, what is sent of delta_x, the commitments of the leaves and of the
\* execution, that of the hidden leaf, the value at the challenge.
TrueLines(F) == [e \in Execs |-> LineOf(RowsOf(F, e))]
TrueSents(F) == [e \in Execs |-> Sent(F, LineOf(RowsOf(F, e)).delta_x)]
TrueComs     == [e \in Execs |-> ComsAt(e, NB_EVALS)]
TrueCom1s(F) == [e \in Execs |-> Hash_7(e, ComsAt(e, NB_EVALS), Sent(F, LineOf(RowsOf(F, e)).delta_x))]
TrueHidden(h)   == [e \in Execs |-> SeedCommit(e, Seed(e, h[e]))]
TrueEvals(F, h) == [e \in Execs |-> LineAt(LineOf(RowsOf(F, e)), h[e])]

\* f has the values of v for the executions below n.
AllHave(f, v, n) == \A e \in 0..n - 1 : e \in DOMAIN f /\ f[e] = v[e]

\* The entries of a batch of Hash_7: executions b to n - 1.
Entries(F, b, n) ==
  [k \in 1..n - b |-> [ls_com |-> TrueComs[b + k - 1], delta_x |-> TrueSents(F)[b + k - 1]]]

\* The rows that call c works with.
WorkRows(F, c, h, e) ==
  IF c = "eval" THEN Without(RowsOf(F, e), h[e]) ELSE RowsOf(F, e)

\* The fields of a key.
IsKey(k) == k = [delta_x |-> k.delta_x, ls_com |-> k.ls_com]

-----------------------------------------------------------------------------
(***************************************************************************)
(* The work in progress.                                                   *)
(***************************************************************************)
\* A group starts with the folding of the leaves before it.
GroupAt(R, e) ==
  /\ group \in 0..NB_EVALS /\ group % 8 = 0
  /\ acc = AccAt(R, group)
  /\ data_folding = BucketsAt(R, group)
  /\ ls_com = ComsAt(e, group)

\* A cell of the cache is empty, or has the schedule of this execution.
CacheEmpty(c) == c = NoCache \/ c = EmptyCache
CacheOf(c, e) ==
  \/ c = NoCache
  \/ /\ c = [b \in Blocks |-> c[b]]
     /\ \A b \in Blocks : c[b] = None \/ c[b] = IndexIdentifier(e, b)

\* The streams of execution e after m leaves.
Absorbed(e, m) == [e |-> e, absorbed |-> ComsAt(e, m)]
Folded(fast, R, e, m) ==
  [e |-> e, acc |-> AccAt(R, m),
   data |-> IF fast THEN BucketsAt(R, m) ELSE ZeroBuckets,
   p0 |-> IF fast THEN ZeroExt ELSE BucketsAt(R, m)]

\* How many of the first a leaves of an interleaved tree are of execution e.
Taken(a, e) == (a \div TAU) + IF e < a % TAU THEN 1 ELSE 0

\* How many of them are processed.
Flushed(b) == IF fam = "CT" THEN abs_leaf ELSE flush_count[b] * build.par

\* The slots of a pass have absorbed and folded the leaves processed; those
\* taken from an interleaved tree and not yet processed are in the buffers.
Streams ==
  /\ abs_leaf \in 0..Leaves
  /\ fam = "CT" => abs_leaf % build.sim = 0
  /\ sc = [b \in Slots |-> Absorbed(exec + b, Flushed(b))]
  /\ fold = [b \in Slots |-> Folded(build.fast, WorkRows(fam, call, i_star, exec + b),
                                    exec + b, Flushed(b))]
  /\ fam = "OT" =>
       /\ flush_count \in [Slots -> Nat]
       /\ \A b \in Slots : Taken(abs_leaf, exec + b) - Flushed(b) \in 0..build.par - 1
       /\ lseed_buf = [b \in Slots |->
            [k \in 1..Taken(abs_leaf, exec + b) - Flushed(b) |->
               LeafSeed(exec + b, Flushed(b) + k - 1)]]

-----------------------------------------------------------------------------
\* The results for the executions below n.  A build that keeps the commitments
\* of the leaves has them in the key.
Signed(n) ==
  /\ AllHave(line, TrueLines(fam), n)
  /\ AllHave(key.delta_x, TrueSents(fam), n)
  /\ build.keep => AllHave(key.ls_com, TrueComs, n)
Hashed(n) == AllHave(com1, TrueCom1s(fam), n)
Opened(n) ==
  /\ AllHave(opening.ls_com, TrueHidden(i_star), n)
  /\ AllHave(opening.delta_x, TrueSents(fam), n)
  /\ AllHave(opening.alpha1, Alpha1, n)
Evaluated(n) == AllHave(evals, TrueEvals(fam, i_star), n)
Checked(n)   == AllHave(com1_v, TrueCom1s(fam), n)

\* Commit, at each of its points: a build that keeps the commitments hashes them
\* after the loop, another in it.
CommitInv ==
  call = "commit" =>
    /\ pc \in {"loop", "group"} => Signed(exec) /\ (~build.keep => Hashed(exec))
    /\ pc = "hash" => Signed(exec + 1) /\ (~build.keep => Hashed(exec))
    /\ pc \in {"cleanup", "done"} /\ rc = 0 /\ ~oom => Signed(TAU) /\ Hashed(TAU)
    /\ pc \in {"pass", "leaves"} => Signed(exec) /\ Hashed(exec)
    /\ pc = "pass_err" /\ rc = 0 => Signed(exec + Batch) /\ Hashed(exec + Batch)

\* Open and Eval come after a Commit that succeeded, Eval after an Open.
OpenInv ==
  /\ call \in {"open", "eval"} =>
       /\ AllHave(line, TrueLines(fam), TAU)
       /\ AllHave(key.delta_x, TrueSents(fam), TAU)
       /\ Hashed(TAU)
  /\ call = "open" =>
       /\ build.keep => AllHave(key.ls_com, TrueComs, TAU)
       /\ pc = "open" => Opened(exec)
       /\ pc \in {"cleanup", "done"} /\ rc = 0 => Opened(TAU)
  /\ call = "eval" => Opened(TAU)

\* Eval: the executions from batch_start on wait in lsc_ptrs to be hashed.
EvalInv ==
  call = "eval" =>
    /\ pc = "alloc" => rc = -1 \/ todo = <<>>
    /\ pc \in {"alloc", "tree", "loop", "group", "hash"} =>
         /\ batch_start \in 0..exec
         /\ lsc_ptrs = Entries(fam, batch_start, exec)
         /\ Checked(batch_start)
         /\ exec = TAU => batch_start = TAU
    /\ pc \in {"loop", "group"} => Evaluated(exec)
    /\ pc = "hash" => Evaluated(exec + 1)
    /\ pc \in {"cleanup", "done"} /\ rc = 0 =>
         Evaluated(TAU) /\ Checked(TAU) /\ AllHave(alpha1_v, Alpha1, TAU)
    /\ pc \in {"pass", "leaves"} => Evaluated(exec) /\ Checked(exec)
    /\ pc = "pass_err" /\ rc = 0 =>
         Evaluated(exec + Batch) /\ Checked(exec + Batch)

\* What is in progress at each point.
WorkInv ==
  /\ pc = "loop" => CacheEmpty(cache)
  /\ call = "eval" /\ pc \in {"alloc", "tree"} => CacheEmpty(cache)
  /\ pc = "group" => /\ CacheOf(cache, exec)
                     /\ GroupAt(WorkRows(fam, call, i_star, exec), exec)
  /\ pc = "hash" => ls_com = ComsAt(exec, NB_EVALS)
  /\ pc = "leaves" => Streams

\* All that is computed.
LineInv == IsKey(key) /\ CommitInv /\ OpenInv /\ EvalInv /\ WorkInv
-----------------------------------------------------------------------------
\* One more value.
LEMMA PutExtends ==
  ASSUME NEW f, NEW v, NEW n \in Nat, AllHave(f, v, n)
  PROVE  AllHave(Put(f, n, v[n]), v, n + 1)
<1>1. \A e \in 0..(n + 1) - 1 : e = n \/ e \in 0..n - 1
  OBVIOUS
<1>2. /\ DOMAIN Put(f, n, v[n]) = DOMAIN f \cup {n}
      /\ Put(f, n, v[n])[n] = v[n]
      /\ \A e \in DOMAIN f : e # n => Put(f, n, v[n])[e] = f[e]
  BY DEF Put, Merge
<1>3. \A e \in 0..n - 1 : e # n
  OBVIOUS
<1> QED
  BY <1>1, <1>2, <1>3 DEF AllHave

\* The values of a batch.
LEMMA MergeExtends ==
  ASSUME NEW f, NEW v, NEW m \in Nat, NEW n \in Nat, AllHave(f, v, m), NEW g,
         DOMAIN g = m..n - 1, \A e \in m..n - 1 : g[e] = v[e]
  PROVE  AllHave(Merge(f, g), v, n)
<1>1. \A e \in 0..n - 1 : e \in m..n - 1 \/ e \in 0..m - 1
  OBVIOUS
<1>2. /\ DOMAIN Merge(f, g) = DOMAIN f \cup DOMAIN g
      /\ \A e \in DOMAIN g : Merge(f, g)[e] = g[e]
      /\ \A e \in DOMAIN f : e \notin DOMAIN g => Merge(f, g)[e] = f[e]
  BY DEF Merge
<1>3. \A e \in 0..m - 1 : e \notin m..n - 1
  OBVIOUS
<1> QED
  BY <1>1, <1>2, <1>3 DEF AllHave

\* Of no execution there is nothing to say.
LEMMA NoneYet == ASSUME NEW f, NEW v PROVE AllHave(f, v, 0)
BY DEF AllHave

\* Values of one execution.
LEMMA TrueValues ==
  ASSUME NEW F, NEW h, NEW e \in Execs
  PROVE  /\ TrueLines(F)[e] = LineOf(RowsOf(F, e))
         /\ TrueSents(F)[e] = Sent(F, LineOf(RowsOf(F, e)).delta_x)
         /\ TrueComs[e] = ComsAt(e, NB_EVALS)
         /\ TrueCom1s(F)[e] = Hash_7(e, TrueComs[e], TrueSents(F)[e])
         /\ TrueHidden(h)[e] = SeedCommit(e, Seed(e, h[e]))
         /\ TrueEvals(F, h)[e] = LineAt(LineOf(RowsOf(F, e)), h[e])
         /\ Alpha1[e] = e
BY DEF TrueLines, TrueSents, TrueComs, TrueCom1s, TrueHidden, TrueEvals, Alpha1

\* What the verifier was sent for an execution.
LEMMA PassOpened ==
  ASSUME LineInv, NEW e \in Execs
  PROVE  call = "eval" => /\ opening.ls_com[e] = SeedCommit(e, Seed(e, i_star[e]))
                          /\ opening.delta_x[e] = TrueSents(fam)[e]
BY TrueValues, LineSizes DEF LineInv, OpenInv, Opened, AllHave, Execs

\* One more entry of a batch.
LEMMA EntriesStep ==
  ASSUME NEW F, NEW b \in Nat, NEW n \in Nat, b <= n
  PROVE  Append(Entries(F, b, n), [ls_com |-> TrueComs[n], delta_x |-> TrueSents(F)[n]])
           = Entries(F, b, n + 1)
<1> DEFINE w == [ls_com |-> TrueComs[n], delta_x |-> TrueSents(F)[n]]
           v == [k \in Int |-> [ls_com |-> TrueComs[b + k - 1], delta_x |-> TrueSents(F)[b + k - 1]]]
           m == n - b
<1>1. m \in Nat /\ (n + 1) - b = m + 1 /\ b + (m + 1) - 1 = n
  OBVIOUS
<1>2. Entries(F, b, n) = [k \in 1..m |-> v[k]]
  BY DEF Entries
<1>3. Entries(F, b, n + 1) = [k \in 1..m + 1 |-> v[k]]
  BY <1>1 DEF Entries
<1>4. v[m + 1] = w
  BY <1>1
<1> HIDE DEF v, w, m
<1>5. Append([k \in 1..m |-> v[k]], v[m + 1]) = [k \in 1..m + 1 |-> v[k]]
  BY <1>1
<1> QED
  BY <1>2, <1>3, <1>4, <1>5 DEF w

\* A batch of Hash_7 gives the commitments of its executions.
LEMMA HashedEntries ==
  ASSUME NEW F, NEW b \in Nat, NEW n \in Nat, b <= n, n <= TAU, NEW s,
         s = Entries(F, b, n)
  PROVE  BLC_Hash_com1_batch(b, s) = [e \in b..n - 1 |-> TrueCom1s(F)[e]]
<1>1. Len(s) = n - b /\ b + Len(s) - 1 = n - 1
  BY DEF Entries
<1>2. ASSUME NEW e \in b..n - 1
      PROVE  Hash_7(e, s[e - b + 1].ls_com, s[e - b + 1].delta_x) = TrueCom1s(F)[e]
  <2>1. e - b + 1 \in 1..n - b /\ b + (e - b + 1) - 1 = e /\ e \in Execs
    BY LineSizes DEF Execs
  <2>2. s[e - b + 1] = [ls_com |-> TrueComs[e], delta_x |-> TrueSents(F)[e]]
    BY <2>1 DEF Entries
  <2> QED
    BY <2>1, <2>2, TrueValues
<1> QED
  BY <1>1, <1>2 DEF BLC_Hash_com1_batch

-----------------------------------------------------------------------------
\* What a call works with is rows.
LEMMA WorkAreRows == ASSUME NEW F, NEW c, NEW h, NEW e PROVE AreRows(WorkRows(F, c, h, e))
BY RowsAreRows, WithoutRows DEF WorkRows

\* The row of a leaf that the tree returned.
LEMMA LeafRow ==
  ASSUME NEW e, NEW i \in Evals
  PROVE  WorkRows(fam, call, i_star, e)[i] =
           IF i = HiddenOf(e) THEN ZeroRow ELSE Row(fam, KeysOf(e), LeafSeed(e, i))
<1>1. i # None
  BY Leaves8 DEF Evals, None
<1> QED
  BY <1>1 DEF WorkRows, Without, RowsOf, HiddenOf, LeafSeed

\* The commitment of a leaf that the tree returned.
LEMMA LeafCom ==
  ASSUME NEW e, NEW i \in Evals,
         call = "eval" => opening.ls_com[e] = SeedCommit(e, Seed(e, i_star[e]))
  PROVE  (IF i = HiddenOf(e) THEN opening.ls_com[e] ELSE SeedCommit(e, LeafSeed(e, i)))
           = SeedCommit(e, Seed(e, i))
<1>1. i # None
  BY Leaves8 DEF Evals, None
<1> QED
  BY <1>1 DEF HiddenOf, LeafSeed

\* n leaves from leaf m on.
SeedsOf(e, m, n) == [k \in 1..n |-> LeafSeed(e, m + k - 1)]

\* The stream of commitments, after n more leaves.
LEMMA AbsorbStep ==
  ASSUME NEW e, NEW m \in Nat, NEW n \in Nat, m + n <= NB_EVALS,
         call = "eval" => opening.ls_com[e] = SeedCommit(e, Seed(e, i_star[e]))
  PROVE  SeedCommitThenAbsorb(Absorbed(e, m), m, SeedsOf(e, m, n)) = Absorbed(e, m + n)
<1> DEFINE seeds == SeedsOf(e, m, n)
           s == [k \in 1..n |-> SeedCommit(e, Seed(e, m + k - 1))]
<1>1. DOMAIN seeds = 1..n /\ \A k \in 1..n : seeds[k] = LeafSeed(e, m + k - 1)
  BY DEF SeedsOf
<1>2. ASSUME NEW k \in 1..n
      PROVE  (IF m + k - 1 = HiddenOf(e) THEN opening.ls_com[e] ELSE SeedCommit(e, seeds[k])) = s[k]
  <2>1. m + k - 1 \in Evals
    BY Leaves8 DEF Evals
  <2> QED
    BY <1>1, <2>1, LeafCom
<1>3. Absorbed(e, m).e = e /\ Absorbed(e, m).absorbed = ComsAt(e, m)
  BY DEF Absorbed
<1>4. [k \in DOMAIN seeds |-> IF m + k - 1 = HiddenOf(Absorbed(e, m).e) THEN opening.ls_com[Absorbed(e, m).e]
                              ELSE SeedCommit(Absorbed(e, m).e, seeds[k])] = s
  BY <1>1, <1>2, <1>3
<1> HIDE DEF seeds
<1>5. ComsAt(e, m) \o s = ComsAt(e, m + n)
  BY ComsExtend
<1> HIDE DEF s
<1>6. SeedCommitThenAbsorb(Absorbed(e, m), m, seeds)
        = [Absorbed(e, m) EXCEPT !.absorbed = ComsAt(e, m) \o s]
  BY <1>3, <1>4 DEF SeedCommitThenAbsorb
<1>7. [Absorbed(e, m) EXCEPT !.absorbed = ComsAt(e, m) \o s] = Absorbed(e, m + n)
  BY <1>5 DEF Absorbed
<1> QED
  BY <1>6, <1>7 DEF seeds

\* The folding, after n more leaves, in chunks of the parallel build or not.
LEMMA AccumulateStep ==
  ASSUME NEW e, NEW m \in Nat, NEW n \in Nat \ {0}, m + n <= NB_EVALS,
         NEW R, R = WorkRows(fam, call, i_star, e), build.fast \in BOOLEAN
  PROVE  SeedExpandThenAccumulate(Folded(build.fast, R, e, m), m, SeedsOf(e, m, n))
           = Folded(build.fast, R, e, m + n)
<1> DEFINE seeds == SeedsOf(e, m, n)
           f     == Folded(build.fast, R, e, m)
           rows  == [k \in DOMAIN seeds |-> IF m + k - 1 = HiddenOf(f.e) THEN ZeroRow
                                            ELSE Row(fam, KeysOf(f.e), seeds[k])]
           pos   == [k \in DOMAIN seeds |-> get_gray_code_bit_position(m + k - 1)]
           snapshots == Snapshots(f.acc, rows)
<1>1. DOMAIN seeds = 1..n /\ \A k \in 1..n : seeds[k] = LeafSeed(e, m + k - 1)
  BY DEF SeedsOf
<1>2. /\ f.e = e /\ f.acc = AccAt(R, m)
      /\ build.fast => f.data = BucketsAt(R, m) /\ f.p0 = ZeroExt
      /\ ~build.fast => f.p0 = BucketsAt(R, m) /\ f.data = ZeroBuckets
  BY DEF Folded
<1> HIDE DEF seeds, f
<1>3. AreRows(R)
  BY WorkAreRows
<1>4. Len(rows) = n /\ \A k \in 1..n : rows[k] = R[m + k - 1]
  <2>1. Len(rows) = n
    BY <1>1
  <2>2. ASSUME NEW k \in 1..n PROVE rows[k] = R[m + k - 1]
    <3>1. m + k - 1 \in Evals
      BY Leaves8 DEF Evals
    <3>2. rows[k] = IF m + k - 1 = HiddenOf(e) THEN ZeroRow
                    ELSE Row(fam, KeysOf(e), LeafSeed(e, m + k - 1))
      BY <1>1, <1>2
    <3> QED
      BY <3>1, <3>2, LeafRow
  <2> QED
    BY <2>1, <2>2
<1>5. \A k \in 1..n : pos[k] = get_gray_code_bit_position(m + k - 1)
  BY <1>1
<1> HIDE DEF rows, pos
<1>6. snapshots = [k \in 1..n |-> AccAt(R, m + k)]
  <2>1. Snapshots(AccAt(R, m), rows) = [k \in 1..n |-> AccAt(R, m + k)]
    <3>1. n \in Nat
      OBVIOUS
    <3>2. RowsFrom(rows, R, m, n)
      BY <1>4 DEF RowsFrom
    <3> QED
      BY <1>3, <3>1, <3>2, SnapshotsExact
  <2> QED
    BY <1>2, <2>1
<1>7. Len(snapshots) = n /\ Last(snapshots) = AccAt(R, m + n)
  <2>1. Len(snapshots) = n /\ snapshots[n] = AccAt(R, m + n)
    BY <1>6
  <2> QED
    BY <2>1 DEF Last
<1>8. PlacedFrom(snapshots, pos, R, m, n)
  BY <1>5, <1>6, <1>7 DEF PlacedFrom
<1>9. SeedExpandThenAccumulate(f, m, seeds) =
        [e |-> f.e, acc |-> Last(snapshots),
         data |-> IF build.fast THEN Bucketed(f.data, snapshots, pos) ELSE f.data,
         p0 |-> IF build.fast THEN f.p0 ELSE SlowFold(f.p0, snapshots, pos)]
  BY DEF SeedExpandThenAccumulate, rows, pos, seeds, f
<1> HIDE DEF snapshots
<1>10. build.fast => Bucketed(BucketsAt(R, m), snapshots, pos) = BucketsAt(R, m + n)
  BY <1>3, <1>8, BucketedExact
<1>11. ~build.fast => SlowFold(BucketsAt(R, m), snapshots, pos) = BucketsAt(R, m + n)
  BY <1>3, <1>8, SlowFoldExact
<1>12. SeedExpandThenAccumulate(f, m, seeds) = Folded(build.fast, R, e, m + n)
  BY <1>2, <1>7, <1>9, <1>10, <1>11 DEF Folded
<1> QED
  BY <1>12 DEF f, seeds

\* The next leaf of an interleaved tree is one of one execution.
LEMMA TakenStep ==
  ASSUME NEW a \in Nat, NEW x \in Execs
  PROVE  /\ Taken(a, x) \in Nat
         /\ Taken(a + 1, x) = Taken(a, x) + IF x = a % TAU THEN 1 ELSE 0
         /\ x = a % TAU => Taken(a, x) = a \div TAU
<1> DEFINE q == a \div TAU
           r == a % TAU
<1>1. TAU \in Nat \ {0} /\ x \in 0..TAU - 1
  BY LineSizes DEF Execs
<1>2. q \in Nat /\ r \in 0..TAU - 1 /\ a = q * TAU + r
  <2>1. q \in Nat /\ r \in 0..TAU - 1 /\ a = TAU * q + r
    BY <1>1, DivMod
  <2> HIDE DEF q, r
  <2> QED
    BY <1>1, <2>1, Distribute
<1> HIDE DEF q, r
<1>3. Taken(a, x) = q + IF x < r THEN 1 ELSE 0
  BY DEF Taken, q, r
<1>4. CASE r < TAU - 1
  <2>1. a + 1 = q * TAU + (r + 1) /\ r + 1 \in 0..TAU - 1
    <3> DEFINE p == q * TAU
    <3>1. p \in Nat
      BY <1>1, <1>2
    <3> HIDE DEF p
    <3> QED
      BY <1>1, <1>2, <1>4, <3>1 DEF p
  <2>2. (a + 1) \div TAU = q /\ (a + 1) % TAU = r + 1
    BY <1>1, <1>2, <2>1, DivModUnique
  <2>3. Taken(a + 1, x) = q + IF x < r + 1 THEN 1 ELSE 0
    BY <2>2 DEF Taken
  <2> QED
    BY <1>1, <1>2, <1>3, <2>3 DEF q, r
<1>5. CASE r = TAU - 1
  <2>1. a + 1 = (q + 1) * TAU + 0
    <3>1. (q + 1) * TAU = q * TAU + 1 * TAU
      BY <1>1, <1>2, Distribute
    <3> DEFINE p == q * TAU
    <3>2. p \in Nat
      BY <1>1, <1>2
    <3> HIDE DEF p
    <3> QED
      BY <1>1, <1>2, <1>5, <3>1, <3>2 DEF p
  <2>2. (a + 1) \div TAU = q + 1 /\ (a + 1) % TAU = 0
    BY <1>1, <1>2, <2>1, DivModUnique
  <2>3. Taken(a + 1, x) = q + 1
    BY <1>1, <2>2 DEF Taken
  <2> QED
    BY <1>1, <1>2, <1>3, <1>5, <2>3 DEF q, r
<1> QED
  BY <1>1, <1>2, <1>4, <1>5

\* All leaves of the tree are NB_EVALS for each execution.
LEMMA TakenEnds ==
  ASSUME NEW x \in Execs
  PROVE  Taken(0, x) = 0 /\ Taken(TAU * NB_EVALS, x) = NB_EVALS
<1>1. TAU \in Nat \ {0} /\ x \in 0..TAU - 1 /\ NB_EVALS \in Nat /\ 0 \in 0..TAU - 1
  BY LineSizes, Leaves8 DEF Execs
<1>2. 0 = 0 * TAU + 0
  BY <1>1
<1>3. TAU * NB_EVALS = NB_EVALS * TAU + 0
  BY <1>1, Distribute
<1>4. 0 \div TAU = 0 /\ 0 % TAU = 0
  BY <1>1, <1>2, DivModUnique
<1>5. (TAU * NB_EVALS) \div TAU = NB_EVALS /\ (TAU * NB_EVALS) % TAU = 0
  BY <1>1, <1>3, DivModUnique
<1> QED
  BY <1>1, <1>4, <1>5 DEF Taken

-----------------------------------------------------------------------------
(***************************************************************************)
(* The steps, one lemma for each action that computes.                     *)
(***************************************************************************)
\* Nothing is computed yet.
LEMMA LineInit == Init => LineInv
BY DEF Init, StateInit, NoKey, IsKey, LineInv, CommitInv, OpenInv, EvalInv, WorkInv

\* The leaves of an execution are derived, and the folding starts.
LEMMA LeavesOfExecStep ==
  ASSUME Control, LineInv, LeavesOfExec, UNCHANGED pass
  PROVE  LineInv'
<1> DEFINE R == WorkRows(fam, call, i_star, exec)
<1>1. TAU \in Nat \ {0} /\ NB_EVALS \in Nat /\ exec \in 0..TAU
  BY LineSizes, Leaves8 DEF Control
<1>2. AccAt(R, 0) = ZeroRow /\ BucketsAt(R, 0) = ZeroBuckets
  BY WorkAreRows, FoldStart
<1>3. ComsAt(exec, 0) = <<>>
  BY DEF ComsAt
<1>4. CacheEmpty(cache) => CacheOf(cache, exec)
  BY DEF CacheEmpty, CacheOf, EmptyCache
<1>5. CASE pc' = "group"
  <2>1. GroupAt(WorkRows(fam, call, i_star, exec), exec)'
    BY <1>1, <1>2, <1>3, <1>5 DEF LeavesOfExec, At, GroupAt, control, outputs
  <2>2. CacheOf(cache, exec)'
    BY <1>4, <1>5 DEF LeavesOfExec, At, LineInv, WorkInv
  <2> QED
    BY <1>1, <1>5, <2>1, <2>2
       DEF LeavesOfExec, At, Control, LineInv, CommitInv, OpenInv, EvalInv, WorkInv,
           Signed, Hashed, Opened, Evaluated, Checked, control, outputs, batched
<1>6. CASE pc' = "cleanup"
  BY <1>1, <1>6
     DEF LeavesOfExec, At, Fails, Control, LineInv, CommitInv, OpenInv, EvalInv, WorkInv,
         Opened, Hashed, control, outputs, batched
<1> QED
  BY <1>5, <1>6 DEF LeavesOfExec

\* In progress, the cells of the cache have the schedules of this execution.
LEMMA ScheduledExact ==
  ASSUME CacheOf(cache, exec), NEW b \in Blocks
  PROVE  Scheduled(b) = IndexIdentifier(exec, b)
BY DEF CacheOf, Scheduled

\* A group of leaves: the keys are scheduled for each, from the cache or anew,
\* and the group is folded.
LEMMA ConvertGroupStep ==
  ASSUME Control, LineInv, ConvertGroup, UNCHANGED pass
  PROVE  LineInv'
<1> DEFINE R == WorkRows(fam, call, i_star, exec)
           leaf(p) == group + p - 1
           rows == [p \in 1..GROUP |-> ExpandedRow(leaf(p))]
           pos  == [p \in 1..GROUP |-> gpos(leaf(p))]
           coms == [p \in 1..GROUP |-> LeafCommitment(leaf(p))]
           snapshots == Snapshots(acc, rows)
<1>1. /\ GROUP = 8 /\ TAU \in Nat \ {0} /\ exec \in Execs
      /\ pc = "group" /\ group < NB_EVALS /\ build.impl = "default"
      /\ call \in {"commit", "eval"}
  BY GroupAssumption, LineSizes
     DEF Control, DefaultPcs, MemoptPcs, OpenPcs, ConvertGroup, At, Execs
<1>2. /\ group \in 0..NB_EVALS /\ group % 8 = 0
      /\ acc = AccAt(R, group) /\ data_folding = BucketsAt(R, group)
      /\ ls_com = ComsAt(exec, group) /\ CacheOf(cache, exec)
  BY <1>1 DEF LineInv, WorkInv, GroupAt
<1>3. group \in Nat /\ group + 8 <= NB_EVALS /\ (group + 8) % 8 = 0
  BY <1>1, <1>2, Leaves8
<1>4. ASSUME NEW p \in 1..8
      PROVE  /\ rows[p] = R[group + p - 1]
             /\ pos[p] = get_gray_code_bit_position(group + p - 1)
             /\ coms[p] = SeedCommit(exec, Seed(exec, group + p - 1))
  <2> DEFINE i == group + p - 1
  <2>1. i \in Evals
    BY <1>3, Leaves8 DEF Evals
  <2>2. rows[p] = ExpandedRow(i) /\ pos[p] = gpos(i) /\ coms[p] = LeafCommitment(i)
    BY <1>1
  <2> HIDE DEF i, rows, pos, coms
  <2>3. ExpandedRow(i) = R[i]
    <3>1. [b \in Blocks |-> Scheduled(b)] = KeysOf(exec)
      BY <1>2, ScheduledExact DEF KeysOf
    <3> QED
      BY <2>1, <3>1, LeafRow DEF ExpandedRow
  <2>4. gpos(i) = get_gray_code_bit_position(i)
    BY <2>1, PlacesExact
  <2>5. LeafCommitment(i) = SeedCommit(exec, Seed(exec, i))
    <3>1. call = "eval" => opening.ls_com[exec] = SeedCommit(exec, Seed(exec, i_star[exec]))
      BY <1>1, PassOpened
    <3> QED
      BY <2>1, <3>1, LeafCom DEF LeafCommitment
  <2> QED
    BY <2>2, <2>3, <2>4, <2>5 DEF i
<1>5. Len(rows) = 8 /\ coms = [p \in 1..8 |-> SeedCommit(exec, Seed(exec, group + p - 1))]
  BY <1>1, <1>4
<1>6. AreRows(R)
  BY WorkAreRows
<1>7. /\ \E s \in {snapshots} : acc' = Last(s) /\ data_folding' = Bucketed(data_folding, s, pos)
      /\ ls_com' = ls_com \o coms
      /\ group' = group + 8
      /\ cache' = IF cache = NoCache THEN cache ELSE [b \in Blocks |-> Scheduled(b)]
      /\ UNCHANGED <<fam, build, oom, outputs, call, pc, exec, rc, todo, batched>>
  BY <1>1 DEF ConvertGroup, control
<1> HIDE DEF rows, pos, coms, R
<1>8. snapshots = [k \in 1..8 |-> AccAt(R, group + k)]
  <2> DEFINE n == 8
  <2>1. group \in Nat /\ n \in Nat /\ group + n <= NB_EVALS /\ RowsFrom(rows, R, group, n)
    BY <1>3, <1>4, <1>5 DEF RowsFrom
  <2> HIDE DEF n
  <2>2. Snapshots(AccAt(R, group), rows) = [k \in 1..n |-> AccAt(R, group + k)]
    BY <1>6, <2>1, SnapshotsExact
  <2> QED
    BY <1>2, <2>2 DEF n
<1>9. acc' = Last(snapshots) /\ data_folding' = Bucketed(data_folding, snapshots, pos)
  BY <1>7
<1> HIDE DEF snapshots
<1>10. acc' = AccAt(R, group + 8)
  <2>1. Len(snapshots) = 8 /\ snapshots[8] = AccAt(R, group + 8)
    BY <1>8
  <2> QED
    BY <1>9, <2>1 DEF Last
<1>11. data_folding' = BucketsAt(R, group + 8)
  <2> DEFINE n == 8
  <2>1. group \in Nat /\ n \in Nat /\ group + n <= NB_EVALS /\ PlacedFrom(snapshots, pos, R, group, n)
    BY <1>3, <1>4, <1>8 DEF PlacedFrom
  <2> HIDE DEF n
  <2>2. Bucketed(BucketsAt(R, group), snapshots, pos) = BucketsAt(R, group + n)
    BY <1>6, <2>1, BucketedExact
  <2> QED
    BY <1>2, <1>9, <2>2 DEF n
<1>12. ls_com' = ComsAt(exec, group + 8)
  <2>1. ComsAt(exec, group) \o coms = ComsAt(exec, group + 8)
    BY <1>3, <1>5, ComsExtend
  <2> QED
    BY <1>2, <1>7, <2>1
<1>13. WorkRows(fam, call, i_star, exec)' = R
  BY <1>7 DEF R, outputs
<1>14. GroupAt(WorkRows(fam, call, i_star, exec), exec)'
  BY <1>3, <1>7, <1>10, <1>11, <1>12, <1>13 DEF GroupAt
<1>15. CacheOf(cache, exec)'
  <2>1. \A b \in Blocks : Scheduled(b) = IndexIdentifier(exec, b)
    BY <1>2, ScheduledExact
  <2> QED
    BY <1>7, <2>1 DEF CacheOf
<1> QED
  BY <1>1, <1>7, <1>14, <1>15
     DEF LineInv, CommitInv, OpenInv, EvalInv, WorkInv, Signed, Hashed, Opened, Evaluated,
         Checked, outputs, batched

\* After the last group the sums are the line, or its value.
LEMMA ConvertEndStep ==
  ASSUME Control, LineInv, ConvertEnd, UNCHANGED pass
  PROVE  LineInv'
<1> DEFINE R == WorkRows(fam, call, i_star, exec)
<1>1. /\ TAU \in Nat \ {0} /\ exec \in Execs /\ exec \in Nat /\ fam \in {"CT", "OT"}
      /\ pc = "group" /\ group = NB_EVALS /\ build.impl = "default"
      /\ call \in {"commit", "eval"} /\ i_star \in [Execs -> Evals]
  BY LineSizes, BuildFacts
     DEF Control, DefaultPcs, MemoptPcs, OpenPcs, ConvertEnd, At, Execs
<1>2. /\ acc = AccAt(R, NB_EVALS) /\ data_folding = BucketsAt(R, NB_EVALS)
      /\ ls_com = ComsAt(exec, NB_EVALS)
  BY <1>1 DEF LineInv, WorkInv, GroupAt
<1>3. FoldedP0(data_folding) = BucketsAt(R, NB_EVALS)
  BY <1>2, BucketRows, FoldedP0Exact
<1>4. pc' = "hash" /\ UNCHANGED <<fam, build, oom, call, exec, rc, com1, i_star, opening, com1_v,
                                  alpha1_v, work>>
  BY DEF ConvertEnd, control
<1>5. CASE call = "commit"
  <2>1. R = RowsOf(fam, exec)
    BY <1>5 DEF WorkRows
  <2> DEFINE d == [b \in XBlocks |-> Xor(Witness[b], acc[b])]
  <2>2. /\ line' = Put(line, exec, [p0 |-> FoldedP0(data_folding), u1 |-> acc[UBlock], delta_x |-> d])
        /\ key' = [delta_x |-> Put(key.delta_x, exec, Sent(fam, d)),
                   ls_com |-> IF build.keep THEN Put(key.ls_com, exec, ls_com) ELSE <<>>]
        /\ evals' = evals
    <3>1. SignedLine(exec, FoldedP0(data_folding), acc, ls_com) /\ evals' = evals
      BY <1>5 DEF ConvertEnd, Signing
    <3> QED
      BY <3>1 DEF SignedLine
  <2>3. [p0 |-> FoldedP0(data_folding), u1 |-> acc[UBlock], delta_x |-> d] = LineOf(R)
    BY <1>2, <1>3, SignedExact
  <2>4. d = LineOf(R).delta_x
    <3> HIDE DEF d
    <3>1. [p0 |-> FoldedP0(data_folding), u1 |-> acc[UBlock], delta_x |-> d].delta_x = d
      OBVIOUS
    <3> QED
      BY <2>3, <3>1
  <2> HIDE DEF d, R
  <2>5. /\ line' = Put(line, exec, TrueLines(fam)[exec])
        /\ key'.delta_x = Put(key.delta_x, exec, TrueSents(fam)[exec])
        /\ build.keep => key'.ls_com = Put(key.ls_com, exec, TrueComs[exec])
        /\ IsKey(key')
    <3>1. /\ TrueLines(fam)[exec] = LineOf(R)
          /\ TrueSents(fam)[exec] = Sent(fam, LineOf(R).delta_x)
          /\ TrueComs[exec] = ls_com
      BY <1>1, <1>2, <2>1, TrueValues
    <3>2. line' = Put(line, exec, TrueLines(fam)[exec])
      BY <2>2, <2>3, <3>1
    <3>3. key' = [delta_x |-> Put(key.delta_x, exec, TrueSents(fam)[exec]),
                  ls_com |-> IF build.keep THEN Put(key.ls_com, exec, TrueComs[exec]) ELSE <<>>]
      BY <2>2, <2>4, <3>1
    <3> QED
      BY <3>2, <3>3 DEF IsKey
  <2>6. /\ AllHave(line, TrueLines(fam), exec) /\ AllHave(key.delta_x, TrueSents(fam), exec)
        /\ build.keep => AllHave(key.ls_com, TrueComs, exec)
        /\ ~build.keep => AllHave(com1, TrueCom1s(fam), exec)
    BY <1>1, <1>5 DEF LineInv, CommitInv, Signed, Hashed
  <2>7. AllHave(line', TrueLines(fam), exec + 1)
    BY <1>1, <2>5, <2>6, PutExtends
  <2>8. AllHave(key'.delta_x, TrueSents(fam), exec + 1)
    BY <1>1, <2>5, <2>6, PutExtends
  <2>9. build.keep => AllHave(key'.ls_com, TrueComs, exec + 1)
    BY <1>1, <2>5, <2>6, PutExtends
  <2> QED
    BY <1>1, <1>2, <1>4, <1>5, <2>2, <2>5, <2>6, <2>7, <2>8, <2>9
       DEF LineInv, CommitInv, OpenInv, EvalInv, WorkInv, Signed, Hashed, work
<1>6. CASE call = "eval"
  <2> DEFINE h == i_star[exec]
  <2>1. h \in Evals /\ R = Without(RowsOf(fam, exec), h)
    BY <1>1, <1>6 DEF WorkRows
  <2>2. /\ evals' = Put(evals, exec, EvaluatedAt(h, FoldedP0(data_folding), acc, opening.delta_x[exec]))
        /\ key' = key /\ line' = line
    BY <1>6 DEF ConvertEnd, Signing
  <2>3. opening.delta_x[exec] = Sent(fam, LineOf(RowsOf(fam, exec)).delta_x)
    BY <1>1, <1>6, PassOpened, TrueValues
  <2>4. EvaluatedAt(h, BucketsAt(R, NB_EVALS), AccAt(R, NB_EVALS),
                    Sent(fam, LineOf(RowsOf(fam, exec)).delta_x))
          = LineAt(LineOf(RowsOf(fam, exec)), h)
    <3> DEFINE S == RowsOf(fam, exec)
    <3>1. S = RowsOf(fam, exec) /\ R = Without(S, h)
      BY <2>1
    <3> HIDE DEF S, R, h
    <3>2. EvaluatedAt(h, BucketsAt(R, NB_EVALS), AccAt(R, NB_EVALS), Sent(fam, LineOf(S).delta_x))
            = LineAt(LineOf(S), h)
      BY <1>1, <2>1, <3>1, EvaluatedExact
    <3> QED
      BY <3>1, <3>2
  <2>5. evals' = Put(evals, exec, TrueEvals(fam, i_star)[exec])
    <3>1. TrueEvals(fam, i_star)[exec] = LineAt(LineOf(RowsOf(fam, exec)), h)
      BY <1>1, TrueValues
    <3> HIDE DEF R, h
    <3> QED
      BY <1>2, <1>3, <2>2, <2>3, <2>4, <3>1
  <2>6. AllHave(evals, TrueEvals(fam, i_star), exec)
    BY <1>1, <1>6 DEF LineInv, EvalInv, Evaluated
  <2>7. AllHave(evals', TrueEvals(fam, i_star), exec + 1)
    BY <1>1, <2>5, <2>6, PutExtends
  <2> HIDE DEF R, h
  <2> QED
    BY <1>1, <1>2, <1>4, <1>6, <2>2, <2>7
       DEF LineInv, CommitInv, OpenInv, EvalInv, WorkInv, Opened, Hashed, Evaluated, Checked, work,
           batched
<1> QED
  BY <1>1, <1>5, <1>6

\* The signer hashes one execution, or keeps its commitments for the end.
LEMMA HashSignStep ==
  ASSUME Control, LineInv, HashSign, UNCHANGED pass
  PROVE  LineInv'
<1>1. /\ TAU \in Nat \ {0} /\ exec \in Execs /\ exec \in Nat /\ call = "commit" /\ pc = "hash"
      /\ build.impl = "default" /\ build.keep \in BOOLEAN
  BY LineSizes, BuildFacts DEF Control, HashSign, InDefault, Execs
<1>2. ~build.keep => com1' = Put(com1, exec, TrueCom1s(fam)[exec])
  <2> SUFFICES ASSUME ~build.keep PROVE com1' = Put(com1, exec, TrueCom1s(fam)[exec])
    OBVIOUS
  <2>1. com1' = Put(com1, exec, Hash_7(exec, ls_com, key.delta_x[exec]))
    BY DEF HashSign
  <2>2. ls_com = TrueComs[exec] /\ key.delta_x[exec] = TrueSents(fam)[exec]
    BY <1>1, TrueValues DEF LineInv, CommitInv, WorkInv, Signed, AllHave
  <2> QED
    BY <1>1, <2>1, <2>2, TrueValues
<1>3. ~build.keep => AllHave(com1', TrueCom1s(fam), exec + 1)
  <2>1. ~build.keep => AllHave(com1, TrueCom1s(fam), exec)
    BY <1>1 DEF LineInv, CommitInv, Hashed
  <2> QED
    BY <1>1, <1>2, <2>1, PutExtends
<1>4. CacheEmpty(cache)'
  BY DEF HashSign, NextExec, reset_SeedExpand_cache, CacheEmpty
<1>5. /\ pc' = "loop" /\ exec' = exec + 1
      /\ UNCHANGED <<fam, build, oom, call, rc, key, line, i_star, opening>>
  BY DEF HashSign, NextExec, control
<1> QED
  BY <1>1, <1>3, <1>4, <1>5
     DEF LineInv, CommitInv, OpenInv, EvalInv, WorkInv, Signed, Hashed

\* The verifier hashes a batch when it is full, or at the last execution.
LEMMA HashEvalStep ==
  ASSUME Control, LineInv, HashEval, UNCHANGED pass
  PROVE  LineInv'
<1> DEFINE entries == Append(lsc_ptrs, [ls_com |-> ls_com, delta_x |-> opening.delta_x[exec]])
<1>1. /\ TAU \in Nat \ {0} /\ exec \in Execs /\ exec \in Nat /\ exec + 1 <= TAU
      /\ call = "eval" /\ pc = "hash" /\ build.impl = "default"
  BY LineSizes DEF Control, HashEval, InDefault, Execs
<1>2. /\ batch_start \in 0..exec /\ lsc_ptrs = Entries(fam, batch_start, exec)
      /\ AllHave(com1_v, TrueCom1s(fam), batch_start)
  BY <1>1 DEF LineInv, EvalInv, Checked
<1>3. batch_start \in Nat /\ batch_start <= exec /\ batch_start <= exec + 1
  BY <1>1, <1>2
<1>4. entries = Entries(fam, batch_start, exec + 1)
  <2>1. ls_com = TrueComs[exec] /\ opening.delta_x[exec] = TrueSents(fam)[exec]
    BY <1>1, TrueValues DEF LineInv, OpenInv, WorkInv, Opened, AllHave, Execs
  <2>2. Append(Entries(fam, batch_start, exec),
               [ls_com |-> TrueComs[exec], delta_x |-> TrueSents(fam)[exec]])
          = Entries(fam, batch_start, exec + 1)
    BY <1>1, <1>3, EntriesStep
  <2> QED
    BY <1>2, <2>1, <2>2
<1>5. CacheEmpty(cache)'
  BY DEF HashEval, NextExec, reset_SeedExpand_cache, CacheEmpty
<1>6. /\ pc' = "loop" /\ exec' = exec + 1
      /\ UNCHANGED <<fam, build, oom, call, rc, key, com1, line, i_star, opening, evals>>
  BY DEF HashEval, NextExec, control
<1>7. /\ batch_start' \in 0..exec'
      /\ lsc_ptrs' = Entries(fam, batch_start', exec')
      /\ AllHave(com1_v', TrueCom1s(fam), batch_start')
      /\ exec' = TAU => batch_start' = TAU
  <2>1. CASE Len(entries) = build.h7 \/ exec = TAU - 1
    <3>1. /\ com1_v' = Merge(com1_v, BLC_Hash_com1_batch(batch_start, entries))
          /\ lsc_ptrs' = <<>> /\ batch_start' = exec + 1
      BY <2>1 DEF HashEval
    <3> HIDE DEF entries
    <3>2. BLC_Hash_com1_batch(batch_start, entries)
            = [e \in batch_start..(exec + 1) - 1 |-> TrueCom1s(fam)[e]]
      <4> DEFINE n == exec + 1
      <4>1. batch_start \in Nat /\ n \in Nat /\ batch_start <= n /\ n <= TAU
        BY <1>1, <1>3
      <4>2. entries = Entries(fam, batch_start, n)
        BY <1>4
      <4> HIDE DEF n
      <4>3. BLC_Hash_com1_batch(batch_start, entries) = [e \in batch_start..n - 1 |-> TrueCom1s(fam)[e]]
        BY <4>1, <4>2, HashedEntries
      <4> QED
        BY <4>3 DEF n
    <3>3. AllHave(com1_v', TrueCom1s(fam), exec + 1)
      <4> DEFINE g == BLC_Hash_com1_batch(batch_start, entries)
      <4>1. /\ DOMAIN g = batch_start..(exec + 1) - 1
            /\ \A e \in batch_start..(exec + 1) - 1 : g[e] = TrueCom1s(fam)[e]
        BY <3>2
      <4>2. com1_v' = Merge(com1_v, g) /\ exec + 1 \in Nat
        BY <1>1, <3>1
      <4> HIDE DEF g
      <4> QED
        BY <1>2, <1>3, <4>1, <4>2, MergeExtends
    <3>4. <<>> = Entries(fam, exec + 1, exec + 1)
      BY <1>1 DEF Entries
    <3> QED
      BY <1>1, <1>6, <3>1, <3>3, <3>4
  <2>2. CASE ~(Len(entries) = build.h7 \/ exec = TAU - 1)
    <3>1. lsc_ptrs' = entries /\ com1_v' = com1_v /\ batch_start' = batch_start
      BY <2>2 DEF HashEval
    <3> HIDE DEF entries
    <3>2. exec + 1 # TAU
      BY <1>1, <2>2
    <3> QED
      BY <1>1, <1>2, <1>3, <1>4, <1>6, <3>1, <3>2
  <2> QED
    BY <2>1, <2>2
<1> HIDE DEF entries
<1> QED
  BY <1>1, <1>5, <1>6, <1>7
     DEF LineInv, CommitInv, OpenInv, EvalInv, WorkInv, Opened, Hashed, Evaluated, Checked

\* After the last execution: the kept commitments are hashed, alpha1 is parsed.
LEMMA LoopEndStep ==
  ASSUME Control, LineInv, LoopEnd, UNCHANGED pass
  PROVE  LineInv'
<1>1. /\ TAU \in Nat \ {0} /\ exec = TAU /\ call \in {"commit", "eval"} /\ pc = "loop"
      /\ build.impl = "default" /\ build.keep \in BOOLEAN
  BY LineSizes, BuildFacts DEF Control, DefaultPcs, MemoptPcs, OpenPcs, LoopEnd, At
<1>2. /\ pc' = "cleanup" /\ rc' = 0
      /\ UNCHANGED <<fam, build, oom, call, exec, key, line, i_star, opening, com1_v, evals>>
  BY DEF LoopEnd, control
<1>3. CASE call = "commit"
  <2>1. /\ AllHave(line, TrueLines(fam), TAU) /\ AllHave(key.delta_x, TrueSents(fam), TAU)
        /\ build.keep => AllHave(key.ls_com, TrueComs, TAU)
        /\ ~build.keep => AllHave(com1, TrueCom1s(fam), TAU)
    BY <1>1, <1>3 DEF LineInv, CommitInv, Signed, Hashed
  <2>2. AllHave(com1', TrueCom1s(fam), TAU)
    <3>1. CASE ~build.keep
      BY <1>3, <2>1, <3>1 DEF LoopEnd
    <3>2. CASE build.keep
      <4> DEFINE s == [k \in 1..TAU |-> [ls_com |-> key.ls_com[k - 1], delta_x |-> key.delta_x[k - 1]]]
      <4>1. com1' = BLC_Hash_com1_batch(0, s)
        BY <1>3, <3>2 DEF LoopEnd, Signing
      <4>2. s = Entries(fam, 0, TAU)
        <5>1. ASSUME NEW k \in 1..TAU
              PROVE  key.ls_com[k - 1] = TrueComs[0 + k - 1] /\ key.delta_x[k - 1] = TrueSents(fam)[0 + k - 1]
          <6>1. k - 1 \in 0..TAU - 1 /\ 0 + k - 1 = k - 1
            BY <1>1
          <6> QED
            BY <2>1, <3>2, <6>1 DEF AllHave
        <5>2. 1..TAU - 0 = 1..TAU
          BY <1>1
        <5> QED
          BY <5>1, <5>2 DEF Entries
      <4> HIDE DEF s
      <4>3. BLC_Hash_com1_batch(0, s) = [e \in 0..TAU - 1 |-> TrueCom1s(fam)[e]]
        <5> DEFINE b == 0
                   n == TAU
        <5>1. b \in Nat /\ n \in Nat /\ b <= n /\ n <= TAU
          BY <1>1
        <5>2. s = Entries(fam, b, n)
          BY <4>2
        <5> HIDE DEF b, n
        <5>3. BLC_Hash_com1_batch(b, s) = [e \in b..n - 1 |-> TrueCom1s(fam)[e]]
          BY <5>1, <5>2, HashedEntries
        <5> QED
          BY <5>3 DEF b, n
      <4> QED
        BY <4>1, <4>3 DEF AllHave
    <3> QED
      BY <3>1, <3>2
  <2> QED
    BY <1>1, <1>2, <1>3, <2>1, <2>2
       DEF LineInv, CommitInv, OpenInv, EvalInv, WorkInv, Signed, Hashed
<1>4. CASE call = "eval"
  <2>1. com1' = com1 /\ alpha1_v' = opening.alpha1
    BY <1>4 DEF LoopEnd, Signing, ParsedAlpha1
  <2> QED
    BY <1>1, <1>2, <1>4, <2>1
       DEF LineInv, CommitInv, OpenInv, EvalInv, WorkInv, Opened, Hashed, Evaluated, Checked
<1> QED
  BY <1>1, <1>3, <1>4

\* Open: the commitment of the hidden leaf, kept or computed again.
LEMMA OpenExecStep ==
  ASSUME Control, LineInv, OpenExec, UNCHANGED <<work, pass>>
  PROVE  LineInv'
<1>1. /\ TAU \in Nat \ {0} /\ exec \in 0..TAU /\ exec \in Nat /\ call = "open" /\ pc = "open"
      /\ build.keep \in BOOLEAN /\ i_star \in [Execs -> Evals]
  BY LineSizes, BuildFacts DEF Control, OpenExec
<1>2. UNCHANGED <<fam, build, oom, call, key, com1, line, i_star, com1_v, evals, alpha1_v>>
  BY DEF OpenExec, control
<1>3. CASE /\ exec < TAU
           /\ opening' = [ls_com  |-> Put(opening.ls_com, exec, HiddenCommitment(exec)),
                          delta_x |-> Put(opening.delta_x, exec, key.delta_x[exec]),
                          alpha1  |-> Put(opening.alpha1, exec, Alpha1[exec])]
           /\ exec' = exec + 1 /\ rc' = 0 /\ pc' = pc
  <2>1. exec \in Execs
    BY <1>1, <1>3 DEF Execs
  <2>2. HiddenCommitment(exec) = TrueHidden(i_star)[exec]
    <3>1. TrueHidden(i_star)[exec] = SeedCommit(exec, Seed(exec, i_star[exec]))
      BY <2>1, TrueValues
    <3>2. CASE build.keep
      <4>1. key.ls_com[exec] = ComsAt(exec, NB_EVALS)
        BY <1>1, <2>1, <3>2, TrueValues DEF LineInv, OpenInv, AllHave, Execs
      <4>2. i_star[exec] + 1 \in 1..NB_EVALS /\ (i_star[exec] + 1) - 1 = i_star[exec]
        BY <1>1, <2>1, Leaves8 DEF Evals
      <4>3. ComsAt(exec, NB_EVALS)[i_star[exec] + 1] = SeedCommit(exec, Seed(exec, i_star[exec]))
        BY <4>2 DEF ComsAt
      <4> QED
        BY <3>1, <3>2, <4>1, <4>3 DEF HiddenCommitment
    <3>3. CASE ~build.keep
      BY <3>1, <3>3 DEF HiddenCommitment
    <3> QED
      BY <3>2, <3>3
  <2>3. key.delta_x[exec] = TrueSents(fam)[exec]
    BY <1>1, <2>1 DEF LineInv, OpenInv, AllHave, Execs
  <2>4. /\ AllHave(opening.ls_com, TrueHidden(i_star), exec)
        /\ AllHave(opening.delta_x, TrueSents(fam), exec)
        /\ AllHave(opening.alpha1, Alpha1, exec)
    BY <1>1 DEF LineInv, OpenInv, Opened
  <2>5. /\ opening'.ls_com = Put(opening.ls_com, exec, TrueHidden(i_star)[exec])
        /\ opening'.delta_x = Put(opening.delta_x, exec, TrueSents(fam)[exec])
        /\ opening'.alpha1 = Put(opening.alpha1, exec, Alpha1[exec])
    BY <1>3, <2>2, <2>3
  <2>6. AllHave(opening'.ls_com, TrueHidden(i_star), exec + 1)
    BY <1>1, <2>4, <2>5, PutExtends
  <2>7. AllHave(opening'.delta_x, TrueSents(fam), exec + 1)
    BY <1>1, <2>4, <2>5, PutExtends
  <2>8. AllHave(opening'.alpha1, Alpha1, exec + 1)
    BY <1>1, <2>4, <2>5, PutExtends
  <2> QED
    BY <1>1, <1>2, <1>3, <2>6, <2>7, <2>8
       DEF LineInv, CommitInv, OpenInv, EvalInv, WorkInv, Opened, Hashed
<1>4. CASE exec = TAU /\ pc' = "cleanup" /\ rc' = 0 /\ opening' = opening /\ exec' = exec
  BY <1>1, <1>2, <1>4 DEF LineInv, CommitInv, OpenInv, EvalInv, WorkInv, Opened, Hashed
<1>5. CASE pc' = "cleanup" /\ rc' = -1 /\ opening' = opening /\ exec' = exec
  BY <1>1, <1>2, <1>5 DEF LineInv, CommitInv, OpenInv, EvalInv, WorkInv, Opened, Hashed
<1> QED
  BY <1>3, <1>4, <1>5 DEF OpenExec, Fails

-----------------------------------------------------------------------------
(***************************************************************************)
(* The low-memory build: a pass over Batch executions.                     *)
(***************************************************************************)
\* The next multiple.
LEMMA MultipleStep ==
  ASSUME NEW d \in Nat \ {0}, NEW a \in Nat, NEW b \in Nat, a % d = 0, b % d = 0, a < b
  PROVE  a + d <= b /\ (a + d) % d = 0
<1> DEFINE p == a \div d
           q == b \div d
<1>1. /\ p \in Nat /\ q \in Nat /\ a = d * p + (a % d) /\ b = d * q + (b % d)
  BY DivMod
<1> HIDE DEF p, q
<1>2. a = p * d /\ b = q * d
  <2>1. a = d * p /\ b = d * q
    <3> DEFINE x == d * p
               y == d * q
    <3>1. x \in Nat /\ y \in Nat /\ a = x + 0 /\ b = y + 0
      BY <1>1
    <3> HIDE DEF x, y
    <3>2. a = x /\ b = y
      BY <3>1
    <3> QED
      BY <3>2 DEF x, y
  <2> QED
    BY <1>1, <2>1, Distribute
<1>3. (p + 1) * d = a + d
  <2>1. (p + 1) * d = p * d + 1 * d
    BY <1>1, Distribute
  <2>2. 1 * d = d
    OBVIOUS
  <2> QED
    BY <1>2, <2>1, <2>2
<1>4. (a + d) % d = 0
  <2>1. ((p + 1) * d) % d = 0
    BY <1>1, MultipleMod
  <2> QED
    BY <1>3, <2>1
<1>5. p + 1 <= q
  <2>1. CASE q <= p
    <3>1. q * d <= p * d
      BY <1>1, <2>1, MultMonotone
    <3> QED
      BY <1>2, <3>1
  <2> QED
    BY <1>1, <2>1
<1>6. (p + 1) * d <= q * d
  BY <1>1, <1>5, MultMonotone
<1> QED
  BY <1>2, <1>3, <1>4, <1>6

\* What is less than a divisor below a multiple, and a multiple too, is it.
LEMMA LastMultiple ==
  ASSUME NEW d \in Nat \ {0}, NEW n \in Nat, n % d = 0, NEW k \in Nat, n - k * d \in 0..d - 1
  PROVE  k * d = n
<1> DEFINE p == k * d
           r == n - p
<1>1. p \in Nat /\ r \in 0..d - 1 /\ n = p + r
  <2>1. p \in Nat
    OBVIOUS
  <2> HIDE DEF p
  <2>2. r \in 0..d - 1
    BY DEF p
  <2> QED
    BY <2>1, <2>2
<1> HIDE DEF r
<1>2. n % d = r
  BY <1>1, DivModUnique
<1> HIDE DEF p
<1>3. n = p
  BY <1>1, <1>2
<1> QED
  BY <1>3 DEF p

\* What a pass is made of: executions, leaves and sizes that divide them.
LEMMA PassSizes ==
  ASSUME Control, build.impl = "memopt"
  PROVE  /\ TAU \in Nat \ {0} /\ NB_EVALS \in Nat \ {0} /\ fam \in {"CT", "OT"}
         /\ exec \in Nat /\ Leaves \in Nat /\ ~build.keep
         /\ build.par \in Nat \ {0} /\ build.sim \in Nat \ {0} /\ build.fast \in BOOLEAN
         /\ NB_EVALS % build.par = 0 /\ NB_EVALS % build.sim = 0 /\ build.sim % build.par = 0
         /\ exec < TAU => /\ Batch \in Nat \ {0} /\ exec + Batch <= TAU
                          /\ \A b \in Slots : b \in Nat /\ exec + b \in Execs
<1>1. /\ TAU \in Nat \ {0} /\ NB_EVALS \in Nat \ {0} /\ fam \in {"CT", "OT"} /\ exec \in 0..TAU
      /\ build.par \in Nat \ {0} /\ build.sim \in Nat \ {0} /\ build.fast \in BOOLEAN
      /\ ~build.keep /\ NB_EVALS % build.par = 0 /\ NB_EVALS % build.sim = 0
      /\ build.sim % build.par = 0
  BY LineSizes, Leaves8, BuildFacts DEF Control
<1>2. TAU * NB_EVALS \in Nat
  BY <1>1
<1>3. exec < TAU => Batch \in 1..TAU - exec
  BY BatchSize
<1>4. Leaves \in Nat
  BY <1>1, <1>2 DEF Leaves
<1>5. exec < TAU => \A b \in Slots : b \in Nat /\ exec + b \in Execs
  BY <1>1, <1>3 DEF Slots, Execs
<1> QED
  BY <1>1, <1>3, <1>4, <1>5

\* A pass that goes on changes its streams only.
LEMMA OnlyStreams ==
  ASSUME Control, LineInv, build.impl = "memopt", call \in {"commit", "eval"},
         pc \in {"pass", "leaves"}, pc' = "leaves",
         UNCHANGED <<control, outputs, call, exec>>, Streams'
  PROVE  LineInv'
BY DEF Control, MemoptPcs, LineInv, CommitInv, OpenInv, EvalInv, WorkInv, Signed, Hashed, Opened,
       Evaluated, Checked, control, outputs

\* A pass starts with empty streams.
LEMMA InitPassStep ==
  ASSUME Control, LineInv, InitPass, UNCHANGED work
  PROVE  LineInv'
<1>1. /\ build.impl = "memopt" /\ call \in {"commit", "eval"} /\ pc = "pass" /\ exec < TAU
      /\ UNCHANGED <<control, outputs, call, exec>>
  BY DEF InitPass, InMemopt
<1>2. CASE pc' = "leaves"
  <2>0. /\ TAU \in Nat \ {0} /\ fam \in {"CT", "OT"} /\ Leaves \in Nat
        /\ build.par \in Nat \ {0} /\ build.sim \in Nat \ {0}
        /\ \A b \in Slots : b \in Nat /\ exec + b \in Execs
    BY <1>1, PassSizes
  <2>1. /\ sc' = [b \in Slots |-> InitSeedCommit(exec + b)]
        /\ fold' = [b \in Slots |-> InitializeFolding(exec + b)]
        /\ lseed_buf' = [b \in Slots |-> <<>>]
        /\ flush_count' = [b \in Slots |-> 0]
        /\ abs_leaf' = 0
    BY DEF InitPass
  <2>2. Slots' = Slots /\ Leaves' = Leaves /\ fam' = fam /\ build' = build /\ exec' = exec
        /\ call' = call /\ i_star' = i_star
    BY <1>1 DEF Slots, Batch, Leaves, control, outputs
  <2>3. \A b \in Slots : Flushed(b)' = 0
    BY <2>0, <2>1, <2>2 DEF Flushed
  <2>4. \A e : InitSeedCommit(e) = Absorbed(e, 0)
    BY DEF InitSeedCommit, Absorbed, ComsAt
  <2>5. \A e : InitializeFolding(e) =
                 Folded(build.fast, WorkRows(fam, call, i_star, e), e, 0)
    <3> SUFFICES ASSUME NEW e
                 PROVE  InitializeFolding(e) = Folded(build.fast, WorkRows(fam, call, i_star, e), e, 0)
      OBVIOUS
    <3> DEFINE R == WorkRows(fam, call, i_star, e)
    <3>1. AccAt(R, 0) = ZeroRow /\ BucketsAt(R, 0) = ZeroBuckets /\ BucketsAt(R, 0) = ZeroExt
      BY WorkAreRows, FoldStart
    <3> HIDE DEF R
    <3>2. InitializeFolding(e) = Folded(build.fast, R, e, 0)
      BY <3>1 DEF InitializeFolding, Folded
    <3> QED
      BY <3>2 DEF R
  <2>6. \A b \in Slots : Taken(0, exec + b) = 0
    BY <2>0, TakenEnds
  <2>7. /\ sc' = [b \in Slots |-> Absorbed(exec + b, Flushed(b)')]
        /\ fold' = [b \in Slots |-> Folded(build.fast, WorkRows(fam, call, i_star, exec + b),
                                           exec + b, Flushed(b)')]
    BY <2>1, <2>3, <2>4, <2>5
  <2>8. /\ flush_count' \in [Slots -> Nat]
        /\ \A b \in Slots : Taken(0, exec + b) - Flushed(b)' \in 0..build.par - 1
        /\ lseed_buf' = [b \in Slots |->
             [k \in 1..Taken(0, exec + b) - Flushed(b)' |->
                LeafSeed(exec + b, Flushed(b) + k - 1)']]
    <3>1. flush_count' \in [Slots -> Nat]
      BY <2>1
    <3>2. \A b \in Slots : Taken(0, exec + b) - Flushed(b)' = 0
      BY <2>3, <2>6
    <3>3. \A b \in Slots : [k \in 1..Taken(0, exec + b) - Flushed(b)' |->
                              LeafSeed(exec + b, Flushed(b) + k - 1)'] = <<>>
      BY <3>2
    <3> QED
      BY <2>0, <2>1, <3>1, <3>2, <3>3
  <2>9. 0 % build.sim = 0 /\ 0 \in 0..Leaves
    BY <2>0
  <2>10. Streams'
    BY <2>1, <2>2, <2>7, <2>8, <2>9 DEF Streams
  <2> QED
    BY <1>1, <1>2, <2>10, OnlyStreams
<1>3. CASE pc' = "pass_err" /\ rc' = -1
  BY <1>1, <1>3
     DEF LineInv, CommitInv, OpenInv, EvalInv, WorkInv, Opened, Hashed, control, outputs
<1> QED
  BY <1>2, <1>3 DEF InitPass, Fails

\* A leaf of an execution of another pass is passed over.
LEMMA SkipLeafStep ==
  ASSUME Control, LineInv, SkipLeaf, UNCHANGED work
  PROVE  LineInv'
<1>1. /\ build.impl = "memopt" /\ call \in {"commit", "eval"} /\ pc = "leaves" /\ pc' = "leaves"
      /\ UNCHANGED <<control, outputs, call, exec, streams>>
      /\ fam = "OT" /\ abs_leaf < Leaves /\ abs_leaf' = abs_leaf + 1
      /\ abs_leaf % TAU \notin exec..exec + Batch - 1
  BY DEF SkipLeaf, InMemopt, exec_e
<1>2. exec < TAU /\ Streams
  BY <1>1 DEF Control, LineInv, WorkInv
<1>3. /\ TAU \in Nat \ {0} /\ exec \in Nat /\ Leaves \in Nat /\ Batch \in Nat \ {0}
      /\ \A b \in Slots : b \in Nat /\ exec + b \in Execs
  BY <1>1, <1>2, PassSizes
<1>4. abs_leaf \in 0..Leaves /\ abs_leaf \in Nat /\ abs_leaf + 1 \in 0..Leaves
  BY <1>1, <1>2, <1>3 DEF Streams
<1>5. \A b \in Slots : Taken(abs_leaf + 1, exec + b) = Taken(abs_leaf, exec + b)
  <2> SUFFICES ASSUME NEW b \in Slots
               PROVE  Taken(abs_leaf + 1, exec + b) = Taken(abs_leaf, exec + b)
    OBVIOUS
  <2>1. exec + b \in Execs /\ exec + b # abs_leaf % TAU
    BY <1>1, <1>3 DEF Slots
  <2>2. /\ Taken(abs_leaf, exec + b) \in Nat
        /\ Taken(abs_leaf + 1, exec + b) =
             Taken(abs_leaf, exec + b) + IF exec + b = abs_leaf % TAU THEN 1 ELSE 0
    BY <1>4, <2>1, TakenStep
  <2> QED
    BY <2>1, <2>2
<1>6. Slots' = Slots /\ Leaves' = Leaves /\ fam' = fam /\ build' = build /\ exec' = exec
      /\ call' = call /\ i_star' = i_star
      /\ \A b : Flushed(b)' = Flushed(b)
      /\ \A e, i : LeafSeed(e, i)' = LeafSeed(e, i)
  BY <1>1 DEF Slots, Batch, Leaves, Flushed, LeafSeed, HiddenOf, control, outputs, streams
<1>7. Streams'
  BY <1>1, <1>2, <1>4, <1>5, <1>6 DEF Streams, streams
<1> QED
  BY <1>1, <1>7, OnlyStreams

\* The chunks of `sim` leaves, in terms of the streams of the one slot.
LEMMA Chunks ==
  ASSUME Control, LineInv, build.impl = "memopt", exec \in Execs,
         NEW m \in Nat, m + build.sim <= NB_EVALS, NEW n, n = build.sim \div build.par,
         NEW R, R = WorkRows(fam, call, i_star, exec)
  PROVE  /\ n \in Nat /\ n * build.par = build.sim
         /\ \A c \in 1..n :
              LET i == m + (c - 1) * build.par
                  seeds == [k \in 1..build.par |-> LeafSeed(exec, i + k - 1)]
              IN  /\ SeedCommitThenAbsorb(Absorbed(exec, m + (c - 1) * build.par), i, seeds)
                       = Absorbed(exec, m + c * build.par)
                  /\ SeedExpandThenAccumulate(
                       Folded(build.fast, R, exec, m + (c - 1) * build.par), i, seeds)
                       = Folded(build.fast, R, exec, m + c * build.par)
<1> DEFINE d == build.par
           w == build.sim
<1>1. d \in Nat \ {0} /\ w \in Nat \ {0} /\ w % d = 0 /\ build.fast \in BOOLEAN
  BY PassSizes
<1>2. n \in Nat /\ w = n * d
  <2>1. n = w \div d
    OBVIOUS
  <2> HIDE DEF d, w
  <2>2. w \div d \in Nat /\ w = d * (w \div d) + (w % d)
    BY <1>1, DivMod
  <2>3. n \in Nat /\ w = d * n + 0
    BY <1>1, <2>1, <2>2
  <2>4. w = d * n
    <3> DEFINE p == d * n
    <3>1. p \in Nat /\ w = p + 0
      BY <1>1, <2>3
    <3> HIDE DEF p
    <3>2. w = p
      BY <3>1
    <3> QED
      BY <3>2 DEF p
  <2> QED
    BY <1>1, <2>3, <2>4, Distribute
<1>3. ASSUME NEW c \in 1..n
      PROVE  /\ (c - 1) * d \in Nat /\ c * d \in Nat /\ c * d = (c - 1) * d + d /\ c * d <= w
  <2> HIDE DEF d, w
  <2>1. c \in Nat /\ c - 1 \in Nat /\ c = (c - 1) + 1 /\ c <= n
    BY <1>2
  <2>2. ((c - 1) + 1) * d = (c - 1) * d + 1 * d
    BY <1>1, <2>1, Distribute
  <2>3. 1 * d = d
    BY <1>1
  <2>4. c * d <= n * d
    BY <1>1, <1>2, <2>1, MultMonotone
  <2>5. (c - 1) * d \in Nat /\ c * d \in Nat
    BY <1>1, <2>1
  <2> QED
    BY <1>2, <2>1, <2>2, <2>3, <2>4, <2>5
<1>4. ASSUME NEW c \in 1..n
      PROVE  LET i == m + (c - 1) * d
                 seeds == [k \in 1..d |-> LeafSeed(exec, i + k - 1)]
             IN  /\ SeedCommitThenAbsorb(Absorbed(exec, i), i, seeds) = Absorbed(exec, m + c * d)
                 /\ SeedExpandThenAccumulate(Folded(build.fast, R, exec, i), i, seeds)
                      = Folded(build.fast, R, exec, m + c * d)
  <2> DEFINE i == m + (c - 1) * d
             j == m + c * d
             seeds == [k \in 1..d |-> LeafSeed(exec, i + k - 1)]
  <2>1. i \in Nat /\ j = i + d /\ i + d <= NB_EVALS
    <3> DEFINE p == (c - 1) * d
               q == c * d
    <3>1. p \in Nat /\ q \in Nat /\ q = p + d /\ q <= w
      BY <1>3
    <3> HIDE DEF p, q
    <3>2. m + p \in Nat /\ m + q = (m + p) + d /\ m + q <= NB_EVALS
      BY <1>1, <3>1, Leaves8
    <3> QED
      BY <3>2 DEF p, q
  <2>2. seeds = SeedsOf(exec, i, d)
    BY DEF SeedsOf
  <2>3. call = "eval" => opening.ls_com[exec] = SeedCommit(exec, Seed(exec, i_star[exec]))
    BY PassOpened
  <2> HIDE DEF i, j, d, seeds
  <2>4. SeedCommitThenAbsorb(Absorbed(exec, i), i, SeedsOf(exec, i, d)) = Absorbed(exec, i + d)
    BY <1>1, <2>1, <2>3, AbsorbStep
  <2>5. SeedExpandThenAccumulate(Folded(build.fast, R, exec, i), i, SeedsOf(exec, i, d))
          = Folded(build.fast, R, exec, i + d)
    BY <1>1, <2>1, AccumulateStep
  <2>6. /\ SeedCommitThenAbsorb(Absorbed(exec, i), i, seeds) = Absorbed(exec, j)
        /\ SeedExpandThenAccumulate(Folded(build.fast, R, exec, i), i, seeds)
             = Folded(build.fast, R, exec, j)
    BY <2>1, <2>2, <2>4, <2>5
  <2> QED
    BY <2>6 DEF i, j, seeds
<1> QED
  BY <1>2, <1>4

\* The next leaves of a correlated tree are committed to and folded.
LEMMA NextLeafsStep ==
  ASSUME Control, LineInv, NextLeafs, UNCHANGED work
  PROVE  LineInv'
<1> DEFINE R == WorkRows(fam, call, i_star, exec)
           n == build.sim \div build.par
           m == abs_leaf
           first(c) == m + (c - 1) * build.par
           seeds(c) == [k \in 1..build.par |-> LeafSeed(exec, first(c) + k - 1)]
<1>1. /\ build.impl = "memopt" /\ call \in {"commit", "eval"} /\ pc = "leaves" /\ pc' = "leaves"
      /\ UNCHANGED <<control, outputs, call, exec, flush_count, lseed_buf>>
      /\ fam = "CT" /\ m < Leaves /\ abs_leaf' = m + build.sim
  BY DEF NextLeafs, InMemopt
<1>2. exec < TAU /\ Streams
  BY <1>1 DEF Control, LineInv, WorkInv
<1>3. /\ TAU \in Nat \ {0} /\ exec \in Nat /\ Leaves = NB_EVALS /\ NB_EVALS \in Nat
      /\ build.sim \in Nat \ {0} /\ NB_EVALS % build.sim = 0 /\ Slots = {0} /\ exec \in Execs
      /\ build.par \in Nat \ {0}
  <2>1. Slots = {0} /\ Leaves = NB_EVALS
    BY <1>1 DEF Slots, Batch, Leaves
  <2> QED
    BY <1>1, <1>2, <2>1, PassSizes DEF Execs
<1>4. /\ m \in Nat /\ m % build.sim = 0 /\ m < NB_EVALS
      /\ sc = [b \in {0} |-> Absorbed(exec, m)]
      /\ fold = [b \in {0} |-> Folded(build.fast, R, exec, m)]
  <2>1. exec + 0 = exec
    BY <1>3
  <2> QED
    BY <1>1, <1>2, <1>3, <2>1 DEF Streams, Flushed
<1>5. m + build.sim <= NB_EVALS /\ (m + build.sim) % build.sim = 0
  BY <1>3, <1>4, MultipleStep
<1>6. /\ n \in Nat /\ n * build.par = build.sim
      /\ \A c \in 1..n :
           /\ SeedCommitThenAbsorb(Absorbed(exec, m + (c - 1) * build.par), first(c), seeds(c))
                = Absorbed(exec, m + c * build.par)
           /\ SeedExpandThenAccumulate(
                Folded(build.fast, R, exec, m + (c - 1) * build.par), first(c), seeds(c))
                = Folded(build.fast, R, exec, m + c * build.par)
  BY <1>1, <1>3, <1>4, <1>5, Chunks
<1> HIDE DEF R, n, seeds, first
<1> DEFINE gs == [c \in 0..n |-> Absorbed(exec, m + c * build.par)]
           gf == [c \in 0..n |-> Folded(build.fast, R, exec, m + c * build.par)]
<1>7. 0 * build.par = 0 /\ m + 0 = m
  BY <1>3, <1>4
<1>8. gs = [c \in 0..n |-> IF c = 0 THEN sc[0] ELSE SeedCommitThenAbsorb(gs[c - 1], first(c), seeds(c))]
  <2>1. gs[0] = sc[0]
    BY <1>4, <1>6, <1>7
  <2>2. \A c \in 1..n : gs[c] = SeedCommitThenAbsorb(gs[c - 1], first(c), seeds(c))
    BY <1>6
  <2>3. gs = [c \in 0..n |-> gs[c]] /\ \A c \in 0..n : c = 0 \/ c \in 1..n
    BY <1>6
  <2> HIDE DEF gs
  <2>4. \A c \in 0..n : gs[c] = IF c = 0 THEN sc[0] ELSE SeedCommitThenAbsorb(gs[c - 1], first(c), seeds(c))
    BY <2>1, <2>2, <2>3
  <2> QED
    BY <2>3, <2>4
<1>9. gf = [c \in 0..n |-> IF c = 0 THEN fold[0] ELSE SeedExpandThenAccumulate(gf[c - 1], first(c), seeds(c))]
  <2>1. gf[0] = fold[0]
    BY <1>4, <1>6, <1>7
  <2>2. \A c \in 1..n : gf[c] = SeedExpandThenAccumulate(gf[c - 1], first(c), seeds(c))
    BY <1>6
  <2>3. gf = [c \in 0..n |-> gf[c]] /\ \A c \in 0..n : c = 0 \/ c \in 1..n
    BY <1>6
  <2> HIDE DEF gf
  <2>4. \A c \in 0..n : gf[c] = IF c = 0 THEN fold[0] ELSE SeedExpandThenAccumulate(gf[c - 1], first(c), seeds(c))
    BY <2>1, <2>2, <2>3
  <2> QED
    BY <2>3, <2>4
<1>10. /\ gs[n] = Absorbed(exec, m + build.sim)
       /\ gf[n] = Folded(build.fast, R, exec, m + build.sim)
  BY <1>6
<1> HIDE DEF gs, gf
<1>11. \E s, f :
         /\ s = [c \in 0..n |-> IF c = 0 THEN sc[0] ELSE SeedCommitThenAbsorb(s[c - 1], first(c), seeds(c))]
         /\ f = [c \in 0..n |-> IF c = 0 THEN fold[0] ELSE SeedExpandThenAccumulate(f[c - 1], first(c), seeds(c))]
         /\ sc' = [sc EXCEPT ![0] = s[n]]
         /\ fold' = [fold EXCEPT ![0] = f[n]]
  BY <1>8, <1>9 DEF NextLeafs, n, first, seeds
<1>12. PICK s, f :
         /\ s = [c \in 0..n |-> IF c = 0 THEN sc[0] ELSE SeedCommitThenAbsorb(s[c - 1], first(c), seeds(c))]
         /\ f = [c \in 0..n |-> IF c = 0 THEN fold[0] ELSE SeedExpandThenAccumulate(f[c - 1], first(c), seeds(c))]
         /\ sc' = [sc EXCEPT ![0] = s[n]]
         /\ fold' = [fold EXCEPT ![0] = f[n]]
  BY <1>11
<1>13. s[n] = gs[n]
  <2>1. s[0] = gs[0]
    BY <1>6, <1>8, <1>12
  <2>2. ASSUME NEW c \in 1..n, s[c - 1] = gs[c - 1] PROVE s[c] = gs[c]
    <3>1. c \in 0..n /\ c # 0
      BY <1>6
    <3>2. s[c] = SeedCommitThenAbsorb(s[c - 1], first(c), seeds(c))
      BY <1>12, <3>1
    <3>3. gs[c] = SeedCommitThenAbsorb(gs[c - 1], first(c), seeds(c))
      BY <1>8, <3>1
    <3> QED
      BY <2>2, <3>2, <3>3
  <2>3. GoAlike(s, gs, n)
    BY <2>1, <2>2 DEF GoAlike
  <2>4. \A c \in 0..n : s[c] = gs[c]
    BY <1>6, <2>3, AlikeThroughout
  <2> QED
    BY <1>6, <2>4
<1>14. f[n] = gf[n]
  <2>1. f[0] = gf[0]
    BY <1>6, <1>9, <1>12
  <2>2. ASSUME NEW c \in 1..n, f[c - 1] = gf[c - 1] PROVE f[c] = gf[c]
    <3>1. c \in 0..n /\ c # 0
      BY <1>6
    <3>2. f[c] = SeedExpandThenAccumulate(f[c - 1], first(c), seeds(c))
      BY <1>12, <3>1
    <3>3. gf[c] = SeedExpandThenAccumulate(gf[c - 1], first(c), seeds(c))
      BY <1>9, <3>1
    <3> QED
      BY <2>2, <3>2, <3>3
  <2>3. GoAlike(f, gf, n)
    BY <2>1, <2>2 DEF GoAlike
  <2>4. \A c \in 0..n : f[c] = gf[c]
    BY <1>6, <2>3, AlikeThroughout
  <2> QED
    BY <1>6, <2>4
<1>15. /\ sc' = [b \in {0} |-> Absorbed(exec, m + build.sim)]
       /\ fold' = [b \in {0} |-> Folded(build.fast, R, exec, m + build.sim)]
  BY <1>4, <1>10, <1>12, <1>13, <1>14
<1>16. Slots' = Slots /\ Leaves' = Leaves /\ fam' = fam /\ build' = build /\ exec' = exec
       /\ call' = call /\ i_star' = i_star /\ \A b : Flushed(b)' = m + build.sim
       /\ WorkRows(fam, call, i_star, exec)' = R
  BY <1>1 DEF Slots, Batch, Leaves, Flushed, control, outputs, R
<1>17. m + build.sim \in 0..Leaves /\ exec + 0 = exec
  BY <1>3, <1>4, <1>5
<1>18. Streams'
  <2>1. fam' # "OT"
    BY <1>1, <1>16
  <2>2. abs_leaf' \in 0..Leaves' /\ abs_leaf' % build'.sim = 0
    BY <1>1, <1>5, <1>16, <1>17
  <2>3. sc' = [b \in Slots' |-> Absorbed(exec' + b, Flushed(b)')]
    BY <1>3, <1>15, <1>16, <1>17
  <2>4. fold' = [b \in Slots' |-> Folded(build'.fast, WorkRows(fam', call', i_star', exec' + b),
                                         exec' + b, Flushed(b)')]
    BY <1>3, <1>15, <1>16, <1>17 DEF R
  <2> QED
    BY <2>1, <2>2, <2>3, <2>4 DEF Streams
<1> QED
  BY <1>1, <1>18, OnlyStreams

\* A leaf of an interleaved tree is buffered for its execution, and a full
\* buffer is processed.
LEMMA TakeLeafStep ==
  ASSUME Control, LineInv, TakeLeaf, UNCHANGED work
  PROVE  LineInv'
<1> DEFINE a == abs_leaf
           d == build.par
           x == a % TAU
           b == x - exec
           R(c) == WorkRows(fam, call, i_star, exec + c)
           m(c) == flush_count[c] * d
           seeds == Append(lseed_buf[b], LeafSeedAt(a))
<1>1. /\ build.impl = "memopt" /\ call \in {"commit", "eval"} /\ pc = "leaves" /\ pc' = "leaves"
      /\ UNCHANGED <<control, outputs, call, exec>>
      /\ fam = "OT" /\ a < Leaves /\ abs_leaf' = a + 1
      /\ x \in exec..exec + Batch - 1
  BY DEF TakeLeaf, InMemopt, exec_e
<1>2. exec < TAU /\ Streams
  BY <1>1 DEF Control, LineInv, WorkInv
<1>3. /\ TAU \in Nat \ {0} /\ exec \in Nat /\ Leaves \in Nat /\ Batch \in Nat \ {0}
      /\ NB_EVALS \in Nat \ {0} /\ d \in Nat \ {0} /\ NB_EVALS % d = 0 /\ build.fast \in BOOLEAN
      /\ \A c \in Slots : c \in Nat /\ exec + c \in Execs
  BY <1>1, <1>2, PassSizes
<1>4. a \in Nat /\ a + 1 \in 0..Leaves
  BY <1>1, <1>2, <1>3 DEF Streams
<1>5. /\ x \in Nat /\ b \in Slots /\ exec + b = x
      /\ \A c \in Slots : exec + c = x => c = b
  <2> HIDE DEF x
  <2>1. x \in Nat /\ b \in 0..Batch - 1 /\ exec + b = x
    BY <1>1, <1>3
  <2>2. \A c \in Nat : exec + c = x => c = b
    BY <1>3, <2>1
  <2> QED
    BY <1>3, <2>1, <2>2 DEF Slots
<1>6. /\ sc = [c \in Slots |-> Absorbed(exec + c, m(c))]
      /\ fold = [c \in Slots |-> Folded(build.fast, R(c), exec + c, m(c))]
      /\ flush_count \in [Slots -> Nat]
      /\ \A c \in Slots : Taken(a, exec + c) - m(c) \in 0..d - 1
      /\ lseed_buf = [c \in Slots |-> [k \in 1..Taken(a, exec + c) - m(c) |->
                                         LeafSeed(exec + c, m(c) + k - 1)]]
  BY <1>1, <1>2 DEF Streams, Flushed
<1>7. ASSUME NEW c \in Slots
      PROVE  /\ Taken(a, exec + c) \in Nat
             /\ Taken(a + 1, exec + c) = Taken(a, exec + c) + IF c = b THEN 1 ELSE 0
             /\ m(c) \in Nat
             /\ (flush_count[c] + 1) * d = m(c) + d
  <2>1. exec + c \in Execs /\ (exec + c = a % TAU <=> c = b) /\ flush_count[c] \in Nat
    BY <1>3, <1>5, <1>6
  <2> HIDE DEF b, x, a
  <2>2. /\ Taken(a, exec + c) \in Nat
        /\ Taken(a + 1, exec + c) = Taken(a, exec + c) + IF exec + c = a % TAU THEN 1 ELSE 0
    BY <1>4, <2>1, TakenStep
  <2>3. m(c) \in Nat
    BY <1>3, <2>1
  <2>4. (flush_count[c] + 1) * d = flush_count[c] * d + 1 * d
    BY <1>3, <2>1, Distribute
  <2>5. 1 * d = d
    BY <1>3
  <2> QED
    BY <2>1, <2>2, <2>3, <2>4, <2>5
<1> DEFINE t == Taken(a, x)
           n == t - m(b)
<1>8. /\ t \in Nat /\ t + 1 <= NB_EVALS /\ n \in 0..d - 1 /\ n \in Nat /\ m(b) + n = t
      /\ m(b) + (n + 1) = t + 1
      /\ LeafSeedAt(a) = LeafSeed(x, t)
  <2>1. x \in Execs /\ x = a % TAU
    BY <1>3, <1>5
  <2>2. t \in Nat /\ t = a \div TAU
    <3> HIDE DEF a, x
    <3> QED
      BY <1>4, <2>1, TakenStep
  <2>3. t + 1 <= NB_EVALS
    <3>1. Leaves = TAU * NB_EVALS
      BY <1>1 DEF Leaves
    <3> DEFINE q == a \div TAU
    <3>2. a = TAU * q + x /\ q \in Nat
      BY <1>3, <1>4, DivMod
    <3> HIDE DEF q, a, x
    <3>3. CASE NB_EVALS <= q
      <4>1. NB_EVALS * TAU <= q * TAU
        BY <1>3, <3>2, <3>3, MultMonotone
      <4>2. NB_EVALS * TAU = TAU * NB_EVALS /\ q * TAU = TAU * q
        BY <1>3, <3>2, Distribute
      <4> DEFINE e == TAU * q
                 g == TAU * NB_EVALS
      <4>3. e \in Nat /\ g \in Nat /\ g <= e /\ a = e + x /\ a < g
        BY <1>1, <1>3, <3>1, <3>2, <4>1, <4>2
      <4> HIDE DEF e, g
      <4> QED
        BY <1>5, <4>3
    <3>4. CASE ~(NB_EVALS <= q)
      <4>1. q + 1 <= NB_EVALS
        BY <1>3, <3>2, <3>4
      <4>2. t = q
        BY <2>2 DEF q, a, x
      <4> QED
        BY <4>1, <4>2
    <3> QED
      BY <3>3, <3>4
  <2>4. n \in 0..d - 1
    BY <1>5, <1>6
  <2>5. m(b) \in Nat
    BY <1>5, <1>7
  <2> DEFINE p == m(b)
  <2>6. LeafSeedAt(a) = LeafSeed(x, t)
    BY <2>1, <2>2 DEF LeafSeedAt
  <2>7. n = t - p /\ p \in Nat
    BY <2>5
  <2> HIDE DEF t, n, p
  <2>8. n \in Nat /\ p + n = t /\ p + (n + 1) = t + 1
    BY <1>3, <2>2, <2>4, <2>7
  <2> QED
    BY <2>2, <2>3, <2>4, <2>6, <2>8 DEF p
<1>9. seeds = SeedsOf(x, m(b), n + 1)
  <2>1. lseed_buf[b] = [k \in 1..n |-> LeafSeed(x, m(b) + k - 1)]
    BY <1>5, <1>6
  <2>2. m(b) \in Nat
    BY <1>5, <1>7
  <2> DEFINE p == m(b)
             v == [k \in Int |-> LeafSeed(x, p + k - 1)]
  <2>3. v[n + 1] = LeafSeed(x, t) /\ lseed_buf[b] = [k \in 1..n |-> v[k]]
    <3>1. p + (n + 1) - 1 = t /\ n + 1 \in Int
      BY <1>8, <2>2
    <3> QED
      BY <2>1, <3>1
  <2>4. SeedsOf(x, p, n + 1) = [k \in 1..n + 1 |-> v[k]]
    BY <1>8 DEF SeedsOf
  <2>5. n \in Nat
    BY <1>8
  <2> HIDE DEF v, n
  <2>6. Append([k \in 1..n |-> v[k]], v[n + 1]) = [k \in 1..n + 1 |-> v[k]]
    BY <2>5
  <2> QED
    BY <1>8, <2>3, <2>4, <2>6
<1>10. Len(seeds) = n + 1
  BY <1>8, <1>9 DEF SeedsOf
<1> DEFINE Now(c) == flush_count'[c] * d
           NowTaken(c) == Taken(a + 1, exec + c)
<1>11. /\ Slots' = Slots /\ Leaves' = Leaves /\ fam' = fam /\ build' = build /\ exec' = exec
       /\ call' = call /\ i_star' = i_star
       /\ \A c : Flushed(c)' = Now(c)
       /\ \A e, i : LeafSeed(e, i)' = LeafSeed(e, i)
  BY <1>1 DEF Slots, Batch, Leaves, Flushed, LeafSeed, HiddenOf, control, outputs
<1>12. /\ flush_count' \in [Slots -> Nat]
       /\ sc' = [c \in Slots |-> Absorbed(exec + c, Now(c))]
       /\ fold' = [c \in Slots |-> Folded(build.fast, R(c), exec + c, Now(c))]
       /\ \A c \in Slots : NowTaken(c) - Now(c) \in 0..d - 1
       /\ lseed_buf' = [c \in Slots |-> [k \in 1..NowTaken(c) - Now(c) |->
                                           LeafSeed(exec + c, Now(c) + k - 1)]]
  <2>1. CASE Len(seeds) < d
    <3>1. lseed_buf' = [lseed_buf EXCEPT ![b] = seeds] /\ UNCHANGED <<sc, fold, flush_count>>
      BY <2>1 DEF TakeLeaf, exec_e
    <3>2. \A c \in Slots : Now(c) = m(c)
      BY <1>11, <3>1
    <3>3. n + 1 \in 0..d - 1
      BY <1>3, <1>8, <1>10, <2>1
    <3>4. NowTaken(b) - Now(b) = n + 1
      <4>1. NowTaken(b) = t + 1 /\ m(b) \in Nat
        BY <1>5, <1>7
      <4> DEFINE p == m(b)
      <4>2. p \in Nat /\ n = t - p
        BY <4>1
      <4>3. Now(b) = p
        BY <1>5, <3>2
      <4> HIDE DEF p, n, t, NowTaken, Now
      <4> QED
        BY <1>8, <4>1, <4>2, <4>3
    <3>5. \A c \in Slots : c # b => NowTaken(c) - Now(c) = Taken(a, exec + c) - m(c)
      <4> SUFFICES ASSUME NEW c \in Slots, c # b
                   PROVE  NowTaken(c) - Now(c) = Taken(a, exec + c) - m(c)
        OBVIOUS
      <4>1. NowTaken(c) = Taken(a, exec + c)
        BY <1>7
      <4> QED
        BY <3>2, <4>1
    <3> HIDE DEF seeds, m, R, NowTaken, Now, b, n
    <3>6. sc' = [c \in Slots |-> Absorbed(exec + c, Now(c))]
      BY <1>6, <3>1, <3>2
    <3>7. fold' = [c \in Slots |-> Folded(build.fast, R(c), exec + c, Now(c))]
      BY <1>6, <3>1, <3>2
    <3>8. \A c \in Slots : NowTaken(c) - Now(c) \in 0..d - 1
      BY <1>6, <3>3, <3>4, <3>5
    <3>9. lseed_buf' = [c \in Slots |-> [k \in 1..NowTaken(c) - Now(c) |->
                                           LeafSeed(exec + c, Now(c) + k - 1)]]
      <4>1. seeds = [k \in 1..NowTaken(b) - Now(b) |-> LeafSeed(exec + b, Now(b) + k - 1)]
        BY <1>5, <1>9, <3>2, <3>4 DEF SeedsOf
      <4>2. \A c \in Slots : c # b =>
              lseed_buf[c] = [k \in 1..NowTaken(c) - Now(c) |-> LeafSeed(exec + c, Now(c) + k - 1)]
        BY <1>6, <3>2, <3>5
      <4>3. lseed_buf' = [c \in Slots |-> IF c = b THEN seeds ELSE lseed_buf[c]]
        BY <1>6, <3>1
      <4> QED
        BY <4>1, <4>2, <4>3
    <3> QED
      BY <1>6, <3>1, <3>6, <3>7, <3>8, <3>9
  <2>2. CASE ~(Len(seeds) < d)
    <3>1. /\ sc' = [sc EXCEPT ![b] = SeedCommitThenAbsorb(sc[b], m(b), seeds)]
          /\ fold' = [fold EXCEPT ![b] = SeedExpandThenAccumulate(fold[b], m(b), seeds)]
          /\ lseed_buf' = [lseed_buf EXCEPT ![b] = <<>>]
          /\ flush_count' = [flush_count EXCEPT ![b] = flush_count[b] + 1]
      BY <2>2 DEF TakeLeaf, exec_e
    <3>2. n + 1 = d /\ m(b) + d = t + 1
      BY <1>3, <1>8, <1>10, <2>2
    <3>3. flush_count'[b] = flush_count[b] + 1 /\ \A c \in Slots : c # b => flush_count'[c] = flush_count[c]
      BY <1>5, <1>6, <3>1
    <3>4. flush_count' \in [Slots -> Nat]
      BY <1>5, <1>6, <3>1
    <3>5. Now(b) = m(b) + d /\ \A c \in Slots : c # b => Now(c) = m(c)
      <4>1. Now(b) = (flush_count[b] + 1) * d
        BY <1>11, <3>3
      <4>2. (flush_count[b] + 1) * d = m(b) + d
        BY <1>5, <1>7
      <4>3. ASSUME NEW c \in Slots, c # b PROVE Now(c) = m(c)
        BY <1>11, <3>3, <4>3
      <4> HIDE DEF Now, m
      <4> QED
        BY <4>1, <4>2, <4>3
    <3>6. NowTaken(b) = t + 1 /\ \A c \in Slots : c # b => NowTaken(c) = Taken(a, exec + c)
      <4>1. ASSUME NEW c \in Slots, c # b PROVE NowTaken(c) = Taken(a, exec + c)
        BY <1>7, <4>1
      <4> QED
        BY <1>5, <1>7, <4>1
    <3>7. NowTaken(b) - Now(b) = 0
      <4>1. NowTaken(b) = t + 1 /\ Now(b) = t + 1
        BY <3>2, <3>5, <3>6
      <4> HIDE DEF NowTaken, Now, t
      <4> QED
        BY <1>8, <4>1
    <3>8. /\ SeedCommitThenAbsorb(Absorbed(x, m(b)), m(b), SeedsOf(x, m(b), d)) = Absorbed(x, m(b) + d)
          /\ SeedExpandThenAccumulate(Folded(build.fast, R(b), x, m(b)), m(b), SeedsOf(x, m(b), d))
               = Folded(build.fast, R(b), x, m(b) + d)
      <4>1. x \in Execs
        BY <1>3, <1>5
      <4>2. call = "eval" => opening.ls_com[x] = SeedCommit(x, Seed(x, i_star[x]))
        BY <4>1, PassOpened
      <4>3. R(b) = WorkRows(fam, call, i_star, x)
        BY <1>5
      <4> DEFINE p == m(b)
                 r == R(b)
      <4>4. p \in Nat /\ p + d <= NB_EVALS /\ d \in Nat
        BY <1>3, <1>5, <1>7, <1>8, <3>2
      <4>5. r = WorkRows(fam, call, i_star, x)
        BY <4>3
      <4> HIDE DEF p, r, x, d
      <4>6. SeedCommitThenAbsorb(Absorbed(x, p), p, SeedsOf(x, p, d)) = Absorbed(x, p + d)
        BY <4>2, <4>4, AbsorbStep
      <4>7. /\ build.fast \in BOOLEAN /\ d \in Nat \ {0}
        BY <1>3
      <4>8. SeedExpandThenAccumulate(Folded(build.fast, r, x, p), p, SeedsOf(x, p, d))
              = Folded(build.fast, r, x, p + d)
        BY <4>4, <4>5, <4>7, AccumulateStep
      <4> QED
        BY <4>6, <4>8 DEF p, r
    <3>9. sc[b] = Absorbed(x, m(b)) /\ fold[b] = Folded(build.fast, R(b), x, m(b))
      BY <1>5, <1>6
    <3>10. seeds = SeedsOf(x, m(b), d)
      BY <1>9, <3>2
    <3> HIDE DEF seeds, m, R, NowTaken, Now, b, n, t, x
    <3>11. sc' = [c \in Slots |-> Absorbed(exec + c, Now(c))]
      <4>1. sc' = [c \in Slots |-> IF c = b THEN Absorbed(x, m(b) + d) ELSE sc[c]]
        BY <1>6, <3>1, <3>8, <3>9, <3>10
      <4>2. \A c \in Slots : c # b => sc[c] = Absorbed(exec + c, Now(c))
        BY <1>6, <3>5
      <4> QED
        BY <1>5, <3>5, <4>1, <4>2
    <3>12. fold' = [c \in Slots |-> Folded(build.fast, R(c), exec + c, Now(c))]
      <4>1. fold' = [c \in Slots |-> IF c = b THEN Folded(build.fast, R(b), x, m(b) + d) ELSE fold[c]]
        BY <1>6, <3>1, <3>8, <3>9, <3>10
      <4>2. \A c \in Slots : c # b => fold[c] = Folded(build.fast, R(c), exec + c, Now(c))
        BY <1>6, <3>5
      <4> QED
        BY <1>5, <3>5, <4>1, <4>2
    <3>13. \A c \in Slots : NowTaken(c) - Now(c) \in 0..d - 1
      <4>1. ASSUME NEW c \in Slots, c # b PROVE NowTaken(c) - Now(c) \in 0..d - 1
        BY <1>6, <3>5, <3>6, <4>1
      <4>2. 0 \in 0..d - 1
        BY <1>3
      <4> QED
        BY <3>7, <4>1, <4>2
    <3>14. lseed_buf' = [c \in Slots |-> [k \in 1..NowTaken(c) - Now(c) |->
                                            LeafSeed(exec + c, Now(c) + k - 1)]]
      <4>1. <<>> = [k \in 1..NowTaken(b) - Now(b) |-> LeafSeed(exec + b, Now(b) + k - 1)]
        BY <3>7
      <4>2. \A c \in Slots : c # b =>
              lseed_buf[c] = [k \in 1..NowTaken(c) - Now(c) |-> LeafSeed(exec + c, Now(c) + k - 1)]
        BY <1>6, <3>5, <3>6
      <4>3. lseed_buf' = [c \in Slots |-> IF c = b THEN <<>> ELSE lseed_buf[c]]
        BY <1>6, <3>1
      <4> QED
        BY <4>1, <4>2, <4>3
    <3> QED
      BY <3>4, <3>11, <3>12, <3>13, <3>14
  <2> QED
    BY <2>1, <2>2
<1>13. Streams'
  <2>1. fam' = "OT" /\ abs_leaf' = a + 1
    BY <1>1, <1>11
  <2>2. abs_leaf' \in 0..Leaves'
    BY <1>4, <1>11, <2>1
  <2> HIDE DEF seeds, m, b, n, t, x, a
  <2> QED
    BY <1>11, <1>12, <2>1, <2>2 DEF Streams
<1> QED
  BY <1>1, <1>13, OnlyStreams

\* After the last leaf every slot has folded and hashed all.
LEMMA PassEnd ==
  ASSUME Control, LineInv, build.impl = "memopt", pc = "leaves", abs_leaf = Leaves,
         NEW b \in Slots
  PROVE  /\ sc[b] = Absorbed(exec + b, NB_EVALS)
         /\ fold[b] = Folded(build.fast, WorkRows(fam, call, i_star, exec + b), exec + b, NB_EVALS)
<1>1. exec < TAU /\ Streams
  BY DEF Control, LineInv, WorkInv
<1>2. /\ fam \in {"CT", "OT"} /\ NB_EVALS \in Nat /\ build.par \in Nat \ {0}
      /\ NB_EVALS % build.par = 0 /\ exec + b \in Execs
  BY <1>1, PassSizes
<1>3. Flushed(b) = NB_EVALS
  <2>1. CASE fam = "CT"
    BY <2>1 DEF Flushed, Leaves
  <2>2. CASE fam = "OT"
    <3> DEFINE k == flush_count[b]
               d == build.par
    <3>1. k \in Nat /\ Taken(abs_leaf, exec + b) - k * d \in 0..d - 1
      BY <1>1, <2>2 DEF Streams, Flushed
    <3>2. Taken(abs_leaf, exec + b) = NB_EVALS
      BY <1>2, <2>2, TakenEnds DEF Leaves
    <3>3. NB_EVALS - k * d \in 0..d - 1
      BY <3>1, <3>2
    <3>4. d \in Nat \ {0} /\ NB_EVALS % d = 0 /\ k \in Nat
      BY <1>2, <3>1
    <3> HIDE DEF k, d
    <3>5. k * d = NB_EVALS
      BY <1>2, <3>3, <3>4, LastMultiple
    <3> QED
      BY <2>2, <3>5 DEF Flushed, k, d
  <2> QED
    BY <1>2, <2>1, <2>2
<1> QED
  BY <1>1, <1>3 DEF Streams

\* P0 is the buckets, whichever way they were folded.
LEMMA P0Exact ==
  ASSUME NEW R, NEW e, NEW m, NEW f, f = Folded(build.fast, R, e, m), build.fast \in BOOLEAN
  PROVE  P0Of(f) = BucketsAt(R, m) /\ f.acc = AccAt(R, m)
<1>1. FoldedP0(BucketsAt(R, m)) = BucketsAt(R, m)
  BY BucketRows, FoldedP0Exact
<1> QED
  BY <1>1 DEF P0Of, Folded

\* The signer's end of a pass: lines and commitments of its executions.
LEMMA FinalizeSignStep ==
  ASSUME Control, LineInv, FinalizeSign, UNCHANGED work
  PROVE  LineInv'
<1> DEFINE last == exec + Batch
           d(k) == [c \in XBlocks |-> Xor(Witness[c], fold[k - exec].acc[c])]
           gl == [k \in exec..exec + Batch - 1 |->
                    [p0 |-> P0Of(fold[k - exec]), u1 |-> fold[k - exec].acc[UBlock], delta_x |-> d(k)]]
           gd == [k \in exec..exec + Batch - 1 |-> Sent(fam, d(k))]
           gc == [k \in exec..exec + Batch - 1 |->
                    Hash_7(sc[k - exec].e, sc[k - exec].absorbed, Sent(fam, d(k)))]
<1>1. /\ build.impl = "memopt" /\ call = "commit" /\ pc = "leaves" /\ abs_leaf = Leaves
      /\ exec < TAU
  BY DEF FinalizeSign, InMemopt, Control
<1>2. /\ TAU \in Nat \ {0} /\ exec \in Nat /\ Batch \in Nat \ {0} /\ last <= TAU /\ last \in Nat
      /\ build.fast \in BOOLEAN /\ ~build.keep
      /\ Slots = 0..Batch - 1
  BY <1>1, PassSizes DEF Slots
<1>3. /\ line' = Merge(line, gl)
      /\ key' = [key EXCEPT !.delta_x = Merge(key.delta_x, gd)]
      /\ com1' = Merge(com1, gc)
      /\ rc' = 0 /\ pc' = "pass_err"
      /\ UNCHANGED <<fam, build, oom, call, exec, i_star, opening>>
  <2>1. line' = Merge(line, gl)
    BY DEF FinalizeSign
  <2>2. key' = [key EXCEPT !.delta_x = Merge(key.delta_x, gd)]
    BY DEF FinalizeSign
  <2>3. com1' = Merge(com1, gc)
    BY DEF FinalizeSign
  <2>4. rc' = 0 /\ pc' = "pass_err"
    BY DEF FinalizeSign
  <2>5. UNCHANGED <<fam, build, oom, call, exec, i_star, opening>>
    BY DEF FinalizeSign, control
  <2> QED
    BY <2>1, <2>2, <2>3, <2>4, <2>5
<1>4. ASSUME NEW k \in exec..last - 1
      PROVE  /\ gl[k] = TrueLines(fam)[k] /\ gd[k] = TrueSents(fam)[k] /\ gc[k] = TrueCom1s(fam)[k]
  <2> DEFINE b == k - exec
             R == RowsOf(fam, k)
  <2>1. b \in Slots /\ exec + b = k /\ k \in Execs
    BY <1>2 DEF Execs
  <2>2. WorkRows(fam, call, i_star, k) = R
    BY <1>1 DEF WorkRows
  <2>3. sc[b] = Absorbed(k, NB_EVALS) /\ fold[b] = Folded(build.fast, R, k, NB_EVALS)
    <3> HIDE DEF b, R
    <3>1. /\ sc[b] = Absorbed(exec + b, NB_EVALS)
          /\ fold[b] = Folded(build.fast, WorkRows(fam, call, i_star, exec + b), exec + b, NB_EVALS)
      BY <1>1, <2>1, PassEnd
    <3> QED
      BY <2>1, <2>2, <3>1
  <2>4. P0Of(fold[b]) = BucketsAt(R, NB_EVALS) /\ fold[b].acc = AccAt(R, NB_EVALS)
    <3> DEFINE f == fold[b]
    <3>1. f = Folded(build.fast, R, k, NB_EVALS)
      BY <2>3
    <3> HIDE DEF f, R
    <3>2. P0Of(f) = BucketsAt(R, NB_EVALS) /\ f.acc = AccAt(R, NB_EVALS)
      BY <1>2, <3>1, P0Exact
    <3> QED
      BY <3>2 DEF f
  <2>5. [p0 |-> P0Of(fold[b]), u1 |-> fold[b].acc[UBlock], delta_x |-> d(k)] = LineOf(R)
    BY <2>4, SignedExact
  <2>6. d(k) = LineOf(R).delta_x
    <3> HIDE DEF d, R, b
    <3>1. [p0 |-> P0Of(fold[b]), u1 |-> fold[b].acc[UBlock], delta_x |-> d(k)].delta_x = d(k)
      OBVIOUS
    <3> QED
      BY <2>5, <3>1
  <2>7. sc[b].e = k /\ sc[b].absorbed = ComsAt(k, NB_EVALS)
    BY <2>3 DEF Absorbed
  <2>8. /\ gl[k] = [p0 |-> P0Of(fold[b]), u1 |-> fold[b].acc[UBlock], delta_x |-> d(k)]
        /\ gd[k] = Sent(fam, d(k))
        /\ gc[k] = Hash_7(sc[b].e, sc[b].absorbed, Sent(fam, d(k)))
    BY <1>2
  <2> HIDE DEF gl, gd, gc, d, b
  <2> QED
    BY <2>1, <2>5, <2>6, <2>7, <2>8, TrueValues
<1>5. DOMAIN gl = exec..last - 1 /\ DOMAIN gd = exec..last - 1 /\ DOMAIN gc = exec..last - 1
  BY <1>2
<1>6. /\ AllHave(line, TrueLines(fam), exec) /\ AllHave(key.delta_x, TrueSents(fam), exec)
      /\ AllHave(com1, TrueCom1s(fam), exec) /\ IsKey(key)
  BY <1>1 DEF LineInv, CommitInv, Signed, Hashed
<1> HIDE DEF gl, gd, gc, last
<1>7. AllHave(line', TrueLines(fam), last)
  BY <1>2, <1>3, <1>4, <1>5, <1>6, MergeExtends
<1>8. key'.delta_x = Merge(key.delta_x, gd) /\ IsKey(key')
  BY <1>3, <1>6 DEF IsKey
<1>9. AllHave(key'.delta_x, TrueSents(fam), last)
  BY <1>2, <1>4, <1>5, <1>6, <1>8, MergeExtends
<1>10. AllHave(com1', TrueCom1s(fam), last)
  BY <1>2, <1>3, <1>4, <1>5, <1>6, MergeExtends
<1>11. (exec + Batch)' = last
  BY <1>3 DEF Batch, last
<1> QED
  BY <1>1, <1>2, <1>3, <1>7, <1>8, <1>9, <1>10, <1>11
     DEF LineInv, CommitInv, OpenInv, EvalInv, WorkInv, Signed, Hashed

\* The verifier's end of a pass: values and commitments of its executions.
LEMMA FinalizeVerifyStep ==
  ASSUME Control, LineInv, FinalizeVerify, UNCHANGED work
  PROVE  LineInv'
<1> DEFINE last == exec + Batch
           ge == [k \in exec..exec + Batch - 1 |->
                    EvaluatedAt(i_star[k], P0Of(fold[k - exec]), fold[k - exec].acc,
                                opening.delta_x[k])]
           gc == [k \in exec..exec + Batch - 1 |->
                    Hash_7(sc[k - exec].e, sc[k - exec].absorbed, opening.delta_x[k])]
<1>1. /\ build.impl = "memopt" /\ call = "eval" /\ pc = "leaves" /\ abs_leaf = Leaves
      /\ exec < TAU /\ i_star \in [Execs -> Evals]
  BY DEF FinalizeVerify, InMemopt, Control
<1>2. /\ TAU \in Nat \ {0} /\ exec \in Nat /\ Batch \in Nat \ {0} /\ last <= TAU /\ last \in Nat
      /\ build.fast \in BOOLEAN /\ fam \in {"CT", "OT"}
      /\ Slots = 0..Batch - 1
  BY <1>1, PassSizes DEF Slots
<1>3. /\ evals' = Merge(evals, ge)
      /\ com1_v' = Merge(com1_v, gc)
      /\ rc' = 0 /\ pc' = "pass_err"
      /\ UNCHANGED <<fam, build, oom, call, exec, key, com1, line, i_star, opening>>
  <2>1. evals' = Merge(evals, ge)
    BY DEF FinalizeVerify
  <2>2. com1_v' = Merge(com1_v, gc)
    BY DEF FinalizeVerify
  <2>3. rc' = 0 /\ pc' = "pass_err"
    BY DEF FinalizeVerify
  <2>4. UNCHANGED <<fam, build, oom, call, exec, key, com1, line, i_star, opening>>
    BY DEF FinalizeVerify, control
  <2> QED
    BY <2>1, <2>2, <2>3, <2>4
<1>4. ASSUME NEW k \in exec..last - 1
      PROVE  ge[k] = TrueEvals(fam, i_star)[k] /\ gc[k] = TrueCom1s(fam)[k]
  <2> DEFINE b == k - exec
             S == RowsOf(fam, k)
             R == WorkRows(fam, call, i_star, k)
             h == i_star[k]
  <2>1. b \in Slots /\ exec + b = k /\ k \in Execs
    BY <1>2 DEF Execs
  <2>2. R = Without(S, h) /\ h \in Evals /\ S = RowsOf(fam, k)
    BY <1>1, <2>1 DEF WorkRows
  <2>3. sc[b] = Absorbed(k, NB_EVALS) /\ fold[b] = Folded(build.fast, R, k, NB_EVALS)
    <3> HIDE DEF b
    <3>1. /\ sc[b] = Absorbed(exec + b, NB_EVALS)
          /\ fold[b] = Folded(build.fast, WorkRows(fam, call, i_star, exec + b), exec + b, NB_EVALS)
      BY <1>1, <2>1, PassEnd
    <3> QED
      BY <2>1, <3>1
  <2>4. P0Of(fold[b]) = BucketsAt(R, NB_EVALS) /\ fold[b].acc = AccAt(R, NB_EVALS)
    <3> DEFINE f == fold[b]
    <3>1. f = Folded(build.fast, R, k, NB_EVALS)
      BY <2>3
    <3> HIDE DEF f, R
    <3>2. P0Of(f) = BucketsAt(R, NB_EVALS) /\ f.acc = AccAt(R, NB_EVALS)
      BY <1>2, <3>1, P0Exact
    <3> QED
      BY <3>2 DEF f
  <2>5. opening.delta_x[k] = TrueSents(fam)[k]
    BY <1>1, <2>1, PassOpened
  <2>6. TrueSents(fam)[k] = Sent(fam, LineOf(S).delta_x)
    BY <2>1, TrueValues
  <2>7. EvaluatedAt(h, BucketsAt(R, NB_EVALS), AccAt(R, NB_EVALS), Sent(fam, LineOf(S).delta_x))
          = LineAt(LineOf(S), h)
    <3> HIDE DEF R, S, h
    <3> QED
      BY <1>2, <2>2, EvaluatedExact
  <2>8. TrueEvals(fam, i_star)[k] = LineAt(LineOf(S), h)
    BY <2>1, TrueValues
  <2>9. sc[b].e = k /\ sc[b].absorbed = ComsAt(k, NB_EVALS)
    BY <2>3 DEF Absorbed
  <2>10. /\ ge[k] = EvaluatedAt(h, P0Of(fold[b]), fold[b].acc, opening.delta_x[k])
         /\ gc[k] = Hash_7(sc[b].e, sc[b].absorbed, opening.delta_x[k])
    BY <1>2
  <2>11. TrueCom1s(fam)[k] = Hash_7(k, TrueComs[k], TrueSents(fam)[k]) /\ TrueComs[k] = ComsAt(k, NB_EVALS)
    BY <2>1, TrueValues
  <2> HIDE DEF ge, gc, b, R, S
  <2> QED
    BY <2>1, <2>4, <2>5, <2>6, <2>7, <2>8, <2>9, <2>10, <2>11
<1>5. DOMAIN ge = exec..last - 1 /\ DOMAIN gc = exec..last - 1
  BY <1>2
<1>6. AllHave(evals, TrueEvals(fam, i_star), exec) /\ AllHave(com1_v, TrueCom1s(fam), exec)
  BY <1>1 DEF LineInv, EvalInv, Evaluated, Checked
<1> HIDE DEF ge, gc, last
<1>7. AllHave(evals', TrueEvals(fam, i_star), last)
  BY <1>2, <1>3, <1>4, <1>5, <1>6, MergeExtends
<1>8. AllHave(com1_v', TrueCom1s(fam), last)
  BY <1>2, <1>3, <1>4, <1>5, <1>6, MergeExtends
<1>9. (exec + Batch)' = last
  BY <1>3 DEF Batch, last
<1> QED
  BY <1>1, <1>2, <1>3, <1>7, <1>8, <1>9
     DEF LineInv, CommitInv, OpenInv, EvalInv, WorkInv, Opened, Hashed, Evaluated, Checked

-----------------------------------------------------------------------------
(***************************************************************************)
(* Every step, and the theorems.                                           *)
(***************************************************************************)
\* Every step of every build keeps what was computed right.
LEMMA LineStep ==
  ASSUME Control, LineInv, [Next]_vars
  PROVE  LineInv'
<1>1. /\ TAU \in Nat \ {0} /\ fam \in {"CT", "OT"} /\ exec \in 0..TAU
      /\ build.impl \in {"default", "memopt"} /\ build.keep \in BOOLEAN
      /\ build.impl = "memopt" => ~build.keep
  BY LineSizes, BuildFacts DEF Control
<1>2. \A f, v : AllHave(f, v, 0)
  BY NoneYet

<1>3. ASSUME DefaultCommit, UNCHANGED pass
      PROVE  LineInv'
  BY <1>1, <1>2, <1>3
     DEF LineInv, CommitInv, OpenInv, EvalInv, WorkInv, Signed, Hashed, Opened, Evaluated, Checked,
         GroupAt, Control, DefaultPcs, MemoptPcs, OpenPcs, control, outputs, work, pass, folding,
         batched, DefaultCommit, StartCommit, Enter, NoKey, IsKey
<1>4. ASSUME DefaultEval, UNCHANGED pass
      PROVE  LineInv'
  BY <1>1, <1>2, <1>4
     DEF LineInv, CommitInv, OpenInv, EvalInv, WorkInv, Signed, Hashed, Opened, Evaluated, Checked,
         GroupAt, Control, DefaultPcs, MemoptPcs, OpenPcs, control, outputs, work, pass, folding,
         batched, DefaultEval, StartEval, Enter, Returned, InitCache, CacheEmpty, Entries
<1>5. ASSUME Allocate, UNCHANGED pass
      PROVE  LineInv'
  <2>1. /\ pc = "alloc" /\ todo # <<>> /\ build.impl = "default" /\ rc' = rc
        /\ pc' \in {"alloc", "cleanup"}
        /\ UNCHANGED <<fam, build, outputs, call, exec, cache, batched>>
    BY <1>5 DEF Allocate, At
  <2>2. pc' = "cleanup" => (rc = 0 => oom')
    BY <1>5 DEF Allocate, At
  <2> QED
    BY <1>1, <1>2, <2>1, <2>2
       DEF LineInv, CommitInv, OpenInv, EvalInv, WorkInv, Signed, Hashed, Opened, Evaluated,
           Checked, GroupAt, Control, DefaultPcs, MemoptPcs, OpenPcs, outputs, batched
<1>6. ASSUME Allocated, UNCHANGED pass
      PROVE  LineInv'
  BY <1>1, <1>2, <1>6
     DEF LineInv, CommitInv, OpenInv, EvalInv, WorkInv, Signed, Hashed, Opened, Evaluated, Checked,
         GroupAt, Control, DefaultPcs, MemoptPcs, OpenPcs, control, outputs, work, pass, folding,
         batched, Allocated, At, InitCache, Signing, CacheEmpty
<1>7. ASSUME ExpandAll, UNCHANGED pass
      PROVE  LineInv'
  BY <1>1, <1>2, <1>7
     DEF LineInv, CommitInv, OpenInv, EvalInv, WorkInv, Signed, Hashed, Opened, Evaluated, Checked,
         GroupAt, Control, DefaultPcs, MemoptPcs, OpenPcs, control, outputs, work, pass, folding,
         batched, ExpandAll, At, Fails, Signing
<1>8. ASSUME LeavesOfExec, UNCHANGED pass
      PROVE  LineInv'
  BY <1>8, LeavesOfExecStep
<1>9. ASSUME ConvertGroup, UNCHANGED pass
      PROVE  LineInv'
  BY <1>9, ConvertGroupStep
<1>10. ASSUME ConvertFails, UNCHANGED pass
      PROVE  LineInv'
  BY <1>1, <1>2, <1>10
     DEF LineInv, CommitInv, OpenInv, EvalInv, WorkInv, Signed, Hashed, Opened, Evaluated, Checked,
         GroupAt, Control, DefaultPcs, MemoptPcs, OpenPcs, control, outputs, work, pass, folding,
         batched, ConvertFails, At, Fails
<1>11. ASSUME ConvertEnd, UNCHANGED pass
      PROVE  LineInv'
  BY <1>11, ConvertEndStep
<1>12. ASSUME HashSign, UNCHANGED pass
      PROVE  LineInv'
  BY <1>12, HashSignStep
<1>13. ASSUME HashEval, UNCHANGED pass
      PROVE  LineInv'
  BY <1>13, HashEvalStep
<1>14. ASSUME LoopEnd, UNCHANGED pass
      PROVE  LineInv'
  BY <1>14, LoopEndStep
<1>15. ASSUME HashFails, UNCHANGED pass
      PROVE  LineInv'
  BY <1>1, <1>2, <1>15
     DEF LineInv, CommitInv, OpenInv, EvalInv, WorkInv, Signed, Hashed, Opened, Evaluated, Checked,
         GroupAt, Control, DefaultPcs, MemoptPcs, OpenPcs, control, outputs, work, pass, folding,
         batched, HashFails, At, InDefault, Fails
<1>16. ASSUME DefaultCleanup, UNCHANGED pass
      PROVE  LineInv'
  BY <1>1, <1>2, <1>16
     DEF LineInv, CommitInv, OpenInv, EvalInv, WorkInv, Signed, Hashed, Opened, Evaluated, Checked,
         GroupAt, Control, DefaultPcs, MemoptPcs, OpenPcs, control, outputs, work, pass, folding,
         batched, DefaultCleanup, Return
<1>17. ASSUME MemoptCommit, UNCHANGED work
      PROVE  LineInv'
  BY <1>1, <1>2, <1>17
     DEF LineInv, CommitInv, OpenInv, EvalInv, WorkInv, Signed, Hashed, Opened, Evaluated, Checked,
         GroupAt, Control, DefaultPcs, MemoptPcs, OpenPcs, control, outputs, work, pass, folding,
         batched, MemoptCommit, StartCommit, Enter, NoKey, IsKey
<1>18. ASSUME MemoptEval, UNCHANGED work
      PROVE  LineInv'
  BY <1>1, <1>2, <1>18
     DEF LineInv, CommitInv, OpenInv, EvalInv, WorkInv, Signed, Hashed, Opened, Evaluated, Checked,
         GroupAt, Control, DefaultPcs, MemoptPcs, OpenPcs, control, outputs, work, pass, folding,
         batched, MemoptEval, StartEval, Enter, Returned
<1>19. ASSUME InitPass, UNCHANGED work
      PROVE  LineInv'
  BY <1>19, InitPassStep
<1>20. ASSUME NextLeafs, UNCHANGED work
      PROVE  LineInv'
  BY <1>20, NextLeafsStep
<1>21. ASSUME SkipLeaf, UNCHANGED work
      PROVE  LineInv'
  BY <1>21, SkipLeafStep
<1>22. ASSUME TakeLeaf, UNCHANGED work
      PROVE  LineInv'
  BY <1>22, TakeLeafStep
<1>23. ASSUME PassFails, UNCHANGED work
      PROVE  LineInv'
  BY <1>1, <1>2, <1>23
     DEF LineInv, CommitInv, OpenInv, EvalInv, WorkInv, Signed, Hashed, Opened, Evaluated, Checked,
         GroupAt, Control, DefaultPcs, MemoptPcs, OpenPcs, control, outputs, work, pass, folding,
         batched, PassFails, InMemopt, Fails
<1>24. ASSUME FinalizeSign, UNCHANGED work
      PROVE  LineInv'
  BY <1>24, FinalizeSignStep
<1>25. ASSUME FinalizeVerify, UNCHANGED work
      PROVE  LineInv'
  BY <1>25, FinalizeVerifyStep
<1>26. ASSUME PassErr, UNCHANGED work
      PROVE  LineInv'
  BY <1>1, <1>2, <1>26
     DEF LineInv, CommitInv, OpenInv, EvalInv, WorkInv, Signed, Hashed, Opened, Evaluated, Checked,
         GroupAt, Control, DefaultPcs, MemoptPcs, OpenPcs, control, outputs, work, pass, folding,
         batched, PassErr, InMemopt
<1>27. ASSUME PassesEnd, UNCHANGED work
      PROVE  LineInv'
  BY <1>1, <1>2, <1>27
     DEF LineInv, CommitInv, OpenInv, EvalInv, WorkInv, Signed, Hashed, Opened, Evaluated, Checked,
         GroupAt, Control, DefaultPcs, MemoptPcs, OpenPcs, control, outputs, work, pass, folding,
         batched, PassesEnd, InMemopt, ParsedAlpha1
<1>28. ASSUME Open, UNCHANGED <<work, pass>>
      PROVE  LineInv'
  BY <1>1, <1>2, <1>28
     DEF LineInv, CommitInv, OpenInv, EvalInv, WorkInv, Signed, Hashed, Opened, Evaluated, Checked,
         GroupAt, Control, DefaultPcs, MemoptPcs, OpenPcs, control, outputs, work, pass, folding,
         batched, Open, StartOpen, Enter, Returned
<1>29. ASSUME OpenExec, UNCHANGED <<work, pass>>
      PROVE  LineInv'
  BY <1>29, OpenExecStep
<1>30. ASSUME OpenCleanup, UNCHANGED <<work, pass>>
      PROVE  LineInv'
  BY <1>1, <1>2, <1>30
     DEF LineInv, CommitInv, OpenInv, EvalInv, WorkInv, Signed, Hashed, Opened, Evaluated, Checked,
         GroupAt, Control, DefaultPcs, MemoptPcs, OpenPcs, control, outputs, work, pass, folding,
         batched, OpenCleanup, Return
<1>31. ASSUME UNCHANGED vars
      PROVE  LineInv'
  <2>1. UNCHANGED <<fam, build, oom, key, com1, line, i_star, opening, com1_v, evals, alpha1_v,
                    call, pc, exec, rc>>
    BY <1>31 DEF vars, control, outputs
  <2>2. UNCHANGED <<work, pass>>
    BY <1>31 DEF vars
  <2>3. CommitInv'
    BY <2>1 DEF LineInv, CommitInv, Signed, Hashed, Batch
  <2>4. OpenInv'
    BY <2>1 DEF LineInv, OpenInv, Hashed, Opened
  <2>5. EvalInv'
    BY <2>1, <2>2 DEF LineInv, EvalInv, Evaluated, Checked, Batch, work, batched
  <2>6. WorkInv'
    <3>1. pc = "leaves" => Streams'
      <4>1. /\ Leaves' = Leaves /\ Slots' = Slots
            /\ UNCHANGED <<sc, fold, lseed_buf, flush_count, abs_leaf>>
        BY <2>1, <2>2 DEF Leaves, Slots, Batch, pass, streams
      <4>2. \A b : Flushed(b)' = Flushed(b)
        BY <2>1, <4>1 DEF Flushed
      <4>3. \A e, i : LeafSeed(e, i)' = LeafSeed(e, i)
        BY <2>1 DEF LeafSeed, HiddenOf
      <4>4. Streams => Streams'
        BY <2>1, <4>1, <4>2, <4>3 DEF Streams
      <4> QED
        BY <2>1, <4>4 DEF LineInv, WorkInv
    <3>2. GroupAt(WorkRows(fam, call, i_star, exec), exec)
            => GroupAt(WorkRows(fam, call, i_star, exec), exec)'
      BY <2>1, <2>2 DEF GroupAt, work, folding
    <3> QED
      BY <2>1, <2>2, <3>1, <3>2 DEF LineInv, WorkInv, work
  <2> QED
    BY <2>1, <2>3, <2>4, <2>5, <2>6 DEF LineInv
<1> QED
  BY <1>3, <1>4, <1>5, <1>6, <1>7, <1>8, <1>9, <1>10, <1>11, <1>12, <1>13, <1>14, <1>15, <1>16,
     <1>17, <1>18, <1>19, <1>20, <1>21, <1>22, <1>23, <1>24, <1>25, <1>26, <1>27, <1>28, <1>29,
     <1>30, <1>31
     DEF Next, DefaultNext, MemoptNext

-----------------------------------------------------------------------------
\* The control of every call: its builds, its executions and its order (Commit,
\* then Open, then Eval, of src/blc).
THEOREM BatchControl == Spec => []Control
<1>1. Init => Control
  BY ControlInit
<1>2. Control /\ [Next]_vars => Control'
  BY ControlStep
<1> QED
  BY <1>1, <1>2, PTL DEF Spec

\* What a call holds at each of its points is among what its end releases and
\* wipes (the cleanup labels of blc.c, the err label of blc_memopt.c).
THEOREM BatchHeld == Spec => []HeldInv
<1>1. Init => HeldInv
  BY HeldInit
<1>2. Control /\ HeldInv /\ [Next]_vars => HeldInv'
  BY HeldStep
<1> QED
  BY <1>1, <1>2, BatchControl, PTL DEF Spec

\* At each point of each call, what it has computed is what the definition gives
\* for the executions, groups and leaves it has done.
THEOREM BatchInvariant == Spec => []LineInv
<1>1. Init => LineInv
  BY LineInit
<1>2. Control /\ LineInv /\ [Next]_vars => LineInv'
  BY LineStep
<1> QED
  BY <1>1, <1>2, BatchControl, PTL DEF Spec

\* A call that has returned, with success or with an error at any point, holds
\* nothing and has left no secret.
THEOREM BatchNothingLeft == Spec => []NothingLeft
<1>1. HeldInv => NothingLeft
  BY DEF HeldInv, NothingLeft
<1> QED
  BY <1>1, BatchHeld, PTL

\* So a Commit that has returned has the line and its commitments.
LEMMA CommitExact ==
  ASSUME Control, LineInv
  PROVE  CommitIsLine
<1> SUFFICES ASSUME Returned("commit"), ~oom, NEW e \in Execs
             PROVE  com1[e] = ReferenceCom1(e) /\ line[e] = ReferenceLine(e)
  BY DEF CommitIsLine
<1>1. Signed(TAU) /\ Hashed(TAU)
  BY DEF Returned, LineInv, CommitInv
<1>2. TAU \in Nat \ {0} /\ e \in 0..TAU - 1
  BY LineSizes DEF Execs
<1>3. line[e] = TrueLines(fam)[e] /\ com1[e] = TrueCom1s(fam)[e]
  BY <1>1, <1>2 DEF Signed, Hashed, AllHave
<1>4. /\ TrueLines(fam)[e] = LineOf(RowsOf(fam, e))
      /\ TrueCom1s(fam)[e] = Hash_7(e, ComsAt(e, NB_EVALS), Sent(fam, LineOf(RowsOf(fam, e)).delta_x))
  BY DEF TrueLines, TrueCom1s
<1>5. ReferenceComs(e) = ComsAt(e, NB_EVALS)
  BY DEF ReferenceComs, ComsAt
<1> QED
  BY <1>3, <1>4, <1>5 DEF ReferenceLine, ReferenceCom1

\* So an Eval that has returned has the values of that line.
LEMMA EvalExact ==
  ASSUME Control, LineInv
  PROVE  EvalIsOnLine
<1> SUFFICES ASSUME Returned("eval"), NEW e \in Execs
             PROVE  /\ com1_v[e] = com1[e]
                    /\ evals[e] = LineAt(line[e], i_star[e])
                    /\ alpha1_v[e] = Alpha1[e]
  BY DEF EvalIsOnLine
<1>1. /\ AllHave(line, TrueLines(fam), TAU) /\ AllHave(com1, TrueCom1s(fam), TAU)
      /\ AllHave(evals, TrueEvals(fam, i_star), TAU) /\ AllHave(com1_v, TrueCom1s(fam), TAU)
      /\ AllHave(alpha1_v, Alpha1, TAU)
  BY DEF Returned, LineInv, OpenInv, EvalInv, Hashed, Evaluated, Checked
<1>2. TAU \in Nat \ {0} /\ e \in 0..TAU - 1
  BY LineSizes DEF Execs
<1>3. /\ line[e] = TrueLines(fam)[e] /\ com1[e] = TrueCom1s(fam)[e]
      /\ evals[e] = TrueEvals(fam, i_star)[e] /\ com1_v[e] = TrueCom1s(fam)[e]
      /\ alpha1_v[e] = Alpha1[e]
  BY <1>1, <1>2 DEF AllHave
<1>4. TrueEvals(fam, i_star)[e] = LineAt(TrueLines(fam)[e], i_star[e])
  BY DEF TrueEvals, TrueLines
<1> QED
  BY <1>3, <1>4

\* Whatever build commits, for all leaves and executions: the commitments and the
\* line are those of the definition (BLC_Commit of blc.c and blc_memopt.c).
THEOREM CommitCorrect == Spec => []CommitIsLine
<1>1. Control /\ LineInv => CommitIsLine
  BY CommitExact
<1> QED
  BY <1>1, BatchControl, BatchInvariant, PTL

\* Whatever build commits and whatever build evaluates: Eval returns the
\* commitments and the value of the line at the point of the challenge (BLC_Eval).
THEOREM EvalCorrect == Spec => []EvalIsOnLine
<1>1. Control /\ LineInv => EvalIsOnLine
  BY EvalExact
<1> QED
  BY <1>1, BatchControl, BatchInvariant, PTL

=============================================================================
