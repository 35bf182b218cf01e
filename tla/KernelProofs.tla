------------------------------ MODULE KernelProofs -----------------------------
(***************************************************************************)
(* Proofs about what signing is built on: the streams of prg.c, the        *)
(* equations and the key generation (KeyGen), the lines of SeedExpandBatch,*)
(* for all sizes of blocks, rows, equations and lines; and the search for  *)
(* the nonce of the challenge (Grinding), for every number of nonces and   *)
(* every build whose batch size divides it.                                *)
(*                                                                         *)
(* The expansions rest on one fact about PRGStream: a slice that continues *)
(* from the leftover of the one before it is made of the bytes of the      *)
(* stream at its own place (SliceExact). The rest is bookkeeping: the      *)
(* start of a row is the end of the one before, a context is ready for the *)
(* row it names, a cell of the cache holds the schedule of its own block   *)
(* or none.                                                                *)
(*                                                                         *)
(* The argument for the search is one sentence: as long as no call was     *)
(* mistaken for a rejection, no good nonce lies below the counter.  The    *)
(* rest is that the counter stays on batch boundaries, so that it is 0     *)
(* again only after the last batch.                                        *)
(***************************************************************************)
EXTENDS KeyGen, SeedExpandBatch, Grinding, WellFoundedInduction, FiniteSetTheorems, TLAPS

-----------------------------------------------------------------------------
(***************************************************************************)
(* Arithmetic.                                                             *)
(***************************************************************************)

\* Quotient and remainder.
LEMMA DivMod ==
  ASSUME NEW a \in Nat, NEW d \in Nat \ {0}
  PROVE  a \div d \in Nat /\ a % d \in 0 .. d - 1 /\ a = d * (a \div d) + (a % d)
OBVIOUS

\* They are the only ones.
LEMMA DivModUnique ==
  ASSUME NEW d \in Nat \ {0}, NEW a, NEW q \in Nat, NEW r \in 0 .. d - 1, a = q * d + r
  PROVE  a \div d = q /\ a % d = r
OBVIOUS

\* Those of a multiple.
LEMMA MultipleMod ==
  ASSUME NEW d \in Nat \ {0}, NEW q \in Nat
  PROVE  q * d \in Nat /\ (q * d) % d = 0 /\ (q * d) \div d = q
OBVIOUS

\* Products of sums.
LEMMA Distribute ==
  ASSUME NEW a \in Int, NEW b \in Int, NEW d \in Int
  PROVE  (a + b) * d = a * d + b * d /\ d * b = b * d
OBVIOUS

\* Quotients of the same divisor grow with what is divided.
LEMMA DivMonotone ==
  ASSUME NEW a \in Nat, NEW b \in Nat, NEW d \in Nat \ {0}, a <= b
  PROVE  a \div d <= b \div d
OBVIOUS

\* Multiples of the same factor grow with what is multiplied.
LEMMA MultMonotone ==
  ASSUME NEW a \in Nat, NEW b \in Nat, NEW c \in Nat, a <= b
  PROVE  a * c <= b * c
OBVIOUS

\* The order of the natural numbers.
LEMMA NatWellFounded == IsWellFoundedOn({p \in Nat \X Nat : p[1] < p[2]}, Nat)
BY NatLessThanWellFounded DEF OpToRel

\* A set of natural numbers with an element has a smallest one.
LEMMA Smallest ==
  ASSUME NEW S, S \subseteq Nat, S # {}
  PROVE  \E x \in S : \A z \in S : x <= z
<1> DEFINE R == {p \in Nat \X Nat : p[1] < p[2]}
<1>1. IsWellFoundedOn(R, Nat)
  BY NatWellFounded
<1> HIDE DEF R
<1>2. PICK x \in S : \A z \in S : <<z, x>> \notin R
  BY <1>1, WFMin
<1>3. ASSUME NEW z \in S PROVE x <= z
  <2>1. <<z, x>> \notin R
    BY <1>2
  <2> QED
    BY <2>1 DEF R
<1> QED
  BY <1>3

-----------------------------------------------------------------------------
(***************************************************************************)
(* PRGStream.                                                              *)
(***************************************************************************)

\* PRG_enc_ecb_inplace encrypts every block, with the scratch buffer or without.
LEMMA EncryptedAll ==
  ASSUME NEW n \in Nat, NEW aliasing \in BOOLEAN
  PROVE  Encrypted(n, aliasing) = 0 .. n - 1
<1>1. CASE aliasing
  BY <1>1 DEF Encrypted
<1>2. CASE ~aliasing
  <2>1. ASSUME NEW k \in 0 .. n - 1
        PROVE  \E off \in {o \in 0 .. n - 1 : o % InplaceChunk = 0} :
                 k \in off .. off + Smaller(n - off, InplaceChunk) - 1
    <3> DEFINE q == k \div InplaceChunk
               off == q * InplaceChunk
    <3>0. k \in Nat
      OBVIOUS
    <3>1. /\ q \in Nat /\ k % InplaceChunk \in 0 .. InplaceChunk - 1
          /\ k = InplaceChunk * q + (k % InplaceChunk)
      BY <3>0, DivMod, PRGAssumption
    <3>2. off % InplaceChunk = 0
      <4> HIDE DEF q
      <4> QED
        BY <3>1, MultipleMod, PRGAssumption
    <3>3. off \in Nat /\ off <= k /\ k < off + InplaceChunk
      BY <3>1, PRGAssumption
    <3> HIDE DEF off, q
    <3>4. k \in off .. off + Smaller(n - off, InplaceChunk) - 1
      BY <3>3, PRGAssumption DEF Smaller
    <3> QED
      BY <3>2, <3>3, <3>4
  <2>2. ASSUME NEW off \in 0 .. n - 1, NEW k \in off .. off + Smaller(n - off, InplaceChunk) - 1
        PROVE  k \in 0 .. n - 1
    BY PRGAssumption DEF Smaller
  <2> QED
    BY <1>2, <2>1, <2>2 DEF Encrypted
<1> QED
  BY <1>1, <1>2

\* A slice that starts with a block or passes the end of one.
Aligned(start, n) == start % BlockSize = 0 \/ start \div BlockSize < (start + n) \div BlockSize

\* A slice that starts with a block or passes the end of one: its parts, the bytes
\* carried over, the whole blocks and the bytes of the block that it cuts, make up its
\* length and end where a block ends.
LEMMA AlignedSlice ==
  ASSUME NEW start \in Nat, NEW n \in Nat, Aligned(start, n)
  PROVE  /\ Carried(start, n) \in 0 .. BlockSize - 1
         /\ FirstEnc(start, n) \in Nat /\ NFull(start, n) \in Nat
         /\ Treated(start, n) = Carried(start, n) + NFull(start, n) * BlockSize
         /\ Treated(start, n) \in Nat
         /\ start + Carried(start, n) = FirstEnc(start, n) * BlockSize
         /\ start + Treated(start, n) = ((start + n) \div BlockSize) * BlockSize
         /\ n = Treated(start, n) + ((start + n) % BlockSize)
<1> DEFINE q == start \div BlockSize
           r == start % BlockSize
           e == (start + n) \div BlockSize
           f == (start + n) % BlockSize
<1>1. /\ q \in Nat /\ r \in 0 .. BlockSize - 1 /\ start = BlockSize * q + r
      /\ e \in Nat /\ f \in 0 .. BlockSize - 1 /\ start + n = BlockSize * e + f
      /\ q <= e
  <2>1. start + n \in Nat /\ start <= start + n
    OBVIOUS
  <2> QED
    BY <2>1, DivMod, DivMonotone, PRGAssumption
<1>2. CASE r = 0
  <2>1. Carried(start, n) = 0
    BY <1>2 DEF Carried
  <2>2. FirstEnc(start, n) = q
    BY <2>1, <1>1 DEF FirstEnc
  <2>3. NFull(start, n) = e - q
    BY <2>2 DEF NFull
  <2>4. Treated(start, n) = (e - q) * BlockSize
    BY <2>1, <2>3, <1>1, PRGAssumption DEF Treated
  <2> HIDE DEF q, r, e, f
  <2>5. (e - q) * BlockSize \in Nat /\ start + (e - q) * BlockSize = e * BlockSize
    BY <1>1, <1>2, PRGAssumption
  <2> QED
    BY <2>1, <2>2, <2>3, <2>4, <2>5, <1>1, <1>2, PRGAssumption DEF q, r, e, f
<1>3. CASE r # 0
  <2>0. q < e
    BY <1>3 DEF Aligned
  <2>1. Carried(start, n) = BlockSize - r
    BY <1>3, <2>0 DEF Carried
  <2>2. FirstEnc(start, n) = q + 1
    BY <2>1, <1>1, PRGAssumption DEF FirstEnc
  <2>3. NFull(start, n) = e - (q + 1)
    BY <2>2 DEF NFull
  <2>4. Treated(start, n) = (BlockSize - r) + (e - (q + 1)) * BlockSize
    BY <2>1, <2>3 DEF Treated
  <2> HIDE DEF q, r, e, f
  <2>5. (e - (q + 1)) * BlockSize \in Nat /\ start + ((BlockSize - r) + (e - (q + 1)) * BlockSize) = e * BlockSize
    BY <1>1, <2>0, PRGAssumption
  <2>6. start + (BlockSize - r) = (q + 1) * BlockSize
    BY <1>1, PRGAssumption
  <2> QED
    BY <2>0, <2>1, <2>2, <2>3, <2>4, <2>5, <2>6, <1>1, <1>3, PRGAssumption DEF q, r, e, f
<1> QED
  BY <1>2, <1>3

\* A slice that stays within the block it starts in: it carries over and encrypts
\* nothing.
LEMMA WithinBlock ==
  ASSUME NEW start \in Nat, NEW n \in Nat, ~Aligned(start, n)
  PROVE  /\ Carried(start, n) = 0 /\ NFull(start, n) = 0 /\ Treated(start, n) = 0
         /\ start % BlockSize \in 1 .. BlockSize - 1
         /\ (start % BlockSize) + n = (start + n) % BlockSize
         /\ (start % BlockSize) + n < BlockSize
         /\ (start + n) \div BlockSize = start \div BlockSize
<1> DEFINE q == start \div BlockSize
           r == start % BlockSize
           e == (start + n) \div BlockSize
           f == (start + n) % BlockSize
<1>1. /\ q \in Nat /\ r \in 0 .. BlockSize - 1 /\ start = BlockSize * q + r
      /\ e \in Nat /\ f \in 0 .. BlockSize - 1 /\ start + n = BlockSize * e + f
      /\ q <= e
  <2>1. start + n \in Nat /\ start <= start + n
    OBVIOUS
  <2> QED
    BY <2>1, DivMod, DivMonotone, PRGAssumption
<1>2. r # 0 /\ q = e
  BY <1>1 DEF Aligned
<1>3. Carried(start, n) = 0
  BY <1>2, <1>1 DEF Carried
<1>4. FirstEnc(start, n) = q
  BY <1>3, <1>1 DEF FirstEnc
<1>5. NFull(start, n) = 0
  BY <1>4, <1>1, <1>2 DEF NFull
<1>6. Treated(start, n) = 0
  BY <1>3, <1>5, PRGAssumption DEF Treated
<1> HIDE DEF q, r, e, f
<1>7. r + n = f /\ r \in 1 .. BlockSize - 1
  BY <1>1, <1>2, PRGAssumption
<1> QED
  BY <1>1, <1>2, <1>3, <1>5, <1>6, <1>7, PRGAssumption DEF q, r, e, f

\* What a call is given is of the stream S, and what it returns.
GivenStream(S, start, n, leftover, run, last) ==
  /\ start % BlockSize # 0 => leftover = S[start \div BlockSize]
  /\ \A k \in 0 .. NFull(start, n) - 1 : run[k] = S[FirstEnc(start, n) + k]
  /\ last = S[(start + n) \div BlockSize]

IsSliceOf(s, S, start, n) ==
  /\ s.out = [b \in 0 .. n - 1 |-> S[(start + b) \div BlockSize][(start + b) % BlockSize]]
  /\ (start + n) % BlockSize # 0 => s.leftover = S[(start + n) \div BlockSize]

\* A slice returns the bytes of its stream, and leaves the block that it cuts.
LEMMA SliceExact ==
  ASSUME NEW start \in Nat, NEW n \in Nat, NEW S, NEW leftover, NEW run, NEW last,
         GivenStream(S, start, n, leftover, run, last)
  PROVE  IsSliceOf(Slice(start, n, leftover, run, last), S, start, n)
<1> DEFINE treated == Treated(start, n)
           kept == IF CutsBlock(start, n) THEN last ELSE leftover
           from == IF treated = 0 THEN start % BlockSize ELSE 0
           C == Carried(start, n)
           byte(b) == IF b < C THEN leftover[(start % BlockSize) + b]
                      ELSE IF b < treated
                      THEN run[(b - C) \div BlockSize][(b - C) % BlockSize]
                      ELSE kept[from + b - treated]
           s == Slice(start, n, leftover, run, last)
<1>1. s.leftover = kept /\ s.out = [b \in 0 .. n - 1 |-> byte(b)]
  BY DEF Slice
<1>2. /\ start % BlockSize # 0 => leftover = S[start \div BlockSize]
      /\ \A k \in 0 .. NFull(start, n) - 1 : run[k] = S[FirstEnc(start, n) + k]
      /\ last = S[(start + n) \div BlockSize]
  BY DEF GivenStream
<1>3. /\ start \div BlockSize \in Nat /\ start % BlockSize \in 0 .. BlockSize - 1
      /\ start = BlockSize * (start \div BlockSize) + (start % BlockSize)
  BY DivMod, PRGAssumption
<1>4. /\ (start + n) \div BlockSize \in Nat /\ (start + n) % BlockSize \in 0 .. BlockSize - 1
  <2>1. start + n \in Nat
    OBVIOUS
  <2> QED
    BY <2>1, DivMod, PRGAssumption
<1>5. CASE Aligned(start, n)
  <2>0. C \in 0 .. BlockSize - 1 /\ treated \in Nat /\ n = treated + ((start + n) % BlockSize)
    BY <1>5, AlignedSlice
  <2>1. (n - treated) = (start + n) % BlockSize /\ treated \in Nat /\ C \in Nat
    <3> HIDE DEF C, treated
    <3> QED
      BY <2>0, <1>4, PRGAssumption
  <2>2. (n - treated) % BlockSize = (start + n) % BlockSize
    <3> DEFINE f == (start + n) % BlockSize
    <3>1. f \in 0 .. BlockSize - 1 /\ f = 0 * BlockSize + f
      BY <1>4, PRGAssumption
    <3> HIDE DEF f
    <3>2. f % BlockSize = f
      BY <3>1, DivModUnique, PRGAssumption
    <3> QED
      BY <3>2, <2>1 DEF f
  <2>3. (start + n) % BlockSize # 0 => kept = S[(start + n) \div BlockSize]
    <3>1. ASSUME (start + n) % BlockSize # 0 PROVE CutsBlock(start, n)
      BY <2>2, <3>1 DEF CutsBlock
    <3>2. CutsBlock(start, n) => kept = last
      OBVIOUS
    <3>3. last = S[(start + n) \div BlockSize]
      BY <1>2
    <3> HIDE DEF kept
    <3> QED
      BY <3>1, <3>2, <3>3
  <2>4. ASSUME NEW b \in 0 .. n - 1
        PROVE  byte(b) = S[(start + b) \div BlockSize][(start + b) % BlockSize]
    <3>1. CASE b < C
      <4>1. start % BlockSize # 0 /\ C = BlockSize - (start % BlockSize)
        BY <3>1, <1>3 DEF Carried
      <4>2. (start % BlockSize) + b \in 0 .. BlockSize - 1
        BY <4>1, <3>1, <1>3, PRGAssumption
      <4>3. start + b = (start \div BlockSize) * BlockSize + ((start % BlockSize) + b)
        BY <1>3, PRGAssumption
      <4>4. /\ (start + b) \div BlockSize = start \div BlockSize
            /\ (start + b) % BlockSize = (start % BlockSize) + b
        BY <4>2, <4>3, <1>3, DivModUnique, PRGAssumption
      <4>5. byte(b) = leftover[(start % BlockSize) + b]
        BY <3>1
      <4> QED
        BY <4>1, <4>4, <4>5, <1>2
    <3>2. CASE ~(b < C) /\ b < treated
      <4> DEFINE u == (b - C) \div BlockSize
                 v == (b - C) % BlockSize
                 F == FirstEnc(start, n)
      <4>1. u \in Nat /\ v \in 0 .. BlockSize - 1 /\ b - C = BlockSize * u + v
        <5>1. b - C \in Nat
          BY <3>2, <2>1
        <5> QED
          BY <5>1, DivMod, PRGAssumption
      <4>2. F \in Nat /\ NFull(start, n) \in Nat /\ start + C = F * BlockSize
            /\ treated = C + NFull(start, n) * BlockSize
        BY <1>5, AlignedSlice
      <4>3. byte(b) = run[u][v]
        BY <3>2
      <4> HIDE DEF u, v, F, C, treated, byte
      <4>4. start + b = (F + u) * BlockSize + v
        <5>1. (F + u) * BlockSize = F * BlockSize + BlockSize * u
          BY <4>1, <4>2, Distribute, PRGAssumption
        <5>2. F * BlockSize \in Int /\ BlockSize * u \in Int
          BY <4>1, <4>2, PRGAssumption
        <5> QED
          BY <4>1, <4>2, <5>1, <5>2, <2>1
      <4>5. u < NFull(start, n)
        <5>1. BlockSize * u < NFull(start, n) * BlockSize
          BY <4>1, <4>2, <3>2, <2>1, PRGAssumption
        <5>2. ASSUME NFull(start, n) <= u PROVE FALSE
          BY <5>1, <5>2, <4>1, <4>2, MultMonotone, PRGAssumption
        <5> QED
          BY <5>2, <4>1, <4>2
      <4>6. run[u] = S[F + u]
        BY <4>1, <4>2, <4>5, <1>2 DEF F
      <4>7. (start + b) \div BlockSize = F + u /\ (start + b) % BlockSize = v
        <5>1. F + u \in Nat
          BY <4>1, <4>2
        <5> QED
          BY <5>1, <4>1, <4>4, DivModUnique, PRGAssumption
      <4> QED
        BY <4>3, <4>6, <4>7
    <3>3. CASE ~(b < C) /\ ~(b < treated)
      <4> DEFINE w == b - treated
                 E == (start + n) \div BlockSize
      <4>1. w \in 0 .. BlockSize - 1 /\ (start + n) % BlockSize # 0
        <5> DEFINE f == (start + n) % BlockSize
        <5>1. n \in Int /\ b \in Int /\ b <= n - 1 /\ f \in 0 .. BlockSize - 1
          BY <1>4
        <5>2. n - treated = f /\ treated \in Nat
          BY <2>1
        <5>3. treated <= b
          BY <5>1, <5>2, <3>3
        <5> HIDE DEF f, treated, C
        <5>4. b - treated \in 0 .. BlockSize - 1 /\ f # 0
          BY <5>1, <5>2, <5>3, PRGAssumption
        <5> QED
          BY <5>4 DEF f
      <4>2. start + treated = E * BlockSize
        BY <1>5, AlignedSlice
      <4>3. from = 0
        <5>1. CASE treated = 0
          <6>1. E \in Nat /\ start = E * BlockSize
            BY <5>1, <4>2, <1>4, PRGAssumption
          <6> HIDE DEF E
          <6>2. start % BlockSize = 0
            BY <6>1, MultipleMod, PRGAssumption
          <6> QED
            BY <5>1, <6>2
        <5> QED
          BY <5>1
      <4>4. byte(b) = kept[w]
        BY <3>3, <4>3, <2>1
      <4> HIDE DEF w, E, treated
      <4>5. start + b = E * BlockSize + w
        BY <4>2, <2>1, <1>4, PRGAssumption DEF w
      <4>6. (start + b) \div BlockSize = E /\ (start + b) % BlockSize = w
        BY <4>1, <4>5, <1>4, DivModUnique, PRGAssumption DEF E
      <4> QED
        BY <4>1, <4>4, <4>6, <2>3 DEF E
    <3> QED
      BY <3>1, <3>2, <3>3
  <2> QED
    BY <1>1, <2>3, <2>4 DEF IsSliceOf
<1>6. CASE ~Aligned(start, n)
  <2>1. /\ C = 0 /\ treated = 0
        /\ start % BlockSize # 0
        /\ (start % BlockSize) + n < BlockSize
        /\ (start + n) \div BlockSize = start \div BlockSize
    BY <1>6, WithinBlock
  <2>2. kept = S[start \div BlockSize]
    <3>1. leftover = S[start \div BlockSize]
      BY <2>1, <1>2
    <3>2. last = S[start \div BlockSize]
      BY <2>1, <1>2
    <3>3. kept = last \/ kept = leftover
      OBVIOUS
    <3> HIDE DEF kept
    <3> QED
      BY <3>1, <3>2, <3>3
  <2>3. ASSUME NEW b \in 0 .. n - 1
        PROVE  byte(b) = S[(start + b) \div BlockSize][(start + b) % BlockSize]
    <3>1. byte(b) = kept[(start % BlockSize) + b]
      BY <2>1, <1>3
    <3>2. (start % BlockSize) + b \in 0 .. BlockSize - 1
      BY <2>1, <1>3, PRGAssumption
    <3>3. start + b = (start \div BlockSize) * BlockSize + ((start % BlockSize) + b)
      BY <1>3, PRGAssumption
    <3>4. /\ (start + b) \div BlockSize = start \div BlockSize
          /\ (start + b) % BlockSize = (start % BlockSize) + b
      BY <3>2, <3>3, <1>3, DivModUnique, PRGAssumption
    <3> QED
      BY <3>1, <3>4, <2>2
  <2> QED
    BY <1>1, <2>1, <2>2, <2>3 DEF IsSliceOf
<1> QED
  BY <1>5, <1>6

\* Blocks returns encrypted counters, in place or not.
LEMMA BlocksExact ==
  ASSUME NEW key, NEW first \in Nat, NEW n \in Nat, NEW aliasing \in BOOLEAN
  PROVE  Blocks(key, first, n, aliasing) = [k \in 0 .. n - 1 |-> CtrBlock(key, first + k)]
<1>1. Encrypted(n, aliasing) = 0 .. n - 1
  BY EncryptedAll
<1> QED
  BY <1>1 DEF Blocks

\* Byte b of a stream is byte b % BlockSize of block b \div BlockSize.
LEMMA PRGExact ==
  ASSUME NEW key, NEW nbytes \in Nat, NEW aliasing \in BOOLEAN
  PROVE  PRG(key, nbytes, aliasing) =
           [b \in 0 .. nbytes - 1 |-> <<key, b \div BlockSize, b % BlockSize>>]
<1> DEFINE nblocks == nbytes \div BlockSize
           full == Blocks(key, 0, nblocks, aliasing)
           tail == Blocks(key, nblocks, 1, aliasing)[0]
<1>1. /\ nblocks \in Nat /\ nbytes % BlockSize \in 0 .. BlockSize - 1
      /\ nbytes = BlockSize * nblocks + (nbytes % BlockSize)
  BY DivMod, PRGAssumption
<1>2. full = [k \in 0 .. nblocks - 1 |-> CtrBlock(key, k)]
  BY <1>1, BlocksExact
<1>3. tail = CtrBlock(key, nblocks)
  BY <1>1, BlocksExact
<1>4. ASSUME NEW b \in 0 .. nbytes - 1
      PROVE  (IF b < nblocks * BlockSize
                THEN full[b \div BlockSize][b % BlockSize]
                ELSE tail[b - nblocks * BlockSize]) = <<key, b \div BlockSize, b % BlockSize>>
  <2>0. b \in Nat /\ b <= nbytes - 1
    OBVIOUS
  <2>1. /\ b \div BlockSize \in Nat /\ b % BlockSize \in 0 .. BlockSize - 1
        /\ b = BlockSize * (b \div BlockSize) + (b % BlockSize)
    BY <2>0, DivMod, PRGAssumption
  <2>2. CASE b < nblocks * BlockSize
    <3> DEFINE u == b \div BlockSize
    <3>1. u < nblocks
      <4>1. u \in Nat /\ u * BlockSize <= b
        BY <2>1, PRGAssumption
      <4> HIDE DEF u, nblocks
      <4>2. ASSUME nblocks <= u PROVE FALSE
        <5>1. nblocks * BlockSize <= u * BlockSize
          BY <4>1, <4>2, <1>1, MultMonotone, PRGAssumption
        <5>2. nblocks * BlockSize \in Int /\ u * BlockSize \in Int
          BY <4>1, <1>1, PRGAssumption
        <5> QED
          BY <5>1, <5>2, <4>1, <2>2
      <4> QED
        BY <4>1, <4>2, <1>1
    <3>2. full[u] = CtrBlock(key, u)
      BY <3>1, <2>1, <1>1, <1>2
    <3> QED
      BY <2>1, <2>2, <3>2 DEF CtrBlock
  <2>3. CASE ~(b < nblocks * BlockSize)
    <3> DEFINE w == b - nblocks * BlockSize
    <3>1. w \in 0 .. BlockSize - 1 /\ b = nblocks * BlockSize + w
      <4> DEFINE p == nblocks * BlockSize
      <4>1. BlockSize * nblocks = p /\ p \in Int
        BY <1>1, PRGAssumption
      <4> DEFINE r == nbytes % BlockSize
      <4>2. nbytes = p + r /\ r \in 0 .. BlockSize - 1 /\ ~(b < p)
        BY <4>1, <1>1, <2>3
      <4> HIDE DEF p, r
      <4>3. b - p \in 0 .. BlockSize - 1 /\ b = p + (b - p)
        BY <4>1, <4>2, <2>0, PRGAssumption
      <4> QED
        BY <4>3 DEF p
    <3> HIDE DEF w, nblocks
    <3>2. b \div BlockSize = nblocks /\ b % BlockSize = w
      BY <3>1, <1>1, DivModUnique, PRGAssumption
    <3>3. tail[w] = <<key, nblocks, w>>
      BY <3>1, <1>3 DEF CtrBlock
    <3> QED
      BY <2>3, <3>2, <3>3 DEF w
  <2> QED
    BY <2>2, <2>3
<1> HIDE DEF full, tail, nblocks
<1>5. PRG(key, nbytes, aliasing) =
        [b \in 0 .. nbytes - 1 |-> IF b < nblocks * BlockSize
                                     THEN full[b \div BlockSize][b % BlockSize]
                                     ELSE tail[b - nblocks * BlockSize]]
  BY DEF PRG, full, tail, nblocks
<1> QED
  BY <1>4, <1>5

-----------------------------------------------------------------------------
(***************************************************************************)
(* ExpandMQ: the rows of the equations.                                    *)
(***************************************************************************)

\* The elements of the rows before row j.
Triangle(j) == (j * (j + 1)) \div 2

\* The number of elements above row j, without the division.
LEMMA TriangleExact ==
  ASSUME NEW j \in Nat
  PROVE  Triangle(j) \in Nat /\ 2 * Triangle(j) = j * (j + 1)
<1> DEFINE m == j \div 2
<1>1. m \in Nat /\ j % 2 \in 0 .. 1 /\ j = 2 * m + (j % 2)
  BY DivMod
<1> HIDE DEF m
<1>2. CASE j % 2 = 0
  <2>1. j = 2 * m
    BY <1>1, <1>2
  <2>2. j * (j + 1) = (m * (j + 1)) * 2 /\ m * (j + 1) \in Nat
    BY <2>1, <1>1
  <2>3. Triangle(j) = m * (j + 1)
    <3> DEFINE q == m * (j + 1)
    <3> HIDE DEF q
    <3>1. (q * 2) \div 2 = q
      BY <2>2, MultipleMod DEF q
    <3> QED
      BY <3>1, <2>2 DEF Triangle, q
  <2> QED
    BY <2>2, <2>3
<1>3. CASE j % 2 = 1
  <2>1. j = 2 * m + 1
    BY <1>1, <1>3
  <2>2. j * (j + 1) = (j * (m + 1)) * 2 /\ j * (m + 1) \in Nat
    BY <2>1, <1>1
  <2>3. Triangle(j) = j * (m + 1)
    <3> DEFINE q == j * (m + 1)
    <3> HIDE DEF q
    <3>1. (q * 2) \div 2 = q
      BY <2>2, MultipleMod DEF q
    <3> QED
      BY <3>1, <2>2 DEF Triangle, q
  <2> QED
    BY <2>2, <2>3
<1> QED
  BY <1>1, <1>2, <1>3

\* Row j has j + 1 elements.
LEMMA TriangleNext ==
  ASSUME NEW j \in Nat
  PROVE  Triangle(j + 1) = Triangle(j) + j + 1
<1>1. 2 * Triangle(j + 1) = (j + 1) * (j + 2) /\ Triangle(j + 1) \in Nat
  BY TriangleExact
<1>2. 2 * Triangle(j) = j * (j + 1) /\ Triangle(j) \in Nat
  BY TriangleExact
<1>3. (j + 1) * (j + 2) = j * (j + 1) + 2 * (j + 1)
  OBVIOUS
<1> QED
  BY <1>1, <1>2, <1>3

\* Row j ends where a later one starts, at most.
LEMMA TriangleMonotone ==
  ASSUME NEW j \in Nat, NEW k \in Nat, j < k
  PROVE  Triangle(j) + j + 1 <= Triangle(k)
<1>1. 2 * Triangle(j + 1) = (j + 1) * (j + 2) /\ Triangle(j + 1) \in Nat
  BY TriangleExact
<1>2. 2 * Triangle(k) = k * (k + 1) /\ Triangle(k) \in Nat
  BY TriangleExact
<1>3. (j + 1) * (j + 2) <= k * (k + 1)
  <2>1. (j + 1) * (j + 2) <= k * (j + 2)
    BY MultMonotone
  <2>2. (j + 2) * k <= (k + 1) * k
    BY MultMonotone
  <2>3. (j + 2) * k = k * (j + 2) /\ (k + 1) * k = k * (k + 1)
        /\ (j + 1) * (j + 2) \in Int /\ k * (j + 2) \in Int /\ k * (k + 1) \in Int
    OBVIOUS
  <2> QED
    BY <2>1, <2>2, <2>3
<1>4. Triangle(j + 1) <= Triangle(k)
  BY <1>1, <1>2, <1>3
<1> QED
  BY <1>4, TriangleNext

\* Where row j starts.
LEMMA StartExact ==
  ASSUME NEW j \in Nat
  PROVE  Start_nbytes(j) = Triangle(j) * ELT /\ Start_nbytes(j) \in Nat
BY TriangleExact, ExpandMQAssumption DEF Start_nbytes, Triangle

\* Row j + 1 starts where row j ends.
LEMMA StartNext ==
  ASSUME NEW j \in 0 .. N - 1
  PROVE  Start_nbytes(j + 1) = Start_nbytes(j) + Nbytes(j)
<1>1. j \in Nat /\ j + 1 \in Nat /\ j # N
  BY ExpandMQAssumption
<1>2. Start_nbytes(j + 1) = Triangle(j + 1) * ELT /\ Start_nbytes(j) = Triangle(j) * ELT
  BY <1>1, StartExact
<1>3. Triangle(j + 1) = Triangle(j) + (j + 1) /\ Triangle(j) \in Nat
  BY <1>1, TriangleNext, TriangleExact
<1>4. (Triangle(j) + (j + 1)) * ELT = Triangle(j) * ELT + (j + 1) * ELT
  BY <1>1, <1>3, Distribute, ExpandMQAssumption
<1> QED
  BY <1>1, <1>2, <1>3, <1>4 DEF Nbytes
\* The running offset of ExpandEquations is the start that ExpandEquations_memopt_update
\* computes. RowOffset is recursive: there is a function with its equation, and a
\* smallest row where that function is off leads to a contradiction.
LEMMA RowOffsetExact ==
  ASSUME NEW j \in 0 .. N
  PROVE  RowOffset[j] = Start_nbytes(j)
<1> DEFINE g == [k \in 0 .. N |-> Start_nbytes(k)]
           Bad == {k \in 0 .. N : RowOffset[k] # Start_nbytes(k)}
<1>0. Start_nbytes(0) = 0
  BY ExpandMQAssumption DEF Start_nbytes
<1>1. ASSUME NEW k \in 0 .. N, k # 0
      PROVE  k - 1 \in 0 .. N /\ Start_nbytes(k) = Start_nbytes(k - 1) + k * ELT
  <2>1. k - 1 \in 0 .. N - 1
    BY <1>1, ExpandMQAssumption
  <2>2. (k - 1) + 1 = k /\ k - 1 # N
    BY <2>1, ExpandMQAssumption
  <2>3. Nbytes(k - 1) = k * ELT
    BY <2>2 DEF Nbytes
  <2> QED
    BY <2>1, <2>2, <2>3, StartNext, ExpandMQAssumption
<1>2. g = [k \in 0 .. N |-> IF k = 0 THEN 0 ELSE g[k - 1] + k * ELT]
  BY <1>0, <1>1
<1> HIDE DEF g
<1>3. RowOffset = [k \in 0 .. N |-> IF k = 0 THEN 0 ELSE RowOffset[k - 1] + k * ELT]
  BY <1>2 DEF RowOffset
<1>4. ASSUME Bad # {} PROVE FALSE
  <2>1. Bad \subseteq Nat
    OBVIOUS
  <2> HIDE DEF Bad
  <2>2. PICK k \in Bad : \A m \in Bad : k <= m
    BY <1>4, <2>1, Smallest
  <2>3. k \in 0 .. N /\ RowOffset[k] # Start_nbytes(k)
    BY <2>2 DEF Bad
  <2>4. CASE k = 0
    BY <2>3, <2>4, <1>0, <1>3
  <2>5. CASE k # 0
    <3>1. k - 1 \in 0 .. N /\ Start_nbytes(k) = Start_nbytes(k - 1) + k * ELT
      BY <2>3, <2>5, <1>1
    <3>2. RowOffset[k] = RowOffset[k - 1] + k * ELT
      BY <2>3, <2>5, <1>3
    <3>3. k - 1 \notin Bad
      BY <2>2, <2>3
    <3>4. RowOffset[k - 1] = Start_nbytes(k - 1)
      BY <3>1, <3>3 DEF Bad
    <3> QED
      BY <3>1, <3>2, <3>4, <2>3
  <2> QED
    BY <2>4, <2>5
<1> QED
  BY <1>4

-----------------------------------------------------------------------------
\* Row j of equation i, by the definition.
RowOf(i, j) == [b \in 0 .. Nbytes(j) - 1 |-> RowByte(i, j, b)]

\* Byte b of row j is byte Start_nbytes(j) + b of the stream.
LEMMA RowByteExact ==
  ASSUME NEW i, NEW j, NEW b
  PROVE  RowByte(i, j, b) = <<i, (Start_nbytes(j) + b) \div BlockSize, (Start_nbytes(j) + b) % BlockSize>>
BY DEF RowByte, Start_nbytes

\* The length of a row is a number.
LEMMA NbytesExact ==
  ASSUME NEW j \in 0 .. N
  PROVE  Nbytes(j) \in Nat
<1>1. j \in Nat
  BY ExpandMQAssumption
<1> QED
  BY <1>1, ExpandMQAssumption DEF Nbytes

\* Every row ends within the stream of the equation.
LEMMA RowInStream ==
  ASSUME NEW j \in 0 .. N
  PROVE  Nb_eq \in Nat /\ Start_nbytes(j) + Nbytes(j) <= Nb_eq
<1>0. j \in Nat /\ N \in Nat /\ ELT \in Nat
  BY ExpandMQAssumption
<1>1. Triangle(N) \in Nat /\ Triangle(j) \in Nat
  BY <1>0, TriangleExact
<1>2. Nb_eq = (N + Triangle(N)) * ELT
  BY DEF Nb_eq, Triangle
<1>3. Start_nbytes(j) = Triangle(j) * ELT
  BY <1>0, StartExact
<1>4. CASE j = N
  <2>1. Nbytes(j) = N * ELT
    BY <1>4 DEF Nbytes
  <2>2. (N + Triangle(N)) * ELT = N * ELT + Triangle(N) * ELT
    BY <1>0, <1>1, Distribute
  <2>3. N * ELT \in Nat /\ Triangle(N) * ELT \in Nat
    BY <1>0, <1>1
  <2> QED
    BY <1>2, <1>3, <1>4, <2>1, <2>2, <2>3
<1>5. CASE j # N
  <2>1. Nbytes(j) = (j + 1) * ELT
    BY <1>5 DEF Nbytes
  <2>2. Triangle(j) + j + 1 <= Triangle(N)
    BY <1>0, <1>5, TriangleMonotone
  <2>3. (Triangle(j) + (j + 1)) * ELT <= (N + Triangle(N)) * ELT
    <3>1. Triangle(j) + (j + 1) \in Nat /\ N + Triangle(N) \in Nat /\ Triangle(j) + (j + 1) <= N + Triangle(N)
      BY <2>2, <1>0, <1>1
    <3> QED
      BY <3>1, <1>0, MultMonotone
  <2>4. (Triangle(j) + (j + 1)) * ELT = Triangle(j) * ELT + (j + 1) * ELT
    BY <1>0, <1>1, Distribute
  <2>5. (N + Triangle(N)) * ELT \in Nat
    BY <1>0, <1>1
  <2> QED
    BY <1>2, <1>3, <2>1, <2>3, <2>4, <2>5
<1> QED
  BY <1>4, <1>5

\* ExpandEquations reads the rows of the definition.
LEMMA ParsedExact ==
  ASSUME NEW i \in Eqs, NEW aliasing \in BOOLEAN, NEW j \in 0 .. N
  PROVE  ParsedEquation(i, aliasing)[j] = RowOf(i, j)
<1>1. Nb_eq \in Nat /\ Start_nbytes(j) + Nbytes(j) <= Nb_eq /\ Nbytes(j) \in Nat /\ Start_nbytes(j) \in Nat
  <2>1. j \in Nat
    BY ExpandMQAssumption
  <2> QED
    BY <2>1, RowInStream, NbytesExact, StartExact
<1>2. PRG(i, Nb_eq, aliasing) = [b \in 0 .. Nb_eq - 1 |-> <<i, b \div BlockSize, b % BlockSize>>]
  BY <1>1, PRGExact
<1>3. RowOffset[j] = Start_nbytes(j)
  BY RowOffsetExact
<1>4. ASSUME NEW b \in 0 .. Nbytes(j) - 1
      PROVE  PRG(i, Nb_eq, aliasing)[RowOffset[j] + b] = RowByte(i, j, b)
  <2>1. Start_nbytes(j) + b \in 0 .. Nb_eq - 1
    BY <1>1
  <2> QED
    BY <2>1, <1>2, <1>3, RowByteExact
<1> QED
  BY <1>4 DEF ParsedEquation, RowOf

\* The context between two rows of equation i, of which j have been returned.
ContextAt(ctx, i, j) ==
  /\ ctx.magic /\ ctx.i = i /\ ctx.j = j
  /\ j > 0 => ctx.sched = i
  /\ j > 0 /\ Start_nbytes(j) % BlockSize # 0 =>
       ctx.leftover = CtrBlock(i, Start_nbytes(j) \div BlockSize)

\* A streaming context.
IsContext(ctx) ==
  \E m \in BOOLEAN : \E i, j, s, l : ctx = [magic |-> m, i |-> i, j |-> j, sched |-> s, leftover |-> l]

\* The next row, or row 0 of the next equation.
LEMMA AdvancedExact ==
  ASSUME NEW m, NEW i \in Nat, NEW j \in Nat, NEW sc, NEW lo
  PROVE  Advanced([magic |-> m, i |-> i, j |-> j, sched |-> sc, leftover |-> lo]) =
           [magic |-> m, i |-> IF (j + 1) % (N + 1) = 0 THEN i + 1 ELSE i,
            j |-> (j + 1) % (N + 1), sched |-> sc, leftover |-> lo]
<1> DEFINE next == (j + 1) % (N + 1)
           ctx == [magic |-> m, i |-> i, j |-> j, sched |-> sc, leftover |-> lo]
<1>1. Advanced(ctx) = [ctx EXCEPT !.j = next, !.i = IF next = 0 THEN i + 1 ELSE i]
  BY DEF Advanced
<1> HIDE DEF next
<1>2. CASE next = 0
  <2>1. Advanced(ctx) = [ctx EXCEPT !.j = next, !.i = i + 1]
    BY <1>1, <1>2
  <2> QED
    BY <2>1, <1>2 DEF next
<1>3. CASE next # 0
  <2>1. Advanced(ctx) = [ctx EXCEPT !.j = next, !.i = i]
    BY <1>1, <1>3
  <2> QED
    BY <2>1, <1>3 DEF next
<1> QED
  BY <1>2, <1>3

\* An update returns the next row of the definition, and its context is ready for the
\* row after it.
LEMMA UpdateExact ==
  ASSUME NEW ctx, NEW i \in Eqs, NEW j \in 0 .. N, NEW aliasing \in BOOLEAN,
         IsContext(ctx), ContextAt(ctx, i, j)
  PROVE  LET u == ExpandEquations_memopt_update(ctx, aliasing)
         IN  /\ u.row = RowOf(i, j)
             /\ IsContext(u.ctx)
             /\ IF j < N THEN ContextAt(u.ctx, i, j + 1) ELSE ContextAt(u.ctx, i + 1, 0)
<1> DEFINE c == Keyed(ctx)
           start == Start_nbytes(j)
           n == Nbytes(j)
           s == PRG_memopt_with_ctx(i, start, n, c.leftover, aliasing)
           S == [k \in Nat |-> CtrBlock(i, k)]
           u == ExpandEquations_memopt_update(ctx, aliasing)
<1>0. /\ j \in Nat /\ N \in Nat \ {0} /\ i \in Nat
      /\ start \in Nat /\ n \in Nat
  BY StartExact, NbytesExact, ExpandMQAssumption DEF Eqs
<1>ctx. PICK m \in BOOLEAN :
        \E k, l, sc, lo : ctx = [magic |-> m, i |-> k, j |-> l, sched |-> sc, leftover |-> lo]
  BY DEF IsContext
<1>1. PICK k, l, sc, lo : ctx = [magic |-> m, i |-> k, j |-> l, sched |-> sc, leftover |-> lo]
  BY <1>ctx
<1>2. m /\ k = i /\ l = j
  BY <1>1 DEF ContextAt
<1>3. c = [magic |-> m, i |-> i, j |-> j, sched |-> i, leftover |-> lo]
  <2>1. CASE j = 0
    BY <1>1, <1>2, <2>1 DEF Keyed, NeedsSeed
  <2>2. CASE j # 0
    <3>1. sc = i
      BY <1>1, <2>2, <1>0 DEF ContextAt
    <3> QED
      BY <1>1, <1>2, <2>2, <3>1 DEF Keyed, NeedsSeed
  <2> QED
    BY <2>1, <2>2
<1>4. start % BlockSize # 0 => lo = S[start \div BlockSize]
  <2>1. start \div BlockSize \in Nat
    BY <1>0, DivMod, PRGAssumption
  <2>2. j = 0 => start % BlockSize = 0
    <3>1. j = 0 => start = 0 * BlockSize
      BY ExpandMQAssumption, PRGAssumption DEF Start_nbytes
    <3>2. (0 * BlockSize) % BlockSize = 0
      BY MultipleMod, PRGAssumption
    <3> QED
      BY <3>1, <3>2
  <2> QED
    BY <1>0, <1>1, <2>1, <2>2 DEF ContextAt
<1> DEFINE run == Blocks(i, FirstEnc(start, n), NFull(start, n), aliasing)
           last == Blocks(i, (start + n) \div BlockSize, 1, aliasing)[0]
<1>5. s = Slice(start, n, lo, run, last)
  BY <1>3 DEF PRG_memopt_with_ctx
<1>6. \A b \in 0 .. NFull(start, n) - 1 : run[b] = S[FirstEnc(start, n) + b]
  <2>1. CASE Aligned(start, n)
    <3>1. FirstEnc(start, n) \in Nat /\ NFull(start, n) \in Nat
      BY <1>0, <2>1, AlignedSlice
    <3>2. run = [b \in 0 .. NFull(start, n) - 1 |-> CtrBlock(i, FirstEnc(start, n) + b)]
      BY <3>1, BlocksExact
    <3> QED
      BY <3>1, <3>2
  <2>2. CASE ~Aligned(start, n)
    <3>1. NFull(start, n) = 0
      BY <1>0, <2>2, WithinBlock
    <3> QED
      BY <3>1
  <2> QED
    BY <2>1, <2>2
<1>7. last = S[(start + n) \div BlockSize]
  <2>1. start + n \in Nat
    BY <1>0
  <2>2. (start + n) \div BlockSize \in Nat
    BY <2>1, DivMod, PRGAssumption
  <2> QED
    BY <2>2, BlocksExact
<1>8. /\ s.out = [b \in 0 .. n - 1 |-> S[(start + b) \div BlockSize][(start + b) % BlockSize]]
      /\ (start + n) % BlockSize # 0 => s.leftover = S[(start + n) \div BlockSize]
  <2> DEFINE slice == Slice(start, n, lo, run, last)
  <2>1. start \in Nat /\ n \in Nat
    BY <1>0
  <2> HIDE DEF S, run, last, start, n
  <2>2. GivenStream(S, start, n, lo, run, last)
    BY <1>4, <1>6, <1>7 DEF GivenStream
  <2>3. IsSliceOf(slice, S, start, n)
    BY <2>1, <2>2, SliceExact
  <2> QED
    BY <2>3, <1>5 DEF IsSliceOf
<1>9. s.out = RowOf(i, j)
  <2>1. ASSUME NEW b \in 0 .. n - 1
        PROVE  S[(start + b) \div BlockSize][(start + b) % BlockSize] = RowByte(i, j, b)
    <3>1. start + b \in Nat
      BY <1>0
    <3>2. (start + b) \div BlockSize \in Nat /\ (start + b) % BlockSize \in 0 .. BlockSize - 1
      BY <3>1, DivMod, PRGAssumption
    <3> QED
      BY <3>2, RowByteExact DEF CtrBlock
  <2> QED
    BY <1>8, <2>1 DEF RowOf
<1>10. u = [row |-> s.out, ctx |-> Advanced([c EXCEPT !.leftover = s.leftover])]
  BY <1>3 DEF ExpandEquations_memopt_update
<1> DEFINE d == [magic |-> m, i |-> i, j |-> j, sched |-> i, leftover |-> s.leftover]
<1>11. [c EXCEPT !.leftover = s.leftover] = d
  BY <1>3
<1>12. CASE j < N
  <2>1. (j + 1) % (N + 1) = j + 1
    <3>1. j + 1 = 0 * (N + 1) + (j + 1) /\ j + 1 \in 0 .. (N + 1) - 1 /\ N + 1 \in Nat \ {0}
      BY <1>0, <1>12
    <3> QED
      BY <3>1, DivModUnique
  <2>2. Advanced(d) = [magic |-> m, i |-> i, j |-> j + 1, sched |-> i, leftover |-> s.leftover]
    <3> DEFINE lo1 == s.leftover
    <3> HIDE DEF lo1
    <3>1. Advanced([magic |-> m, i |-> i, j |-> j, sched |-> i, leftover |-> lo1]) =
            [magic |-> m, i |-> IF (j + 1) % (N + 1) = 0 THEN i + 1 ELSE i,
             j |-> (j + 1) % (N + 1), sched |-> i, leftover |-> lo1]
      BY <1>0, AdvancedExact
    <3> QED
      BY <2>1, <1>0, <3>1 DEF lo1
  <2>3. Start_nbytes(j + 1) = start + n
    BY <1>0, <1>12, StartNext
  <2>4. (start + n) % BlockSize # 0 => s.leftover = CtrBlock(i, (start + n) \div BlockSize)
    <3>1. start + n \in Nat
      BY <1>0
    <3>2. (start + n) \div BlockSize \in Nat
      BY <3>1, DivMod, PRGAssumption
    <3> QED
      BY <3>2, <1>8
  <2>5. u.ctx = Advanced(d) /\ u.row = s.out
    BY <1>10, <1>11
  <2> HIDE DEF u, s, start, n, d
  <2>6. ContextAt(u.ctx, i, j + 1)
    BY <2>2, <2>3, <2>4, <2>5, <1>2 DEF ContextAt
  <2>7. IsContext(u.ctx)
    BY <2>2, <2>5 DEF IsContext
  <2> QED
    BY <2>5, <2>6, <2>7, <1>9, <1>12 DEF u
<1>13. CASE ~(j < N)
  <2>1. (j + 1) % (N + 1) = 0
    <3>1. j + 1 = 1 * (N + 1) /\ N + 1 \in Nat \ {0}
      BY <1>0, <1>13
    <3> QED
      BY <3>1, MultipleMod
  <2>2. Advanced(d) = [magic |-> m, i |-> i + 1, j |-> 0, sched |-> i, leftover |-> s.leftover]
    <3> DEFINE lo1 == s.leftover
    <3> HIDE DEF lo1
    <3>1. Advanced([magic |-> m, i |-> i, j |-> j, sched |-> i, leftover |-> lo1]) =
            [magic |-> m, i |-> IF (j + 1) % (N + 1) = 0 THEN i + 1 ELSE i,
             j |-> (j + 1) % (N + 1), sched |-> i, leftover |-> lo1]
      BY <1>0, AdvancedExact
    <3> QED
      BY <2>1, <1>0, <3>1 DEF lo1
  <2>5. u.ctx = Advanced(d) /\ u.row = s.out
    BY <1>10, <1>11
  <2> HIDE DEF u, s, start, n, d
  <2>6. ContextAt(u.ctx, i + 1, 0)
    BY <2>2, <2>5, <1>2 DEF ContextAt
  <2>7. IsContext(u.ctx)
    BY <2>2, <2>5 DEF IsContext
  <2> QED
    BY <2>5, <2>6, <2>7, <1>9, <1>13 DEF u
<1> QED
  BY <1>12, <1>13

-----------------------------------------------------------------------------
\* The product of row j with x.
ProductOf(i, j) == TimesX(RowOf(i, j), j + 1)

\* Element k of a row.
LEMMA ElemExact ==
  ASSUME NEW i, NEW j \in 0 .. N, NEW k \in Nat, (k + 1) * ELT <= Nbytes(j)
  PROVE  Elem(RowOf(i, j), k) = [b \in 0 .. ELT - 1 |-> RowByte(i, j, k * ELT + b)]
<1>1. ASSUME NEW b \in 0 .. ELT - 1
      PROVE  RowOf(i, j)[k * ELT + b] = RowByte(i, j, k * ELT + b)
  <2>1. (k + 1) * ELT = k * ELT + ELT /\ k * ELT \in Nat
    BY ExpandMQAssumption
  <2>2. k * ELT + b \in 0 .. Nbytes(j) - 1
    BY <2>1, NbytesExact, ExpandMQAssumption
  <2> QED
    BY <2>2 DEF RowOf
<1> QED
  BY <1>1 DEF Elem

\* The products of the rows of an equation evaluate to its public map.
LEMMA EvaluatedExact ==
  ASSUME NEW i
  PROVE  Evaluated([j \in 0 .. N - 1 |-> ProductOf(i, j)], RowOf(i, N)) = PublicMap(i)
<1> DEFINE elem(j, k) == [b \in 0 .. ELT - 1 |-> RowByte(i, j, k * ELT + b)]
<1>0. N \in Nat \ {0} /\ ELT \in Nat
  BY ExpandMQAssumption
<1>1. ASSUME NEW j \in 0 .. N - 1
      PROVE  ProductOf(i, j) = {<<elem(j, k), k>> : k \in 0 .. j}
  <2>1. ASSUME NEW k \in 0 .. j PROVE Elem(RowOf(i, j), k) = elem(j, k)
    <3>1. j \in 0 .. N /\ k \in Nat /\ j # N /\ k + 1 \in Nat /\ j + 1 \in Nat /\ k + 1 <= j + 1
      BY <1>0
    <3>2. (k + 1) * ELT <= (j + 1) * ELT
      BY <3>1, <1>0, MultMonotone
    <3>3. Nbytes(j) = (j + 1) * ELT
      BY <3>1 DEF Nbytes
    <3> QED
      BY <3>1, <3>2, <3>3, ElemExact
  <2>2. 0 .. (j + 1) - 1 = 0 .. j
    BY <1>0
  <2> QED
    BY <2>1, <2>2 DEF ProductOf, TimesX
<1>2. TimesX(RowOf(i, N), N) = {<<elem(N, k), k>> : k \in 0 .. N - 1}
  <2>1. ASSUME NEW k \in 0 .. N - 1 PROVE Elem(RowOf(i, N), k) = elem(N, k)
    <3>1. N \in 0 .. N /\ k \in Nat /\ k + 1 \in Nat /\ k + 1 <= N
      BY <1>0
    <3>2. (k + 1) * ELT <= N * ELT
      BY <3>1, <1>0, MultMonotone
    <3>3. Nbytes(N) = N * ELT
      BY DEF Nbytes
    <3> QED
      BY <3>1, <3>2, <3>3, ElemExact
  <2> QED
    BY <2>1 DEF TimesX
<1> DEFINE products == [j \in 0 .. N - 1 |-> ProductOf(i, j)]
           quadratic == {<<elem(p[1], p[2]), p[2], p[1]>> :
                           p \in {q \in (0 .. N - 1) \X (0 .. N - 1) : q[2] <= q[1]}}
           linear == {<<elem(N, k), k, Linear>> : k \in 0 .. N - 1}
<1>3. PublicMap(i) = quadratic \cup linear
  BY DEF PublicMap
<1> DEFINE Q == UNION {{<<t[1], t[2], j>> : t \in products[j]} : j \in DOMAIN products}
           L == {<<t[1], t[2], Linear>> : t \in TimesX(RowOf(i, N), N)}
<1>4. Q = quadratic
  <2>1. ASSUME NEW x \in quadratic
        PROVE  \E j \in 0 .. N - 1 : \E t \in products[j] : x = <<t[1], t[2], j>>
    <3>1. PICK p \in (0 .. N - 1) \X (0 .. N - 1) : p[2] <= p[1] /\ x = <<elem(p[1], p[2]), p[2], p[1]>>
      OBVIOUS
    <3>2. p[1] \in 0 .. N - 1 /\ p[2] \in 0 .. p[1]
      BY <3>1
    <3>3. <<elem(p[1], p[2]), p[2]>> \in products[p[1]]
      BY <3>2, <1>1
    <3> HIDE DEF elem
    <3> QED
      BY <3>1, <3>2, <3>3
  <2>2. ASSUME NEW j \in 0 .. N - 1, NEW t \in products[j]
        PROVE  <<t[1], t[2], j>> \in quadratic
    <3>1. PICK k \in 0 .. j : t = <<elem(j, k), k>>
      BY <1>1
    <3>2. <<j, k>> \in {q \in (0 .. N - 1) \X (0 .. N - 1) : q[2] <= q[1]}
      BY <1>0
    <3> QED
      BY <3>1, <3>2
  <2>3. DOMAIN products = 0 .. N - 1
    OBVIOUS
  <2> HIDE DEF products, quadratic
  <2> QED
    BY <2>1, <2>2, <2>3
<1>5. L = linear
  <2> DEFINE T == TimesX(RowOf(i, N), N)
  <2>1. ASSUME NEW k \in 0 .. N - 1
        PROVE  \E t \in T : <<elem(N, k), k, Linear>> = <<t[1], t[2], Linear>>
    <3>1. <<elem(N, k), k>> \in T
      BY <1>2
    <3> HIDE DEF T, elem
    <3> QED
      BY <3>1
  <2>2. ASSUME NEW t \in T
        PROVE  \E k \in 0 .. N - 1 : <<t[1], t[2], Linear>> = <<elem(N, k), k, Linear>>
    <3>1. PICK k \in 0 .. N - 1 : t = <<elem(N, k), k>>
      BY <1>2
    <3> QED
      BY <3>1
  <2> HIDE DEF elem, T
  <2> QED
    BY <2>1, <2>2 DEF T
<1>6. Evaluated(products, RowOf(i, N)) =
        Q \cup L
  <2> HIDE DEF products
  <2> QED
    BY DEF Evaluated
<1>7. Evaluated(products, RowOf(i, N)) = PublicMap(i)
  <2> HIDE DEF quadratic, linear, products, Q, L
  <2> QED
    BY <1>3, <1>4, <1>5, <1>6
<1> QED
  BY <1>7

-----------------------------------------------------------------------------
(***************************************************************************)
(* The key generation.                                                     *)
(***************************************************************************)

\* The builds, with any batch width of the XOF and either kind of block cipher.
AllBuilds == [streamed : BOOLEAN, width : {1, 4, 8}, aliasing : BOOLEAN]

KeyGenSpec == KeyGenInit(AllBuilds, "sample") /\ [][KeyGenNext]_kg_vars

\* The public key of the definition.
Values == [i \in Eqs |-> PublicMap(i)]
PublicKey == [mseed_eq |-> "mseed", y |-> Values, x |-> FALSE]

\* The contexts of the rows, and which rows there are.
KGTypeOK ==
  /\ kg_build \in AllBuilds
  /\ kg_pc \in {"sample", "enter", "expand", "row", "serialize", "cleanup", "return", "done"}
  /\ IsContext(EEctx)
  /\ DOMAIN A_hat \subseteq Eqs \X (0 .. N)

\* Before the expansion nothing is there.
NotStarted ==
  kg_pc \in {"sample", "enter"} =>
    /\ i_eq = 0 /\ A_hat = [p \in {} |-> 0] /\ y = [p \in {} |-> 0] /\ vect_tmp = [p \in {} |-> 0]
    /\ EEctx = NoCtx

\* Outside KeyGen nothing is held.
NothingHeld == kg_pc \in {"sample", "enter", "return", "done"} => allocated = {} /\ ~EEctx.magic

\* The default build: all rows of the equations expanded so far.
RowsParsed ==
  kg_pc = "expand" =>
    /\ ~kg_build.streamed
    /\ i_eq \in 0 .. NB_EQ
    /\ DOMAIN A_hat = (0 .. i_eq - 1) \X (0 .. N)

\* The memory efficient build: the products of the rows of equation i_eq read so
\* far, the values of the equations before it.
RowsMultiplied ==
  kg_pc = "row" =>
    /\ kg_build.streamed
    /\ i_eq \in Eqs
    /\ \E j \in 0 .. N : /\ ContextAt(EEctx, i_eq, j)
                         /\ vect_tmp = [k \in 0 .. j - 1 |-> ProductOf(i_eq, k)]
    /\ y = [i \in 0 .. i_eq - 1 |-> PublicMap(i)]

\* The value at x.
Evaluation == kg_pc = "serialize" => y = Values

\* What KeyGen returns.
KeysWritten ==
  kg_pc \in {"cleanup", "return"} /\ kg_ret = 0 => pk = PublicKey /\ sk = [PublicKey EXCEPT !.x = TRUE]

\* The inductive invariant.
KGInv == /\ KGTypeOK /\ NotStarted /\ NothingHeld
         /\ RowsParsed /\ RowsMultiplied /\ Evaluation /\ KeysWritten
         /\ RowsAreSlices /\ KeyPairExact

\* The function on nothing.
LEMMA EmptyFunction == <<>> = [p \in {} |-> 0]
OBVIOUS

\* The invariant holds initially.
LEMMA KGInitEstablishes == KeyGenInit(AllBuilds, "sample") => KGInv
<1> SUFFICES ASSUME KeyGenInit(AllBuilds, "sample") PROVE KGInv
  OBVIOUS
<1>1. /\ kg_build \in AllBuilds /\ kg_pc = "sample" /\ EEctx = NoCtx /\ i_eq = 0 /\ allocated = {}
      /\ A_hat = [p \in {} |-> 0] /\ y = [p \in {} |-> 0] /\ vect_tmp = [p \in {} |-> 0]
  BY EmptyFunction DEF KeyGenInit
<1>2. IsContext(NoCtx)
  BY DEF IsContext, NoCtx
<1>3. ~NoCtx.magic
  BY DEF NoCtx
<1>4. DOMAIN A_hat = {}
  BY <1>1
<1> QED
  BY <1>1, <1>2, <1>3, <1>4
     DEF KGInv, KGTypeOK, NotStarted, NothingHeld, RowsParsed, RowsMultiplied, Evaluation, KeysWritten,
         RowsAreSlices, KeyPairExact

\* One lemma for each step of the key generation.
LEMMA SampleSeedsPreserves ==
  ASSUME KGInv, SampleSeeds
  PROVE  KGInv'
<1>1. /\ kg_pc = "sample" /\ kg_pc' \in {"enter", "return"} /\ (kg_pc' = "return" => kg_ret' = -1)
      /\ UNCHANGED <<kg_build, EEctx, i_eq, A_hat, vect_tmp, y, pk, sk, allocated>>
  BY DEF SampleSeeds, KGFails
<1> QED
  BY <1>1
     DEF KGInv, KGTypeOK, NotStarted, NothingHeld, RowsParsed, RowsMultiplied, Evaluation, KeysWritten,
         RowsAreSlices, KeyPairExact

\* EnterKeyGen preserves the invariant.
LEMMA EnterPreserves ==
  ASSUME KGInv, EnterKeyGen
  PROVE  KGInv'
<1>1. /\ kg_pc = "enter" /\ kg_build \in AllBuilds /\ DOMAIN A_hat \subseteq Eqs \X (0 .. N)
      /\ i_eq = 0 /\ A_hat = [p \in {} |-> 0] /\ y = [p \in {} |-> 0] /\ vect_tmp = [p \in {} |-> 0]
      /\ EEctx = NoCtx /\ IsContext(EEctx)
  BY DEF EnterKeyGen, KGInv, KGTypeOK, NotStarted
<1>2. UNCHANGED <<kg_build, i_eq, A_hat, vect_tmp, y, pk, sk>>
  BY DEF EnterKeyGen
<1>3. RowsAreSlices'
  BY <1>1, <1>2 DEF RowsAreSlices
<1>4. CASE kg_pc' = "expand" /\ ~kg_build.streamed /\ UNCHANGED EEctx
  <2>1. RowsParsed'
    <3>1. DOMAIN A_hat' = {} /\ 0 .. 0 - 1 = {}
      BY <1>1, <1>2
    <3> QED
      BY <3>1, <1>1, <1>2, <1>4, ExpandMQAssumption DEF RowsParsed
  <2> QED
    BY <1>1, <1>2, <1>3, <1>4, <2>1
       DEF KGInv, KGTypeOK, NotStarted, NothingHeld, RowsMultiplied, Evaluation, KeysWritten, KeyPairExact
<1>5. CASE kg_pc' = "cleanup" /\ kg_ret' = -1 /\ UNCHANGED EEctx
  BY <1>1, <1>2, <1>3, <1>5
     DEF KGInv, KGTypeOK, NotStarted, NothingHeld, RowsParsed, RowsMultiplied, Evaluation, KeysWritten,
         KeyPairExact
<1>6. CASE kg_pc' = "row" /\ kg_build.streamed /\ EEctx' = ExpandEquations_memopt_init
  <2>1. EEctx' = [magic |-> TRUE, i |-> 0, j |-> 0, sched |-> NoSeed, leftover |-> JunkBlock]
    BY <1>6 DEF ExpandEquations_memopt_init, NoCtx
  <2>2. ContextAt(EEctx', 0, 0) /\ IsContext(EEctx')
    <3> DEFINE c == [magic |-> TRUE, i |-> 0, j |-> 0, sched |-> NoSeed, leftover |-> JunkBlock]
    <3>1. IsContext(c)
      BY DEF IsContext
    <3>2. ContextAt(c, 0, 0)
      BY DEF ContextAt
    <3> QED
      BY <2>1, <3>1, <3>2
  <2>3. 0 .. 0 - 1 = {} /\ 0 \in 0 .. N /\ 0 \in Eqs
    BY ExpandMQAssumption DEF Eqs
  <2>4. vect_tmp' = [k \in 0 .. 0 - 1 |-> ProductOf(0, k)] /\ y' = [k \in 0 .. 0 - 1 |-> PublicMap(k)]
    BY <1>1, <1>2, <2>3
  <2>5. RowsMultiplied'
    BY <1>1, <1>2, <1>6, <2>2, <2>3, <2>4 DEF RowsMultiplied
  <2> QED
    BY <1>1, <1>2, <1>3, <1>6, <2>2, <2>5
       DEF KGInv, KGTypeOK, NotStarted, NothingHeld, RowsParsed, Evaluation, KeysWritten, KeyPairExact
<1> QED
  BY <1>4, <1>5, <1>6 DEF EnterKeyGen, KGFails

\* A batch of seeds has a lane and does not go past the last equation.
LEMMA BatchFits ==
  ASSUME NEW i \in 0 .. NB_EQ - 1, NEW width \in {1, 4, 8}
  PROVE  BatchAt(i, width) \in Nat \ {0} /\ i + BatchAt(i, width) <= NB_EQ
BY ExpandMQAssumption DEF BatchAt

\* ExpandBatch preserves the invariant.
LEMMA ExpandBatchPreserves ==
  ASSUME KGInv, ExpandBatch
  PROVE  KGInv'
<1> DEFINE lanes == BatchAt(i_eq, kg_build.width)
<1>1. /\ kg_pc = "expand" /\ i_eq < NB_EQ /\ kg_build \in AllBuilds /\ IsContext(EEctx)
      /\ ~kg_build.streamed /\ i_eq \in 0 .. NB_EQ - 1
      /\ DOMAIN A_hat = (0 .. i_eq - 1) \X (0 .. N)
      /\ RowsAreSlices
  BY ExpandMQAssumption DEF ExpandBatch, KGInv, KGTypeOK, RowsParsed
<1>2. lanes \in Nat \ {0} /\ i_eq + lanes <= NB_EQ
  BY <1>1, BatchFits DEF AllBuilds
<1>3. UNCHANGED <<kg_build, EEctx, vect_tmp, y, pk, sk, allocated>>
  BY DEF ExpandBatch
<1>4. PICK done \in 0 .. lanes :
        /\ A_hat' = Join(A_hat, [p \in (i_eq .. i_eq + done - 1) \X (0 .. N) |->
                                   ParsedEquation(p[1], kg_build.aliasing)[p[2]]])
        /\ IF done = lanes
             THEN i_eq' = i_eq + lanes /\ UNCHANGED <<kg_pc, kg_ret>>
             ELSE KGFails("cleanup") /\ UNCHANGED i_eq
  BY DEF ExpandBatch
<1> HIDE DEF lanes
<1> DEFINE g == [p \in (i_eq .. i_eq + done - 1) \X (0 .. N) |->
                   ParsedEquation(p[1], kg_build.aliasing)[p[2]]]
<1>5. DOMAIN A_hat' = (0 .. i_eq + done - 1) \X (0 .. N)
  <2>1. DOMAIN A_hat' = DOMAIN A_hat \cup DOMAIN g
    BY <1>4 DEF Join
  <2>2. DOMAIN g = (i_eq .. i_eq + done - 1) \X (0 .. N)
    OBVIOUS
  <2>3. (0 .. i_eq - 1) \cup (i_eq .. i_eq + done - 1) = 0 .. i_eq + done - 1
    BY <1>1, <1>2
  <2> HIDE DEF g
  <2> QED
    BY <1>1, <2>1, <2>2, <2>3
<1>6. RowsAreSlices'
  <2> SUFFICES ASSUME NEW p \in DOMAIN A_hat'
               PROVE  A_hat'[p] = [b \in 0 .. Nbytes(p[2]) - 1 |-> RowByte(p[1], p[2], b)]
    BY DEF RowsAreSlices
  <2>1. A_hat'[p] = IF p \in DOMAIN g THEN g[p] ELSE A_hat[p]
    BY <1>4 DEF Join
  <2>2. CASE p \in DOMAIN g
    <3>1. p[1] \in Eqs /\ p[2] \in 0 .. N
      <4>1. p[1] \in i_eq .. i_eq + done - 1 /\ p[2] \in 0 .. N
        BY <2>2
      <4>2. i_eq \in Int /\ i_eq >= 0 /\ done \in Int /\ done <= lanes /\ lanes \in Int
        BY <1>1, <1>2
      <4>3. p[1] >= 0 /\ p[1] <= NB_EQ - 1 /\ p[1] \in Int
        BY <4>1, <4>2, <1>2, ExpandMQAssumption
      <4> QED
        BY <4>1, <4>3, ExpandMQAssumption DEF Eqs
    <3>2. g[p] = ParsedEquation(p[1], kg_build.aliasing)[p[2]]
      BY <2>2
    <3>3. kg_build.aliasing \in BOOLEAN
      BY <1>1 DEF AllBuilds
    <3>4. g[p] = RowOf(p[1], p[2])
      BY <3>1, <3>2, <3>3, ParsedExact
    <3> QED
      BY <2>1, <2>2, <3>4 DEF RowOf
  <2>3. CASE p \notin DOMAIN g
    <3>1. p \in DOMAIN A_hat
      <4>1. DOMAIN A_hat' = DOMAIN A_hat \cup DOMAIN g
        BY <1>4 DEF Join
      <4> QED
        BY <4>1, <2>3
    <3> HIDE DEF g
    <3> QED
      BY <2>1, <2>3, <3>1, <1>1 DEF RowsAreSlices
  <2> QED
    BY <2>2, <2>3
<1>7. DOMAIN A_hat' \subseteq Eqs \X (0 .. N)
  <2>1. (0 .. i_eq + done - 1) \subseteq Eqs
    <3>1. i_eq \in Int /\ done \in Int /\ done <= lanes /\ lanes \in Int
      BY <1>1, <1>2
    <3>2. i_eq + done - 1 <= NB_EQ - 1
      BY <3>1, <1>2, ExpandMQAssumption
    <3> QED
      BY <3>1, <3>2, ExpandMQAssumption DEF Eqs
  <2> QED
    BY <1>5, <2>1
<1>8. CASE done = lanes
  <2>1. i_eq' = i_eq + lanes /\ i_eq' \in 0 .. NB_EQ /\ kg_pc' = kg_pc
    BY <1>1, <1>2, <1>4, <1>8, ExpandMQAssumption
  <2>2. i_eq' - 1 = i_eq + done - 1
    BY <1>1, <1>2, <1>8, <2>1
  <2>3. DOMAIN A_hat' = (0 .. i_eq' - 1) \X (0 .. N)
    BY <1>5, <2>2
  <2> QED
    BY <1>1, <1>3, <1>6, <1>7, <2>1, <2>3
       DEF KGInv, KGTypeOK, NotStarted, NothingHeld, RowsParsed, RowsMultiplied, Evaluation, KeysWritten,
           KeyPairExact
<1>9. CASE done # lanes
  <2>1. kg_pc' = "cleanup" /\ kg_ret' = -1
    BY <1>4, <1>9 DEF KGFails
  <2> QED
    BY <1>1, <1>3, <1>6, <1>7, <2>1
       DEF KGInv, KGTypeOK, NotStarted, NothingHeld, RowsParsed, RowsMultiplied, Evaluation, KeysWritten,
           KeyPairExact
<1> QED
  BY <1>8, <1>9

\* MultiplyAll preserves the invariant.
LEMMA MultiplyAllPreserves ==
  ASSUME KGInv, MultiplyAll
  PROVE  KGInv'
<1>1. /\ kg_pc = "expand" /\ i_eq = NB_EQ /\ kg_build \in AllBuilds /\ IsContext(EEctx)
      /\ DOMAIN A_hat = (0 .. NB_EQ - 1) \X (0 .. N)
      /\ DOMAIN A_hat \subseteq Eqs \X (0 .. N)
      /\ RowsAreSlices
  BY DEF MultiplyAll, KGInv, KGTypeOK, RowsParsed
<1>2. /\ kg_pc' = "serialize"
      /\ UNCHANGED <<kg_build, kg_ret, EEctx, i_eq, A_hat, vect_tmp, pk, sk, allocated>>
      /\ y' = [i \in Eqs |->
                 Evaluated([j \in 0 .. N - 1 |-> TimesX(A_hat[<<i, j>>], j + 1)], A_hat[<<i, N>>])]
  BY DEF MultiplyAll
<1>3. ASSUME NEW i \in Eqs
      PROVE  Evaluated([j \in 0 .. N - 1 |-> TimesX(A_hat[<<i, j>>], j + 1)], A_hat[<<i, N>>]) = PublicMap(i)
  <2>1. ASSUME NEW j \in 0 .. N PROVE A_hat[<<i, j>>] = RowOf(i, j)
    <3>1. <<i, j>> \in DOMAIN A_hat
      BY <1>1 DEF Eqs
    <3> QED
      BY <3>1, <1>1 DEF RowsAreSlices, RowOf
  <2>2. N \in 0 .. N /\ (0 .. N - 1) \subseteq 0 .. N
    BY ExpandMQAssumption
  <2>3. [j \in 0 .. N - 1 |-> TimesX(A_hat[<<i, j>>], j + 1)] = [j \in 0 .. N - 1 |-> ProductOf(i, j)]
    BY <2>1, <2>2 DEF ProductOf
  <2> QED
    BY <2>1, <2>2, <2>3, EvaluatedExact
<1>4. y' = Values
  BY <1>2, <1>3 DEF Values
<1>5. RowsAreSlices'
  BY <1>1, <1>2 DEF RowsAreSlices
<1> QED
  BY <1>1, <1>2, <1>4, <1>5
     DEF KGInv, KGTypeOK, NotStarted, NothingHeld, RowsParsed, RowsMultiplied, Evaluation, KeysWritten,
         KeyPairExact

\* The number of the rows read so far.
LEMMA RowsRead ==
  ASSUME NEW j \in Nat
  PROVE  Cardinality(0 .. j - 1) = j
<1>1. Cardinality(0 .. j - 1) = IF 0 > j - 1 THEN 0 ELSE (j - 1) - 0 + 1
  BY FS_Interval
<1> QED
  BY <1>1

\* StreamRow preserves the invariant.
LEMMA StreamRowPreserves ==
  ASSUME KGInv, StreamRow
  PROVE  KGInv'
<1>1. /\ kg_pc = "row" /\ kg_build \in AllBuilds /\ kg_build.streamed
      /\ i_eq \in Eqs /\ y = [i \in 0 .. i_eq - 1 |-> PublicMap(i)]
      /\ DOMAIN A_hat \subseteq Eqs \X (0 .. N) /\ RowsAreSlices /\ IsContext(EEctx)
  BY DEF StreamRow, KGInv, KGTypeOK, RowsMultiplied
<1>2. PICK j \in 0 .. N : /\ ContextAt(EEctx, i_eq, j)
                          /\ vect_tmp = [k \in 0 .. j - 1 |-> ProductOf(i_eq, k)]
  BY <1>1 DEF KGInv, RowsMultiplied
<1>3. RowWanted.j = j
  <2>1. j \in Nat /\ DOMAIN vect_tmp = 0 .. j - 1
    BY <1>2, ExpandMQAssumption
  <2> QED
    BY <2>1, RowsRead DEF RowWanted
<1>4. UNCHANGED <<kg_build, pk, sk, allocated>>
  BY DEF StreamRow
<1>5. CASE KGFails("cleanup") /\ UNCHANGED <<EEctx, A_hat, vect_tmp, i_eq, y, secret>>
  <2>1. kg_pc' = "cleanup" /\ kg_ret' = -1 /\ UNCHANGED <<EEctx, A_hat>>
    BY <1>5 DEF KGFails
  <2>2. RowsAreSlices'
    BY <2>1, <1>1 DEF RowsAreSlices
  <2> QED
    BY <1>1, <1>4, <2>1, <2>2
       DEF KGInv, KGTypeOK, NotStarted, NothingHeld, RowsParsed, RowsMultiplied, Evaluation, KeysWritten,
           KeyPairExact
<1>6. CASE ~(KGFails("cleanup") /\ UNCHANGED <<EEctx, A_hat, vect_tmp, i_eq, y, secret>>)
  <2> DEFINE u == ExpandEquations_memopt_update(EEctx, kg_build.aliasing)
  <2>1. /\ EEctx' = u.ctx
        /\ A_hat' = At(<<i_eq, j>>, u.row)
        /\ IF j < N
             THEN /\ vect_tmp' = Join(vect_tmp, At(j, TimesX(u.row, j + 1)))
                  /\ UNCHANGED <<i_eq, y, kg_pc>>
             ELSE /\ y' = Join(y, At(i_eq, Evaluated(vect_tmp, u.row)))
                  /\ vect_tmp' = <<>>
                  /\ i_eq' = i_eq + 1
                  /\ kg_pc' = IF i_eq + 1 = NB_EQ THEN "serialize" ELSE "row"
    BY <1>3, <1>6 DEF StreamRow
  <2>2. kg_build.aliasing \in BOOLEAN
    BY <1>1 DEF AllBuilds
  <2>3. /\ u.row = RowOf(i_eq, j)
        /\ IsContext(u.ctx)
        /\ IF j < N THEN ContextAt(u.ctx, i_eq, j + 1) ELSE ContextAt(u.ctx, i_eq + 1, 0)
    BY <1>1, <1>2, <2>2, UpdateExact
  <2> HIDE DEF u
  <2>4. i_eq \in Nat /\ j \in Nat /\ N \in Nat /\ NB_EQ \in Nat /\ i_eq < NB_EQ /\ j <= N
    BY <1>1, ExpandMQAssumption DEF Eqs
  <2>5. RowsAreSlices' /\ DOMAIN A_hat' \subseteq Eqs \X (0 .. N)
    <3>1. DOMAIN A_hat' = {<<i_eq, j>>} /\ A_hat'[<<i_eq, j>>] = RowOf(i_eq, j)
      BY <2>1, <2>3 DEF At
    <3> QED
      BY <3>1, <1>1, <1>2 DEF RowsAreSlices, RowOf
  <2>6. KGTypeOK'
    <3>1. kg_pc' \in {"sample", "enter", "expand", "row", "serialize", "cleanup", "return", "done"}
      BY <2>1, <1>1
    <3> QED
      BY <3>1, <1>1, <1>4, <2>1, <2>3, <2>5 DEF KGTypeOK
  <2>7. CASE j < N
    <3>1. vect_tmp' = [k \in 0 .. (j + 1) - 1 |-> ProductOf(i_eq, k)]
      <4>1. DOMAIN vect_tmp \cup {j} = 0 .. (j + 1) - 1
        BY <1>2, <2>4
      <4>2. vect_tmp' = [k \in DOMAIN vect_tmp \cup {j} |->
                           IF k \in {j} THEN TimesX(u.row, j + 1) ELSE vect_tmp[k]]
        BY <2>1, <2>7 DEF Join, At
      <4>3. ASSUME NEW k \in 0 .. (j + 1) - 1
            PROVE  (IF k \in {j} THEN TimesX(u.row, j + 1) ELSE vect_tmp[k]) = ProductOf(i_eq, k)
        <5>1. CASE k = j
          BY <5>1, <2>3 DEF ProductOf
        <5>2. CASE k # j
          BY <5>2, <1>2, <2>4
        <5> QED
          BY <5>1, <5>2
      <4> QED
        BY <4>1, <4>2, <4>3
    <3>2. j + 1 \in 0 .. N /\ ContextAt(EEctx', i_eq', j + 1)
      BY <2>1, <2>3, <2>4, <2>7
    <3>3. i_eq' = i_eq /\ y' = y /\ kg_pc' = "row"
      BY <2>1, <2>7, <1>1
    <3>4. RowsMultiplied'
      BY <3>1, <3>2, <3>3, <1>1, <1>4 DEF RowsMultiplied
    <3> QED
      BY <1>1, <1>4, <2>5, <2>6, <3>3, <3>4
         DEF KGInv, NotStarted, NothingHeld, RowsParsed, Evaluation, KeysWritten, KeyPairExact
  <2>8. CASE ~(j < N)
    <3>0. j = N
      BY <2>4, <2>8
    <3>1. Evaluated(vect_tmp, u.row) = PublicMap(i_eq)
      BY <3>0, <1>2, <2>3, EvaluatedExact
    <3>2. y' = [i \in 0 .. (i_eq + 1) - 1 |-> PublicMap(i)]
      <4>1. DOMAIN y \cup {i_eq} = 0 .. (i_eq + 1) - 1
        BY <1>1, <2>4
      <4>2. y' = [k \in DOMAIN y \cup {i_eq} |-> IF k \in {i_eq} THEN PublicMap(i_eq) ELSE y[k]]
        BY <2>1, <2>8, <3>1 DEF Join, At
      <4>3. ASSUME NEW k \in 0 .. (i_eq + 1) - 1
            PROVE  (IF k \in {i_eq} THEN PublicMap(i_eq) ELSE y[k]) = PublicMap(k)
        <5>1. CASE k = i_eq
          BY <5>1
        <5>2. CASE k # i_eq
          BY <5>2, <1>1, <2>4
        <5> QED
          BY <5>1, <5>2
      <4> QED
        BY <4>1, <4>2, <4>3
    <3>3. i_eq' = i_eq + 1 /\ kg_pc' = (IF i_eq + 1 = NB_EQ THEN "serialize" ELSE "row") /\ vect_tmp' = <<>>
      BY <2>1, <2>8
    <3>4. CASE i_eq + 1 = NB_EQ
      <4>1. y' = Values
        BY <3>2, <3>4 DEF Values, Eqs
      <4>2. kg_pc' = "serialize"
        BY <3>3, <3>4
      <4> QED
        BY <4>1, <4>2, <1>1, <1>4, <2>5, <2>6
           DEF KGInv, NotStarted, NothingHeld, RowsParsed, RowsMultiplied, Evaluation, KeysWritten,
               KeyPairExact
    <3>5. CASE i_eq + 1 # NB_EQ
      <4>1. i_eq' \in Eqs /\ kg_pc' = "row" /\ 0 \in 0 .. N
        BY <3>3, <3>5, <2>4 DEF Eqs
      <4>2. ContextAt(EEctx', i_eq', 0)
        BY <2>1, <2>3, <2>8, <3>3
      <4>3. vect_tmp' = [k \in 0 .. 0 - 1 |-> ProductOf(i_eq', k)]
        <5>1. 0 .. 0 - 1 = {}
          OBVIOUS
        <5> QED
          BY <5>1, <3>3, EmptyFunction
      <4>4. y' = [i \in 0 .. i_eq' - 1 |-> PublicMap(i)]
        BY <3>2, <3>3
      <4>5. RowsMultiplied'
        BY <1>1, <1>4, <4>1, <4>2, <4>3, <4>4 DEF RowsMultiplied
      <4> QED
        BY <4>1, <4>5, <1>1, <1>4, <2>5, <2>6
           DEF KGInv, NotStarted, NothingHeld, RowsParsed, Evaluation, KeysWritten, KeyPairExact
    <3> QED
      BY <3>4, <3>5
  <2> QED
    BY <2>7, <2>8
<1> QED
  BY <1>5, <1>6

\* Serialize preserves the invariant.
LEMMA SerializePreserves ==
  ASSUME KGInv, Serialize
  PROVE  KGInv'
<1>1. /\ kg_pc = "serialize" /\ kg_build \in AllBuilds /\ IsContext(EEctx)
      /\ DOMAIN A_hat \subseteq Eqs \X (0 .. N) /\ RowsAreSlices /\ y = Values
  BY DEF Serialize, KGInv, KGTypeOK, Evaluation
<1>2. /\ kg_pc' = "cleanup" /\ pk' = PublicKey /\ sk' = [PublicKey EXCEPT !.x = TRUE]
      /\ UNCHANGED <<kg_build, EEctx, i_eq, A_hat, vect_tmp, y, allocated, secret>>
  BY <1>1 DEF Serialize, PublicKey
<1>3. RowsAreSlices'
  BY <1>1, <1>2 DEF RowsAreSlices
<1> QED
  BY <1>1, <1>2, <1>3
     DEF KGInv, KGTypeOK, NotStarted, NothingHeld, RowsParsed, RowsMultiplied, Evaluation, KeysWritten,
         KeyPairExact

\* The final call switches a context off, and one that is off it leaves alone.
LEMMA FinalExact ==
  ASSUME NEW ctx, IsContext(ctx)
  PROVE  IsContext(ExpandEquations_memopt_final(ctx)) /\ ~ExpandEquations_memopt_final(ctx).magic
<1>0. PICK m \in BOOLEAN :
        \E k, l, sc, lo : ctx = [magic |-> m, i |-> k, j |-> l, sched |-> sc, leftover |-> lo]
  BY DEF IsContext
<1>1. PICK k, l, sc, lo : ctx = [magic |-> m, i |-> k, j |-> l, sched |-> sc, leftover |-> lo]
  BY <1>0
<1>2. CASE ctx.magic
  <2>1. ExpandEquations_memopt_final(ctx) =
          [magic |-> FALSE, i |-> k, j |-> l, sched |-> NoSeed, leftover |-> lo]
    BY <1>1, <1>2 DEF ExpandEquations_memopt_final
  <2>2. ~ExpandEquations_memopt_final(ctx).magic
    BY <2>1
  <2>3. IsContext([magic |-> FALSE, i |-> k, j |-> l, sched |-> NoSeed, leftover |-> lo])
    BY DEF IsContext
  <2> QED
    BY <2>1, <2>2, <2>3
<1>3. CASE ~ctx.magic
  <2>1. ExpandEquations_memopt_final(ctx) = ctx
    BY <1>3 DEF ExpandEquations_memopt_final
  <2> QED
    BY <2>1, <1>3
<1> QED
  BY <1>2, <1>3

\* CleanUp preserves the invariant.
LEMMA CleanUpPreserves ==
  ASSUME KGInv, CleanUp
  PROVE  KGInv'
<1>1. /\ kg_pc = "cleanup" /\ kg_build \in AllBuilds /\ IsContext(EEctx)
      /\ kg_ret = 0 => pk = PublicKey /\ sk = [PublicKey EXCEPT !.x = TRUE]
  BY DEF CleanUp, KGInv, KGTypeOK, KeysWritten
<1>2. /\ kg_pc' = "return" /\ allocated' = {} /\ A_hat' = <<>>
      /\ EEctx' = ExpandEquations_memopt_final(EEctx)
      /\ UNCHANGED <<kg_build, kg_ret, i_eq, pk, sk>>
  BY DEF CleanUp
<1>3. IsContext(EEctx') /\ ~EEctx'.magic
  BY <1>1, <1>2, FinalExact
<1>4. DOMAIN A_hat' = {}
  BY <1>2
<1> QED
  BY <1>1, <1>2, <1>3, <1>4
     DEF KGInv, KGTypeOK, NotStarted, NothingHeld, RowsParsed, RowsMultiplied, Evaluation, KeysWritten,
         RowsAreSlices, KeyPairExact

\* ReturnKeyPair preserves the invariant.
LEMMA ReturnPreserves ==
  ASSUME KGInv, ReturnKeyPair
  PROVE  KGInv'
<1>1. /\ kg_pc = "return" /\ kg_build \in AllBuilds /\ IsContext(EEctx)
      /\ DOMAIN A_hat \subseteq Eqs \X (0 .. N) /\ RowsAreSlices
      /\ allocated = {} /\ ~EEctx.magic
      /\ kg_ret = 0 => pk = PublicKey /\ sk = [PublicKey EXCEPT !.x = TRUE]
  BY DEF ReturnKeyPair, KGInv, KGTypeOK, NothingHeld, KeysWritten
<1>2. /\ kg_pc' = "done" /\ secret' = {} /\ pk' = Answered(pk) /\ sk' = Answered(sk)
      /\ UNCHANGED <<kg_build, kg_ret, EEctx, i_eq, A_hat, vect_tmp, y, allocated>>
  BY DEF ReturnKeyPair
<1>3. RowsAreSlices'
  BY <1>1, <1>2 DEF RowsAreSlices
<1>4. KeyPairExact'
  BY <1>1, <1>2 DEF KeyPairExact, Answered, PublicKey, Values
<1> QED
  BY <1>1, <1>2, <1>3, <1>4
     DEF KGInv, KGTypeOK, NotStarted, NothingHeld, RowsParsed, RowsMultiplied, Evaluation, KeysWritten

\* So does a step that changes nothing.
LEMMA KGStutters ==
  ASSUME KGInv, UNCHANGED kg_vars
  PROVE  KGInv'
<1>1. UNCHANGED <<kg_build, kg_pc, kg_ret, EEctx, i_eq, A_hat, vect_tmp, y, pk, sk, allocated, secret>>
  BY DEF kg_vars
<1> QED
  BY <1>1
     DEF KGInv, KGTypeOK, NotStarted, NothingHeld, RowsParsed, RowsMultiplied, Evaluation, KeysWritten,
         RowsAreSlices, KeyPairExact

\* The invariant of the key generation (crypto_sign_keypair, KeyGen).
THEOREM KeyGenInvariant == KeyGenSpec => []KGInv
<1>1. KeyGenInit(AllBuilds, "sample") => KGInv
  BY KGInitEstablishes
<1>2. KGInv /\ [KeyGenNext]_kg_vars => KGInv'
  BY SampleSeedsPreserves, EnterPreserves, ExpandBatchPreserves, MultiplyAllPreserves,
     StreamRowPreserves, SerializePreserves, CleanUpPreserves, ReturnPreserves, KGStutters
     DEF KeyGenNext
<1> QED
  BY <1>1, <1>2, PTL DEF KeyGenSpec

\* Both expansions of the equations return the rows of the definition, for every number
\* and size of equations, block size, batch width and kind of block cipher
\* (ExpandEquations, ExpandEquations_memopt_update).
THEOREM RowsCorrect == KeyGenSpec => []RowsAreSlices
<1>1. KGInv => RowsAreSlices
  BY DEF KGInv
<1> QED
  BY <1>1, KeyGenInvariant, PTL

\* Every key pair is the value at x of the public map, for both builds, or zero, and
\* nothing is left behind (crypto_sign_keypair).
THEOREM KeyPairCorrect == KeyGenSpec => []KeyPairExact
<1>1. KGInv => KeyPairExact
  BY DEF KGInv
<1> QED
  BY <1>1, KeyGenInvariant, PTL

-----------------------------------------------------------------------------
(***************************************************************************)
(* SeedExpandBatch.                                                        *)
(***************************************************************************)

\* IndexIdentifier keeps the executions of this many blocks apart: 64 * MaxCells is
\* 65536. The longest line has far fewer.
MaxCells == 1024

\* The functions; SeedExpand with up to eight blocks in a round.
Functions ==
  {SeedExpand(w) : w \in 1 .. 8}
    \cup {SeedExpand_memopt, SeedExpand_one_ctx, SeedExpand_x2, SeedExpand_x4, SeedExpand_x8, SeedExpand_x8_ecb}

\* The jobs: all lines whose cells have identifiers of their own.
AllJobs ==
  {j \in [fn : Functions, nb_contexts : 1 .. 8, es : [1 .. 8 -> 0 .. 63], ot : BOOLEAN, prg_size : Nat,
          n : Nat, cached : BOOLEAN, cut : Nat, calls : Nat] :
     /\ j.n = IF j.ot THEN j.prg_size + BlockSize ELSE j.prg_size
     /\ j.cut <= j.n
     /\ Allocated(j.prg_size) <= MaxCells}

SeedExpandSpec == SeedExpandInit(AllJobs, "call") /\ [][SeedExpandNext]_se_vars

\* The cells allocated.
Cells == 0 .. Allocated(job.prg_size) - 1

\* The mask of a lane by the definition.
MaskOf(lane) == IF job.ot THEN LinOrtho(SeedOf(lane)) ELSE <<ExecOf(lane), SeedOf(lane)>>

\* The job and the shape of the output.
JobTypeOK ==
  /\ job \in AllJobs /\ nth \in Nat
  /\ se_pc \in {"call", "blocks", "done"}
  /\ DOMAIN out_data = Lanes
  /\ \A lane \in Lanes : DOMAIN out_data[lane] = 0 .. job.n - 1

\* A cell is inactive or holds the schedule of its own block.
CellsRight ==
  /\ DOMAIN cells = IF job.cached THEN Cells ELSE {}
  /\ \A i \in DOMAIN cells : cells[i] = Inactive \/ cells[i] = TweakedSalts(i)

\* No other cell is touched.
ReachedAllocated == reached \subseteq Cells

\* The masks, once a call has made them.
MasksRight == se_pc = "blocks" => ContextsFit /\ xor_mask = [lane \in Lanes |-> MaskOf(lane)]

\* The blocks written so far are right.
WrittenSoFar ==
  /\ se_pc = "call" => filled = 0
  /\ se_pc = "blocks" =>
       /\ filled \in 0 .. job.n \div BlockSize
       /\ \A lane \in Lanes : \A b \in 0 .. job.n - 1 :
            b \div BlockSize < filled => out_data[lane][b] = Expected(lane, b)

\* The inductive invariant.
SEInv == JobTypeOK /\ CellsRight /\ ReachedAllocated /\ MasksRight /\ WrittenSoFar /\ ExpandsAlike

\* What the proofs need of a job.
LEMMA JobFacts ==
  ASSUME job \in AllJobs
  PROVE  /\ job.fn \in Functions /\ job.nb_contexts \in 1 .. 8 /\ job.es \in [1 .. 8 -> 0 .. 63]
         /\ job.ot \in BOOLEAN /\ job.cached \in BOOLEAN
         /\ job.prg_size \in Nat /\ job.n \in Nat /\ job.cut \in Nat /\ job.calls \in Nat
         /\ job.n = IF job.ot THEN job.prg_size + BlockSize ELSE job.prg_size
         /\ job.cut <= job.n
         /\ Allocated(job.prg_size) <= MaxCells
BY DEF AllJobs

\* What the functions have in common.
LEMMA FunctionFacts ==
  ASSUME NEW fn \in Functions
  PROVE  /\ fn.lanes \in 1 .. 8 /\ fn.wide \in 1 .. 8
         /\ \A k \in fn.contexts : k = 1 \/ k = fn.lanes
         /\ fn.sliced \in BOOLEAN /\ (fn.sliced => fn.lanes = 1)
<1>1. ASSUME NEW w \in 1 .. 8, fn = [lanes |-> 1, wide |-> w, contexts |-> {1}, sliced |-> FALSE]
      PROVE  /\ fn.lanes \in 1 .. 8 /\ fn.wide \in 1 .. 8
             /\ \A k \in fn.contexts : k = 1 \/ k = fn.lanes
             /\ fn.sliced \in BOOLEAN /\ (fn.sliced => fn.lanes = 1)
  BY <1>1
<1>2. CASE fn \in {SeedExpand(w) : w \in 1 .. 8}
  BY <1>1, <1>2 DEF SeedExpand, Function
<1>3. CASE fn = SeedExpand_memopt
  BY <1>3 DEF SeedExpand_memopt, Function
<1>4. CASE fn = SeedExpand_one_ctx
  BY <1>4 DEF SeedExpand_one_ctx, Function
<1>5. CASE fn = SeedExpand_x2
  BY <1>5 DEF SeedExpand_x2, Function
<1>6. CASE fn = SeedExpand_x4
  BY <1>6 DEF SeedExpand_x4, Function
<1>7. CASE fn = SeedExpand_x8
  BY <1>7 DEF SeedExpand_x8, Function
<1>8. CASE fn = SeedExpand_x8_ecb
  BY <1>8 DEF SeedExpand_x8_ecb, Function
<1> QED
  BY <1>2, <1>3, <1>4, <1>5, <1>6, <1>7, <1>8 DEF Functions

\* The execution of a lane.
LEMMA ExecInRange ==
  ASSUME job \in AllJobs, ContextsFit, NEW lane \in Lanes
  PROVE  ExecOf(lane) \in 0 .. 63
<1>1. job.fn \in Functions /\ job.es \in [1 .. 8 -> 0 .. 63]
  BY JobFacts
<1>2. job.fn.lanes \in 1 .. 8 /\ (job.nb_contexts = 1 \/ job.nb_contexts = job.fn.lanes)
  BY <1>1, FunctionFacts DEF ContextsFit
<1>3. lane \in Int /\ lane + 1 \in 1 .. 8
  BY <1>2 DEF Lanes
<1> QED
  BY <1>1, <1>3 DEF ExecOf

\* What is less than the divisor is its own remainder.
LEMMA SmallMod ==
  ASSUME NEW a \in Int, NEW m \in Nat \ {0}, 0 <= a, a < m
  PROVE  a % m = a
OBVIOUS

\* IndexIdentifier keeps the blocks of a line apart.
LEMMA IdentifierExact ==
  ASSUME NEW e \in 0 .. 63, NEW i \in 0 .. MaxCells - 1
  PROVE  IndexIdentifier(e, i) = e + 64 * i
<1> DEFINE a == e + 64 * i
<1>1. e \in Int /\ 0 <= e /\ e <= 63 /\ i \in Int /\ 0 <= i /\ i <= 1023
  BY DEF MaxCells
<1>2. a \in Int /\ 0 <= a /\ a <= 65535
  BY <1>1
<1> HIDE DEF a
<1> DEFINE m == 65536
<1>3. m \in Nat \ {0} /\ a < m
  BY <1>2
<1> HIDE DEF m
<1>4. a % m = a
  BY <1>2, <1>3, SmallMod
<1> QED
  BY <1>4 DEF IndexIdentifier, a, m

\* CEIL(a, d) is more than the quotient of any smaller number.
LEMMA CeilExact ==
  ASSUME NEW a \in Nat, NEW d \in Nat \ {0}, NEW b \in Nat, b < a
  PROVE  CEIL(a, d) \in Nat /\ b \div d < CEIL(a, d)
<1> DEFINE q == b \div d
           r == b % d
           c == (a + d - 1) \div d
           s == (a + d - 1) % d
<1>0. b \in Nat /\ a + d - 1 \in Nat
  OBVIOUS
<1>1. q \in Nat /\ r \in 0 .. d - 1 /\ b = d * q + r
  BY <1>0, DivMod
<1>2. c \in Nat /\ s \in 0 .. d - 1 /\ a + d - 1 = d * c + s
  BY <1>0, DivMod
<1>3. CEIL(a, d) = c
  BY DEF CEIL
<1> HIDE DEF q, r, c, s
<1>4. ASSUME c <= q PROVE FALSE
  <2>1. d * c \in Nat /\ d * q \in Nat /\ c * d = d * c /\ q * d = d * q
    BY <1>1, <1>2
  <2>2. d * c <= d * q
    BY <2>1, <1>1, <1>2, <1>4, MultMonotone
  <2>3. d * c >= a
    BY <2>1, <1>2
  <2> QED
    BY <2>1, <2>2, <2>3, <1>1
<1>5. q < c
  BY <1>1, <1>2, <1>4
<1> QED
  BY <1>2, <1>3, <1>5 DEF q

\* One more block has one more cell.
LEMMA CeilNext ==
  ASSUME NEW a \in Nat, NEW d \in Nat \ {0}
  PROVE  CEIL(a + d, d) = CEIL(a, d) + 1
<1> DEFINE c == (a + d - 1) \div d
           s == (a + d - 1) % d
<1>1. a + d - 1 \in Nat
  OBVIOUS
<1>2. c \in Nat /\ s \in 0 .. d - 1 /\ a + d - 1 = d * c + s
  BY <1>1, DivMod
<1>3. (a + d) + d - 1 = (c + 1) * d + s
  <2> HIDE DEF c, s
  <2>1. (c + 1) * d = d * c + d
    BY <1>2
  <2>2. d * c \in Nat
    BY <1>2
  <2> QED
    BY <1>2, <2>1, <2>2
<1> HIDE DEF c, s
<1>4. ((a + d) + d - 1) \div d = c + 1
  <2>1. c + 1 \in Nat
    BY <1>2
  <2> QED
    BY <2>1, <1>2, <1>3, DivModUnique
<1> QED
  BY <1>4 DEF CEIL, c

\* Every block of the output has a cell.
LEMMA BlockHasCell ==
  ASSUME job \in AllJobs, NEW b \in 0 .. job.n - 1
  PROVE  /\ b \div BlockSize \in Nat
         /\ IdxBase + (b \div BlockSize) \in Cells
         /\ IdxBase + (b \div BlockSize) \in 0 .. MaxCells - 1
<1>1. /\ job.n \in Nat /\ job.prg_size \in Nat
      /\ job.n = (IF job.ot THEN job.prg_size + BlockSize ELSE job.prg_size)
      /\ Allocated(job.prg_size) <= MaxCells
  BY JobFacts
<1>2. b \in Nat /\ b < job.n
  BY <1>1
<1>3. b \div BlockSize \in Nat
  BY <1>2, DivMod, PRGAssumption
<1>4. CEIL(job.n, BlockSize) \in Nat /\ b \div BlockSize < CEIL(job.n, BlockSize)
  BY <1>1, <1>2, CeilExact, PRGAssumption
<1>5. Allocated(job.prg_size) = CEIL(job.n, BlockSize) + IdxBase /\ IdxBase \in {0, 1}
  <2>1. CASE job.ot
    BY <1>1, <1>4, <2>1 DEF Allocated, IdxBase
  <2>2. CASE ~job.ot
    BY <1>1, <2>2, CeilNext, PRGAssumption DEF Allocated, IdxBase
  <2> QED
    BY <2>1, <2>2
<1>6. IdxBase + (b \div BlockSize) \in 0 .. Allocated(job.prg_size) - 1
  BY <1>3, <1>4, <1>5
<1> QED
  BY <1>1, <1>3, <1>4, <1>5, <1>6 DEF Cells, MaxCells

\* The schedule of the masks of the CT family has one as well.
LEMMA ZeroCell ==
  ASSUME job \in AllJobs, ~job.ot
  PROVE  0 \in Cells
<1>1. job.prg_size \in Nat
  BY JobFacts
<1>2. job.prg_size + BlockSize \in Nat /\ 0 < job.prg_size + BlockSize
  BY <1>1, PRGAssumption
<1>3. CEIL(job.prg_size + BlockSize, BlockSize) \in Nat /\ 0 \div BlockSize < CEIL(job.prg_size + BlockSize, BlockSize)
  BY <1>2, CeilExact, PRGAssumption
<1>4. 0 \div BlockSize = 0
  BY MultipleMod, PRGAssumption
<1> QED
  BY <1>3, <1>4 DEF Cells, Allocated

-----------------------------------------------------------------------------
\* A schedule from the cache is the one that would be made.
LEMMA ScheduleRight ==
  ASSUME CellsRight, NEW i
  PROVE  Schedule(i) = TweakedSalts(i)
BY DEF CellsRight, Schedule, IsActive

\* Making schedules keeps the cache right.
LEMMA CellsAfterRight ==
  ASSUME CellsRight, NEW is, cells' = CellsAfter(is), job' = job
  PROVE  CellsRight'
<1>1. \A i : TweakedSalts(i)' = TweakedSalts(i)
  BY DEF TweakedSalts, Lanes, ExecOf
<1>2. Cells' = Cells
  BY DEF Cells
<1>3. DOMAIN cells' = DOMAIN cells
  BY DEF CellsAfter
<1>4. ASSUME NEW i \in DOMAIN cells PROVE cells'[i] = Inactive \/ cells'[i] = TweakedSalts(i)
  BY DEF CellsRight, CellsAfter
<1> QED
  BY <1>1, <1>2, <1>3, <1>4 DEF CellsRight

\* Byte b of an output block, encrypted under the schedule of the block.
LEMMA ByteExact ==
  ASSUME JobTypeOK, CellsRight, ContextsFit, xor_mask = [lane \in Lanes |-> MaskOf(lane)],
         NEW lane \in Lanes, NEW b \in 0 .. job.n - 1
  PROVE  MaskedBlock(lane, b \div BlockSize)[b % BlockSize] = Expected(lane, b)
<1>1. job \in AllJobs
  BY DEF JobTypeOK
<1>2. b % BlockSize \in 0 .. BlockSize - 1
  <2>1. b \in Nat
    BY <1>1, JobFacts
  <2> QED
    BY <2>1, DivMod, PRGAssumption
<1>3. IdxBase + (b \div BlockSize) \in 0 .. MaxCells - 1
  BY <1>1, BlockHasCell
<1>4. Schedule(IdxBase + (b \div BlockSize))[lane] = IndexIdentifier(ExecOf(lane), IdxBase + (b \div BlockSize))
  BY ScheduleRight DEF TweakedSalts
<1>5. IndexIdentifier(ExecOf(lane), IdxBase + (b \div BlockSize)) = ExecOf(lane) + 64 * (IdxBase + (b \div BlockSize))
  BY <1>1, <1>3, ExecInRange, IdentifierExact
<1>6. MaskedBlock(lane, b \div BlockSize)[b % BlockSize] =
        <<Encryption(Schedule(IdxBase + (b \div BlockSize))[lane], SeedOf(lane)), MaskOf(lane), b % BlockSize>>
  BY <1>2 DEF MaskedBlock
<1> QED
  BY <1>4, <1>5, <1>6 DEF Expected, Encryption, MaskOf

-----------------------------------------------------------------------------
\* The invariant holds initially.
LEMMA SEInitEstablishes == SeedExpandInit(AllJobs, "call") => SEInv
<1> SUFFICES ASSUME SeedExpandInit(AllJobs, "call") PROVE SEInv
  OBVIOUS
<1>1. /\ job \in AllJobs /\ se_pc = "call" /\ nth = 1 /\ reached = {} /\ filled = 0
      /\ cells = IF job.cached THEN [i \in 0 .. Allocated(job.prg_size) - 1 |-> Inactive] ELSE <<>>
      /\ out_data = [lane \in Lanes |-> [b \in 0 .. job.n - 1 |-> Unwritten]]
  BY DEF SeedExpandInit
<1>2. CellsRight
  <2>1. CASE job.cached
    BY <1>1, <2>1 DEF CellsRight, Cells
  <2>2. CASE ~job.cached
    <3>1. DOMAIN cells = {}
      BY <1>1, <2>2
    <3> QED
      BY <2>2, <3>1 DEF CellsRight
  <2> QED
    BY <2>1, <2>2
<1>3. JobTypeOK
  BY <1>1 DEF JobTypeOK
<1> QED
  BY <1>1, <1>2, <1>3 DEF SEInv, ReachedAllocated, MasksRight, WrittenSoFar, ExpandsAlike

\* The cache after a call of KeySched, whether or not all schedules were made.
Scheduled(is) ==
  /\ \E made \in SUBSET is : cells' = CellsAfter(made)
  /\ reached' \subseteq reached \cup is

\* Schedules of allocated cells keep the cache right and touch no other cell.
LEMMA CacheKept ==
  ASSUME SEInv, NEW is, is \subseteq Cells, Scheduled(is), job' = job
  PROVE  /\ CellsRight' /\ ReachedAllocated'
         /\ (job.cached => reached \subseteq DOMAIN cells)'
<1>1. CellsRight /\ ReachedAllocated
  BY DEF SEInv
<1>2. CellsRight'
  BY <1>1, CellsAfterRight DEF Scheduled
<1>3. Cells' = Cells
  BY DEF Cells
<1>4. reached' \subseteq Cells
  BY <1>1 DEF ReachedAllocated, Scheduled
<1> QED
  BY <1>2, <1>3, <1>4 DEF ReachedAllocated, CellsRight

\* A call that fails leaves the invariant.
LEMMA FailureKeeps ==
  ASSUME SEInv, CellsRight', ReachedAllocated', (job.cached => reached \subseteq DOMAIN cells)',
         se_pc' = "done", se_ret' = -1, UNCHANGED <<job, nth, out_data>>
  PROVE  SEInv'
<1>1. JobTypeOK'
  BY DEF SEInv, JobTypeOK, Lanes
<1> QED
  BY <1>1 DEF SEInv, MasksRight, WrittenSoFar, ExpandsAlike

\* The schedules made before one that fails.
LEMMA SchedFails ==
  ASSUME NEW is, NEW bad \in is,
         cells' = CellsAfter({i \in is : i < bad}), reached' = reached \cup {i \in is : i <= bad}
  PROVE  Scheduled(is)
<1>1. {i \in is : i < bad} \in SUBSET is
  OBVIOUS
<1> QED
  BY <1>1 DEF Scheduled

\* All of them.
LEMMA SchedMade ==
  ASSUME NEW is, cells' = CellsAfter(is), reached' = reached \cup is
  PROVE  Scheduled(is)
BY DEF Scheduled

\* StartCall preserves the invariant.
LEMMA StartCallPreserves ==
  ASSUME SEInv, StartCall
  PROVE  SEInv'
<1>1. /\ se_pc = "call" /\ job \in AllJobs /\ filled = 0 /\ UNCHANGED <<job, nth, filled>>
      /\ JobTypeOK /\ CellsRight /\ ReachedAllocated
  BY DEF StartCall, SEInv, JobTypeOK, WrittenSoFar, SameJob
<1>2. job.cached => reached \subseteq DOMAIN cells
  BY DEF SEInv, ExpandsAlike
<1>3. Lanes' = Lanes /\ \A lane : MaskOf(lane)' = MaskOf(lane)
  BY <1>1 DEF Lanes, MaskOf, ExecOf, SeedOf
<1>4. ASSUME ContextsFit, CellsRight', ReachedAllocated', (job.cached => reached \subseteq DOMAIN cells)',
             xor_mask' = [lane \in Lanes |-> MaskOf(lane)],
             se_pc' = "blocks", UNCHANGED out_data
      PROVE  SEInv'
  <2>1. JobTypeOK'
    BY <1>1, <1>3, <1>4 DEF JobTypeOK
  <2>2. MasksRight'
    BY <1>1, <1>3, <1>4 DEF MasksRight, ContextsFit
  <2>3. WrittenSoFar'
    <3>1. job.n \in Nat /\ BlockSize \in Nat \ {0}
      BY <1>1, JobFacts, PRGAssumption
    <3>2. job.n \div BlockSize \in Nat
      BY <3>1, DivMod
    <3>3. \A b \in 0 .. job.n - 1 : ~(b \div BlockSize < 0)
      <4> TAKE b \in 0 .. job.n - 1
      <4>1. b \in Nat
        BY <3>1
      <4>2. b \div BlockSize \in Nat
        BY <4>1, <3>1, DivMod
      <4> QED
        BY <4>2
    <3> QED
      BY <1>1, <1>4, <3>2, <3>3 DEF WrittenSoFar
  <2> QED
    BY <1>4, <2>1, <2>2, <2>3 DEF SEInv, ExpandsAlike
<1>5. CASE se_pc' = "done" /\ se_ret' = -1 /\ UNCHANGED <<cells, reached, xor_mask, out_data>>
  <2>1. CellsRight' /\ ReachedAllocated'
    BY <1>1, <1>5 DEF CellsRight, ReachedAllocated, Cells, TweakedSalts, Lanes, ExecOf
  <2>2. (job.cached => reached \subseteq DOMAIN cells)'
    BY <1>1, <1>2, <1>5
  <2> QED
    BY <1>1, <1>5, <2>1, <2>2, FailureKeeps
<1>6. CASE /\ ContextsFit /\ job.ot
           /\ xor_mask' = [lane \in Lanes |-> LinOrtho(SeedOf(lane))]
           /\ se_pc' = "blocks"
           /\ UNCHANGED <<se_ret, cells, reached, out_data>>
  <2>1. CellsRight' /\ ReachedAllocated'
    BY <1>1, <1>6 DEF CellsRight, ReachedAllocated, Cells, TweakedSalts, Lanes, ExecOf
  <2>2. xor_mask' = [lane \in Lanes |-> MaskOf(lane)]
    BY <1>6 DEF MaskOf
  <2>3. (job.cached => reached \subseteq DOMAIN cells)'
    BY <1>1, <1>2, <1>6
  <2> QED
    BY <1>4, <1>6, <2>1, <2>2, <2>3
<1>7. CASE /\ ContextsFit /\ ~job.ot
           /\ KeySched({0},
                /\ xor_mask' = [lane \in Lanes |-> Encryption(Schedule(0)[lane], SeedOf(lane))]
                /\ se_pc' = "blocks"
                /\ UNCHANGED <<se_ret, out_data>>)
  <2>1. {0} \subseteq Cells
    BY <1>1, <1>7, ZeroCell
  <2>2. CASE /\ xor_mask' = [lane \in Lanes |-> Encryption(Schedule(0)[lane], SeedOf(lane))]
             /\ se_pc' = "blocks"
             /\ UNCHANGED <<se_ret, out_data>>
             /\ cells' = CellsAfter({0}) /\ reached' = reached \cup {0}
    <3>1. Scheduled({0})
      BY <2>2, SchedMade
    <3>2. CellsRight' /\ ReachedAllocated' /\ (job.cached => reached \subseteq DOMAIN cells)'
      BY <1>1, <2>1, <3>1, CacheKept
    <3>3. ASSUME NEW lane \in Lanes
          PROVE  Encryption(Schedule(0)[lane], SeedOf(lane)) = MaskOf(lane)
      <4>1. Schedule(0)[lane] = IndexIdentifier(ExecOf(lane), 0)
        BY <1>1, ScheduleRight DEF TweakedSalts
      <4>2. ExecOf(lane) \in 0 .. 63 /\ 0 \in 0 .. MaxCells - 1
        BY <1>1, <1>7, ExecInRange DEF MaxCells
      <4>3. IndexIdentifier(ExecOf(lane), 0) = ExecOf(lane) + 64 * 0
        BY <4>2, IdentifierExact
      <4> QED
        BY <1>7, <4>1, <4>2, <4>3 DEF Encryption, MaskOf
    <3>4. xor_mask' = [lane \in Lanes |-> MaskOf(lane)]
      BY <2>2, <3>3
    <3> QED
      BY <1>4, <1>7, <2>2, <3>2, <3>4
  <2>3. CASE /\ se_pc' = "done" /\ se_ret' = -1
             /\ \E bad \in {i \in {0} : ~IsActive(i)} :
                  /\ cells' = CellsAfter({i \in {0} : i < bad})
                  /\ reached' = reached \cup {i \in {0} : i <= bad}
             /\ UNCHANGED <<xor_mask, out_data>>
    <3>1. Scheduled({0})
      BY <2>3, SchedFails
    <3>2. CellsRight' /\ ReachedAllocated' /\ (job.cached => reached \subseteq DOMAIN cells)'
      BY <1>1, <2>1, <3>1, CacheKept
    <3> QED
      BY <1>1, <2>3, <3>2, FailureKeeps
  <2> QED
    BY <1>7, <2>2, <2>3 DEF KeySched
<1> QED
  BY <1>5, <1>6, <1>7 DEF StartCall

\* By fours, twos and ones, every block that is left is expanded.
LEMMA ByPowersAll ==
  ASSUME NEW r \in 0 .. 7
  PROVE  ByPowers(r) = 0 .. r - 1
<1>1. CASE r = 0
  BY <1>1 DEF ByPowers
<1>2. CASE r = 1
  BY <1>2 DEF ByPowers
<1>3. CASE r = 2
  BY <1>3 DEF ByPowers
<1>4. CASE r = 3
  BY <1>4 DEF ByPowers
<1>5. CASE r = 4
  BY <1>5 DEF ByPowers
<1>6. CASE r = 5
  BY <1>6 DEF ByPowers
<1>7. CASE r = 6
  BY <1>7 DEF ByPowers
<1>8. CASE r = 7
  BY <1>8 DEF ByPowers
<1> QED
  BY <1>1, <1>2, <1>3, <1>4, <1>5, <1>6, <1>7, <1>8

\* A round takes the blocks next in order.
LEMMA RoundExact ==
  ASSUME job \in AllJobs, filled \in Nat, filled <= job.n \div BlockSize
  PROVE  /\ Remaining \in Nat /\ RoundSize \in 0 .. Remaining
         /\ Round = filled .. filled + RoundSize - 1
<1>1. job.fn.wide \in 1 .. 8 /\ job.n \in Nat
  BY JobFacts, FunctionFacts
<1>2. job.n \div BlockSize \in Nat
  BY <1>1, DivMod, PRGAssumption
<1>3. Remaining \in Nat
  BY <1>2 DEF Remaining
<1>4. CASE Remaining >= job.fn.wide
  BY <1>1, <1>3, <1>4 DEF Round, RoundSize, Smaller
<1>5. CASE ~(Remaining >= job.fn.wide)
  <2>1. Remaining \in 0 .. 7 /\ RoundSize = Remaining
    BY <1>1, <1>3, <1>5 DEF RoundSize, Smaller
  <2>2. Round = {filled + k : k \in 0 .. Remaining - 1}
    BY <1>5, <2>1, ByPowersAll DEF Round
  <2>3. ASSUME NEW c \in filled .. filled + Remaining - 1
        PROVE  \E k \in 0 .. Remaining - 1 : c = filled + k
    <3>1. c - filled \in 0 .. Remaining - 1 /\ c = filled + (c - filled)
      BY <1>3
    <3> QED
      BY <3>1
  <2>4. ASSUME NEW k \in 0 .. Remaining - 1
        PROVE  filled + k \in filled .. filled + Remaining - 1
    BY <1>3
  <2>5. {filled + k : k \in 0 .. Remaining - 1} = filled .. filled + Remaining - 1
    <3> DEFINE F == filled .. filled + Remaining - 1
               Taken == 0 .. Remaining - 1
    <3>1. \A c \in F : \E k \in Taken : c = filled + k
      BY <2>3
    <3>2. \A k \in Taken : filled + k \in F
      BY <2>4
    <3> HIDE DEF F, Taken
    <3>3. {filled + k : k \in Taken} = F
      BY <3>1, <3>2
    <3> QED
      BY <3>3 DEF F, Taken
  <2>6. RoundSize \in 0 .. Remaining
    BY <2>1
  <2> QED
    BY <1>3, <2>1, <2>2, <2>5, <2>6
<1> QED
  BY <1>4, <1>5

\* Where block c of the output starts.
LEMMA BlockStart ==
  ASSUME job \in AllJobs, NEW c \in Nat, c * BlockSize < job.n
  PROVE  IdxBase + c \in Cells
<1>1. c * BlockSize \in 0 .. job.n - 1 /\ (c * BlockSize) \div BlockSize = c
  <2>1. c * BlockSize \in Nat /\ (c * BlockSize) \div BlockSize = c
    BY MultipleMod, PRGAssumption
  <2>2. job.n \in Nat
    BY JobFacts
  <2> DEFINE a == c * BlockSize
  <2> HIDE DEF a
  <2> QED
    BY <2>1, <2>2 DEF a
<1> QED
  BY <1>1, BlockHasCell

\* A whole block starts within the output.
LEMMA WholeBlock ==
  ASSUME job \in AllJobs, NEW c \in Nat, c < job.n \div BlockSize
  PROVE  c * BlockSize < job.n
<1> DEFINE q == job.n \div BlockSize
           r == job.n % BlockSize
<1>1. /\ q \in Nat /\ r \in 0 .. BlockSize - 1 /\ job.n = BlockSize * q + r
  <2>1. job.n \in Nat
    BY JobFacts
  <2> QED
    BY <2>1, DivMod, PRGAssumption
<1> HIDE DEF q, r
<1>2. (c + 1) * BlockSize <= q * BlockSize
  <2>1. c + 1 \in Nat /\ c + 1 <= q
    BY <1>1 DEF q
  <2> QED
    BY <2>1, <1>1, MultMonotone, PRGAssumption
<1>3. (c + 1) * BlockSize = c * BlockSize + BlockSize /\ q * BlockSize = BlockSize * q
  BY <1>1, PRGAssumption
<1>4. c * BlockSize \in Nat /\ BlockSize * q \in Nat
  BY <1>1, PRGAssumption
<1> QED
  BY <1>1, <1>2, <1>3, <1>4, PRGAssumption

\* What the blocks of cs add to the output.
LEMMA WrittenExact ==
  ASSUME JobTypeOK, CellsRight, ContextsFit, xor_mask = [lane \in Lanes |-> MaskOf(lane)],
         NEW cs, NEW lane \in Lanes
  PROVE  /\ DOMAIN Written(cs, job.n) = Lanes
         /\ DOMAIN Written(cs, job.n)[lane] = 0 .. job.n - 1
         /\ \A b \in 0 .. job.n - 1 :
              Written(cs, job.n)[lane][b] =
                IF b \div BlockSize \in cs THEN Expected(lane, b) ELSE out_data[lane][b]
<1>1. job.n \in Nat
  BY JobFacts DEF JobTypeOK
<1>2. \A b \in 0 .. job.n - 1 : b < job.n
  BY <1>1
<1>3. \A b \in 0 .. job.n - 1 : MaskedBlock(lane, b \div BlockSize)[b % BlockSize] = Expected(lane, b)
  BY ByteExact
<1>4. Written(cs, job.n)[lane] =
        [b \in 0 .. job.n - 1 |->
           IF b \div BlockSize \in cs /\ b < job.n
             THEN MaskedBlock(lane, b \div BlockSize)[b % BlockSize]
             ELSE out_data[lane][b]]
  BY DEF Written
<1>5. DOMAIN Written(cs, job.n) = Lanes
  BY DEF Written
<1> QED
  BY <1>2, <1>3, <1>4, <1>5

\* What holds when the blocks are expanded.
LEMMA ExpandingFacts ==
  ASSUME SEInv, se_pc = "blocks"
  PROVE  /\ job \in AllJobs /\ JobTypeOK /\ CellsRight /\ ReachedAllocated /\ ContextsFit
         /\ xor_mask = [lane \in Lanes |-> MaskOf(lane)]
         /\ filled \in Nat /\ filled <= job.n \div BlockSize
         /\ \A lane \in Lanes : \A b \in 0 .. job.n - 1 :
              b \div BlockSize < filled => out_data[lane][b] = Expected(lane, b)
<1>1. job \in AllJobs /\ JobTypeOK
  BY DEF SEInv, JobTypeOK
<1>2. job.n \div BlockSize \in Nat
  <2>1. job.n \in Nat
    BY <1>1, JobFacts
  <2> QED
    BY <2>1, DivMod, PRGAssumption
<1>3. filled \in 0 .. job.n \div BlockSize
  BY DEF SEInv, WrittenSoFar
<1>4. filled \in Nat /\ filled <= job.n \div BlockSize
  BY <1>2, <1>3
<1> QED
  BY <1>1, <1>4 DEF SEInv, MasksRight, WrittenSoFar

\* The definition depends on the job and the call alone.
LEMMA SameDefinition ==
  ASSUME UNCHANGED <<job, nth>>
  PROVE  /\ Lanes' = Lanes /\ Cells' = Cells /\ IdxBase' = IdxBase
         /\ \A lane, b : Expected(lane, b)' = Expected(lane, b)
         /\ \A lane : MaskOf(lane)' = MaskOf(lane)
BY DEF Lanes, Cells, IdxBase, Expected, MaskOf, ExecOf, SeedOf

\* ExpandBlocks preserves the invariant.
LEMMA ExpandBlocksPreserves ==
  ASSUME SEInv, ExpandBlocks
  PROVE  SEInv'
<1>1. /\ se_pc = "blocks" /\ Remaining > 0 /\ UNCHANGED <<job, nth>> /\ filled' = filled + RoundSize
  BY DEF ExpandBlocks, SameJob
<1>2. /\ job \in AllJobs /\ JobTypeOK /\ CellsRight /\ ReachedAllocated /\ ContextsFit
      /\ xor_mask = [lane \in Lanes |-> MaskOf(lane)]
      /\ filled \in Nat /\ filled <= job.n \div BlockSize
      /\ \A lane \in Lanes : \A b \in 0 .. job.n - 1 :
           b \div BlockSize < filled => out_data[lane][b] = Expected(lane, b)
  BY <1>1, ExpandingFacts
<1>3. /\ Remaining \in Nat /\ RoundSize \in 0 .. Remaining /\ Round = filled .. filled + RoundSize - 1
  BY <1>2, RoundExact
<1>4. job.n \in Nat /\ BlockSize \in Nat \ {0} /\ job.n \div BlockSize \in Nat
  <2>1. job.n \in Nat
    BY <1>2, JobFacts
  <2> QED
    BY <2>1, DivMod, PRGAssumption
<1>5. filled' \in Nat /\ filled' <= job.n \div BlockSize
  BY <1>1, <1>2, <1>3, <1>4 DEF Remaining
<1>6. CellsOf(Round) \subseteq Cells
  <2>1. ASSUME NEW c \in Round PROVE IdxBase + c \in Cells
    <3>1. c \in Nat /\ c < filled'
      BY <1>1, <1>2, <1>3
    <3>2. c < job.n \div BlockSize
      BY <3>1, <1>4, <1>5
    <3> QED
      BY <3>1, <3>2, <1>2, WholeBlock, BlockStart
  <2> QED
    BY <2>1 DEF CellsOf
<1>7. CASE /\ out_data' = Written(Round, job.n)
           /\ UNCHANGED <<se_pc, se_ret, xor_mask>>
           /\ cells' = CellsAfter(CellsOf(Round)) /\ reached' = reached \cup CellsOf(Round)
  <2>1. CellsRight' /\ ReachedAllocated' /\ (job.cached => reached \subseteq DOMAIN cells)'
    BY <1>1, <1>6, <1>7, SchedMade, CacheKept
  <2>2. ASSUME NEW lane \in Lanes
        PROVE  /\ DOMAIN out_data' = Lanes /\ DOMAIN out_data'[lane] = 0 .. job.n - 1
               /\ \A b \in 0 .. job.n - 1 :
                    out_data'[lane][b] =
                      IF b \div BlockSize \in Round THEN Expected(lane, b) ELSE out_data[lane][b]
    BY <1>2, <1>7, WrittenExact
  <2>3. ASSUME NEW lane \in Lanes, NEW b \in 0 .. job.n - 1, b \div BlockSize < filled'
        PROVE  out_data'[lane][b] = Expected(lane, b)
    <3>1. b \div BlockSize \in Nat
      <4>1. b \in Nat
        BY <1>4
      <4> QED
        BY <4>1, <1>4, DivMod
    <3>2. CASE b \div BlockSize < filled
      <4>1. b \div BlockSize \notin Round
        BY <1>2, <1>3, <3>1, <3>2
      <4> QED
        BY <4>1, <1>2, <2>2, <3>2
    <3>3. CASE ~(b \div BlockSize < filled)
      <4>1. b \div BlockSize \in Round
        BY <1>1, <1>2, <1>3, <2>3, <3>1, <3>3
      <4> QED
        BY <4>1, <2>2
    <3> QED
      BY <3>2, <3>3
  <2>4. JobTypeOK'
    <3>1. DOMAIN out_data' = Lanes
      BY <1>7 DEF Written
    <3> QED
      BY <1>1, <1>2, <1>7, <2>2, <3>1, SameDefinition DEF JobTypeOK
  <2>5. MasksRight'
    BY <1>1, <1>2, <1>7, SameDefinition DEF MasksRight, ContextsFit
  <2>6. WrittenSoFar'
    <3>1. se_pc' = "blocks" /\ filled' \in 0 .. job'.n \div BlockSize
      BY <1>1, <1>4, <1>5, <1>7
    <3> QED
      BY <3>1, <1>1, <2>3, SameDefinition DEF WrittenSoFar
  <2>7. ExpandsAlike'
    BY <1>1, <1>7, <2>1 DEF ExpandsAlike
  <2> QED
    BY <2>1, <2>4, <2>5, <2>6, <2>7 DEF SEInv
<1>8. CASE /\ se_pc' = "done" /\ se_ret' = -1
           /\ \E bad \in {i \in CellsOf(Round) : ~IsActive(i)} :
                /\ cells' = CellsAfter({i \in CellsOf(Round) : i < bad})
                /\ reached' = reached \cup {i \in CellsOf(Round) : i <= bad}
           /\ UNCHANGED <<xor_mask, out_data>>
  <2>1. Scheduled(CellsOf(Round))
    BY <1>8, SchedFails
  <2> QED
    BY <1>1, <1>6, <1>8, <2>1, CacheKept, FailureKeeps
<1> QED
  BY <1>7, <1>8 DEF ExpandBlocks, KeySched

\* LastBlock preserves the invariant.
LEMMA LastBlockPreserves ==
  ASSUME SEInv, LastBlock
  PROVE  SEInv'
<1>1. /\ se_pc = "blocks" /\ Remaining = 0 /\ UNCHANGED <<job, nth, filled>>
  BY DEF LastBlock, SameJob
<1>2. /\ job \in AllJobs /\ JobTypeOK /\ CellsRight /\ ReachedAllocated /\ ContextsFit
      /\ xor_mask = [lane \in Lanes |-> MaskOf(lane)]
      /\ filled \in Nat /\ filled <= job.n \div BlockSize
      /\ \A lane \in Lanes : \A b \in 0 .. job.n - 1 :
           b \div BlockSize < filled => out_data[lane][b] = Expected(lane, b)
  BY <1>1, ExpandingFacts
<1>3. /\ job.n \in Nat /\ BlockSize \in Nat \ {0} /\ job.n \div BlockSize \in Nat
      /\ job.n % BlockSize \in 0 .. BlockSize - 1
      /\ job.n = BlockSize * (job.n \div BlockSize) + (job.n % BlockSize)
  <2>1. job.n \in Nat
    BY <1>2, JobFacts
  <2> QED
    BY <2>1, DivMod, PRGAssumption
<1>4. filled = job.n \div BlockSize
  <2> DEFINE m == job.n \div BlockSize
  <2>1. m \in Nat /\ filled \in Nat /\ m - filled = 0
    BY <1>1, <1>2, <1>3 DEF Remaining
  <2> HIDE DEF m
  <2>2. filled = m
    BY <2>1
  <2> QED
    BY <2>2 DEF m
<1>5. ASSUME NEW b \in 0 .. job.n - 1
      PROVE  /\ b \div BlockSize \in Nat /\ b \div BlockSize <= filled
             /\ (job.n % BlockSize = 0 => b \div BlockSize < filled)
  <2>1. /\ b \in Nat /\ b < job.n /\ b <= job.n
    BY <1>3
  <2>2. b \div BlockSize \in Nat /\ b \div BlockSize <= job.n \div BlockSize
    BY <2>1, <1>3, DivMod, DivMonotone
  <2>3. ASSUME job.n % BlockSize = 0, b \div BlockSize = filled
        PROVE  FALSE
    <3>1. b = BlockSize * (b \div BlockSize) + (b % BlockSize) /\ b % BlockSize \in 0 .. BlockSize - 1
      BY <2>1, <1>3, DivMod
    <3> DEFINE r == b % BlockSize
               p == BlockSize * filled
    <3>2. p \in Nat
      BY <1>2, <1>3
    <3>3. b = p + r /\ r \in 0 .. BlockSize - 1
      BY <3>1, <2>3
    <3>4. job.n = p + (job.n % BlockSize)
      BY <1>3, <1>4
    <3> HIDE DEF r, p
    <3>5. job.n = p
      BY <3>2, <3>4, <2>3
    <3> QED
      BY <3>2, <3>3, <3>5, <2>1, PRGAssumption
  <2> QED
    BY <2>2, <2>3, <1>4
<1>6. ASSUME CellsRight', ReachedAllocated', (job.cached => reached \subseteq DOMAIN cells)',
             se_pc' = "done", DOMAIN out_data' = Lanes,
             \A lane \in Lanes : /\ DOMAIN out_data'[lane] = 0 .. job.n - 1
                                 /\ \A b \in 0 .. job.n - 1 : out_data'[lane][b] = Expected(lane, b)
      PROVE  SEInv'
  <2>1. JobTypeOK'
    BY <1>1, <1>2, <1>6, SameDefinition DEF JobTypeOK
  <2>2. ExpandsAlike'
    BY <1>1, <1>6, SameDefinition DEF ExpandsAlike
  <2> QED
    BY <1>6, <2>1, <2>2 DEF SEInv, MasksRight, WrittenSoFar
<1>7. CASE /\ job.n % BlockSize = 0
           /\ se_pc' = "done" /\ UNCHANGED <<cells, reached, xor_mask, out_data>>
  <2>1. CellsRight' /\ ReachedAllocated'
    <3>1. CellsRight /\ ReachedAllocated /\ UNCHANGED <<job, cells, reached>>
      BY <1>1, <1>2, <1>7
    <3> QED
      BY <3>1 DEF CellsRight, ReachedAllocated, Cells, TweakedSalts, Lanes, ExecOf
  <2>2. (job.cached => reached \subseteq DOMAIN cells)'
    BY <1>1, <1>7 DEF SEInv, ExpandsAlike
  <2>3. \A lane \in Lanes : DOMAIN out_data[lane] = 0 .. job.n - 1
    BY <1>2 DEF JobTypeOK
  <2> QED
    BY <1>2, <1>5, <1>6, <1>7, <2>1, <2>2, <2>3 DEF JobTypeOK
<1>8. CASE job.n % BlockSize # 0 /\ KeySched(CellsOf({filled}),
             /\ out_data' = Written({filled}, job.n)
             /\ se_pc' = "done" /\ se_ret' = 0
             /\ UNCHANGED xor_mask)
  <2>1. CellsOf({filled}) \subseteq Cells
    <3>1. filled * BlockSize < job.n
      <4> DEFINE r == job.n % BlockSize
      <4>1. job.n = BlockSize * filled + r /\ r \in Nat /\ r # 0
        BY <1>3, <1>4, <1>8
      <4> HIDE DEF r
      <4> QED
        BY <4>1, <1>2, <1>3
    <3>2. IdxBase + filled \in Cells
      BY <1>2, <3>1, BlockStart
    <3> QED
      BY <3>2 DEF CellsOf
  <2>2. CASE /\ out_data' = Written({filled}, job.n)
             /\ se_pc' = "done" /\ se_ret' = 0
             /\ UNCHANGED xor_mask
             /\ cells' = CellsAfter(CellsOf({filled})) /\ reached' = reached \cup CellsOf({filled})
    <3>1. CellsRight' /\ ReachedAllocated' /\ (job.cached => reached \subseteq DOMAIN cells)'
      BY <1>1, <2>1, <2>2, SchedMade, CacheKept
    <3>2. ASSUME NEW lane \in Lanes
          PROVE  /\ DOMAIN out_data'[lane] = 0 .. job.n - 1
                 /\ \A b \in 0 .. job.n - 1 :
                      out_data'[lane][b] =
                        IF b \div BlockSize \in {filled} THEN Expected(lane, b) ELSE out_data[lane][b]
      BY <1>2, <2>2, WrittenExact
    <3>3. ASSUME NEW lane \in Lanes, NEW b \in 0 .. job.n - 1
          PROVE  out_data'[lane][b] = Expected(lane, b)
      <4>1. CASE b \div BlockSize = filled
        BY <4>1, <3>2
      <4>2. CASE b \div BlockSize # filled
        <5>1. b \div BlockSize < filled
          BY <4>2, <1>2, <1>5
        <5> QED
          BY <4>2, <5>1, <1>2, <3>2
      <4> QED
        BY <4>1, <4>2
    <3>4. DOMAIN out_data' = Lanes
      BY <2>2 DEF Written
    <3> QED
      BY <1>6, <2>2, <3>1, <3>2, <3>3, <3>4
  <2>3. CASE /\ se_pc' = "done" /\ se_ret' = -1
             /\ \E bad \in {i \in CellsOf({filled}) : ~IsActive(i)} :
                  /\ cells' = CellsAfter({i \in CellsOf({filled}) : i < bad})
                  /\ reached' = reached \cup {i \in CellsOf({filled}) : i <= bad}
             /\ UNCHANGED <<xor_mask, out_data>>
    <3>1. Scheduled(CellsOf({filled}))
      BY <2>3, SchedFails
    <3> QED
      BY <1>1, <2>1, <2>3, <3>1, CacheKept, FailureKeeps
  <2> QED
    BY <1>8, <2>2, <2>3 DEF KeySched
<1> QED
  BY <1>7, <1>8 DEF LastBlock

\* NextCall preserves the invariant.
LEMMA NextCallPreserves ==
  ASSUME SEInv, NextCall
  PROVE  SEInv'
<1>1. /\ se_pc' = "call" /\ filled' = 0 /\ nth' = nth + 1 /\ nth \in Nat /\ job \in AllJobs
      /\ out_data' = [lane \in Lanes |-> [b \in 0 .. job.n - 1 |-> Unwritten]]
      /\ UNCHANGED <<job, cells, reached, xor_mask>>
  BY DEF NextCall, SEInv, JobTypeOK
<1>2. CellsRight' /\ ReachedAllocated'
  BY <1>1 DEF SEInv, CellsRight, ReachedAllocated, Cells, TweakedSalts, Lanes, ExecOf
<1>3. JobTypeOK'
  BY <1>1 DEF JobTypeOK, Lanes
<1>4. ExpandsAlike'
  BY <1>1 DEF SEInv, ExpandsAlike
<1> QED
  BY <1>1, <1>2, <1>3, <1>4 DEF SEInv, MasksRight, WrittenSoFar

\* So does a step that changes nothing.
LEMMA SEStutters ==
  ASSUME SEInv, UNCHANGED se_vars
  PROVE  SEInv'
<1>1. UNCHANGED <<job, se_pc, se_ret, nth, cells, reached, xor_mask, filled, out_data>>
  BY DEF se_vars
<1>2. CellsRight' /\ ReachedAllocated'
  BY <1>1 DEF SEInv, CellsRight, ReachedAllocated, Cells, TweakedSalts, Lanes, ExecOf
<1>3. JobTypeOK' /\ MasksRight'
  BY <1>1, SameDefinition DEF SEInv, JobTypeOK, MasksRight, ContextsFit
<1>4. WrittenSoFar' /\ ExpandsAlike'
  BY <1>1, SameDefinition DEF SEInv, WrittenSoFar, ExpandsAlike
<1> QED
  BY <1>2, <1>3, <1>4 DEF SEInv

-----------------------------------------------------------------------------
\* The blocks that a slice encrypts are blocks of its bytes.
LEMMA SliceBlocks ==
  ASSUME NEW start \in Nat, NEW n \in Nat, NEW c \in BlocksOfSlice(start, n)
  PROVE  c \in Nat /\ c * BlockSize < start + n
<1> DEFINE e == (start + n) \div BlockSize
           f == (start + n) % BlockSize
           F == FirstEnc(start, n)
           Whole == NFull(start, n)
<1>1. e \in Nat /\ f \in 0 .. BlockSize - 1 /\ start + n = BlockSize * e + f /\ start + n \in Nat
  <2>1. start + n \in Nat
    OBVIOUS
  <2> QED
    BY <2>1, DivMod, PRGAssumption
<1>2. CASE CutsBlock(start, n) /\ c = e
  <2>1. f # 0
    <3>1. CASE Aligned(start, n)
      <4>1. n = Treated(start, n) + f /\ Treated(start, n) \in Nat
        BY <3>1, AlignedSlice
      <4> HIDE DEF f
      <4>2. n - Treated(start, n) = f
        BY <4>1, <1>1, PRGAssumption
      <4>3. f % BlockSize # 0
        BY <1>2, <4>2 DEF CutsBlock
      <4>4. 0 % BlockSize = 0
        BY PRGAssumption
      <4> QED
        BY <4>3, <4>4
    <3>2. CASE ~Aligned(start, n)
      BY <3>2, WithinBlock
    <3> QED
      BY <3>1, <3>2
  <2> HIDE DEF e, f
  <2>2. e * BlockSize = BlockSize * e /\ BlockSize * e \in Nat
    BY <1>1, PRGAssumption
  <2> QED
    BY <1>1, <1>2, <2>1, <2>2
<1>3. CASE c \in F .. F + Whole - 1
  <2>1. Aligned(start, n)
    <3>1. CASE ~Aligned(start, n)
      <4>1. Whole = 0 /\ Carried(start, n) = 0
        BY <3>1, WithinBlock
      <4>2. F \in Nat
        <5>1. F = start \div BlockSize
          BY <4>1, DivMod, PRGAssumption DEF FirstEnc
        <5> QED
          BY <5>1, DivMod, PRGAssumption
      <4> HIDE DEF F, Whole
      <4> QED
        BY <1>3, <4>1, <4>2
    <3> QED
      BY <3>1
  <2>2. F \in Nat /\ Whole \in Nat
    BY <2>1, AlignedSlice
  <2>3. F + Whole = e
    <3>1. Whole = e - F
      BY DEF NFull
    <3> HIDE DEF F, Whole, e
    <3> QED
      BY <2>2, <3>1, <1>1
  <2> HIDE DEF F, Whole, e, f
  <2>4. c \in Nat /\ c + 1 <= e
    BY <1>3, <2>2, <2>3
  <2>5. (c + 1) * BlockSize <= e * BlockSize
    BY <2>4, <1>1, MultMonotone, PRGAssumption
  <2>6. (c + 1) * BlockSize = c * BlockSize + BlockSize /\ e * BlockSize = BlockSize * e
        /\ c * BlockSize \in Nat /\ BlockSize * e \in Nat
    BY <2>4, <1>1, PRGAssumption
  <2> QED
    BY <2>4, <2>5, <2>6, <1>1, PRGAssumption
<1> QED
  BY <1>2, <1>3 DEF BlocksOfSlice

\* The outcome of ExpandSlices when all schedules were made.
ExpandedSlices ==
  \E first \in {SliceOf(0, job.cut, [b \in 0 .. BlockSize - 1 |-> Unwritten])} :
    \E second \in {SliceOf(job.cut, job.n - job.cut, first.leftover)} :
      /\ out_data' = [out_data EXCEPT ![0] =
           [b \in 0 .. job.n - 1 |-> IF b < job.cut THEN first.out[b]
                                     ELSE second.out[b - job.cut]]]
      /\ se_pc' = "done" /\ se_ret' = 0
      /\ UNCHANGED xor_mask

\* The blocks of lane 0 as a stream.
Masked == [c \in Nat |-> MaskedBlock(0, c)]

\* A slice of the blocks of lane 0.
LEMMA GivenMasked ==
  ASSUME NEW start \in Nat, NEW n \in Nat, NEW leftover,
         start % BlockSize # 0 => leftover = Masked[start \div BlockSize]
  PROVE  IsSliceOf(SliceOf(start, n, leftover), Masked, start, n)
<1> DEFINE run == [k \in 0 .. NFull(start, n) - 1 |-> MaskedBlock(0, FirstEnc(start, n) + k)]
           last == MaskedBlock(0, (start + n) \div BlockSize)
<1>1. SliceOf(start, n, leftover) = Slice(start, n, leftover, run, last)
  BY DEF SliceOf
<1>2. last = Masked[(start + n) \div BlockSize]
  <2>1. start + n \in Nat
    OBVIOUS
  <2>2. (start + n) \div BlockSize \in Nat
    BY <2>1, DivMod, PRGAssumption
  <2> QED
    BY <2>2 DEF Masked
<1>3. \A k \in 0 .. NFull(start, n) - 1 : run[k] = Masked[FirstEnc(start, n) + k]
  <2>1. CASE Aligned(start, n)
    <3>1. FirstEnc(start, n) \in Nat /\ NFull(start, n) \in Nat
      BY <2>1, AlignedSlice
    <3>2. \A k \in 0 .. NFull(start, n) - 1 : FirstEnc(start, n) + k \in Nat
      BY <3>1
    <3> QED
      BY <3>2 DEF Masked
  <2>2. CASE ~Aligned(start, n)
    <3>1. NFull(start, n) = 0
      BY <2>2, WithinBlock
    <3> QED
      BY <3>1
  <2> QED
    BY <2>1, <2>2
<1> HIDE DEF run, last
<1>4. GivenStream(Masked, start, n, leftover, run, last)
  BY <1>2, <1>3 DEF GivenStream
<1>5. IsSliceOf(Slice(start, n, leftover, run, last), Masked, start, n)
  BY <1>4, SliceExact
<1> QED
  BY <1>1, <1>5

\* The two slices make up the output.
LEMMA SlicesExact ==
  ASSUME SEInv, se_pc = "blocks", job.fn.sliced, ExpandedSlices
  PROVE  /\ DOMAIN out_data' = Lanes
         /\ \A lane \in Lanes : /\ DOMAIN out_data'[lane] = 0 .. job.n - 1
                                /\ \A b \in 0 .. job.n - 1 : out_data'[lane][b] = Expected(lane, b)
<1>1. /\ job \in AllJobs /\ JobTypeOK /\ CellsRight /\ ContextsFit
      /\ xor_mask = [lane \in Lanes |-> MaskOf(lane)]
  BY ExpandingFacts
<1>2. job.n \in Nat /\ job.cut \in Nat /\ job.cut <= job.n /\ Lanes = {0}
  <2>1. job.fn.lanes = 1
    BY <1>1, JobFacts, FunctionFacts
  <2>2. Lanes = {0}
    BY <2>1 DEF Lanes
  <2> QED
    BY <1>1, <2>2, JobFacts
<1> DEFINE first == SliceOf(0, job.cut, [b \in 0 .. BlockSize - 1 |-> Unwritten])
           second == SliceOf(job.cut, job.n - job.cut, first.leftover)
           bytes == [b \in 0 .. job.n - 1 |-> IF b < job.cut THEN first.out[b]
                                              ELSE second.out[b - job.cut]]
<1>3. out_data' = [out_data EXCEPT ![0] = bytes]
  BY DEF ExpandedSlices
<1>4. IsSliceOf(first, Masked, 0, job.cut)
  <2>1. 0 % BlockSize = 0
    BY PRGAssumption
  <2> QED
    BY <2>1, <1>2, GivenMasked
<1> HIDE DEF first
<1>5. IsSliceOf(second, Masked, job.cut, job.n - job.cut)
  <2>1. job.cut % BlockSize # 0 => first.leftover = Masked[job.cut \div BlockSize]
    <3>1. 0 + job.cut = job.cut
      BY <1>2
    <3> QED
      BY <3>1, <1>4 DEF IsSliceOf
  <2>2. job.n - job.cut \in Nat
    BY <1>2
  <2> QED
    BY <2>1, <2>2, <1>2, GivenMasked
<1> HIDE DEF second
<1>6. ASSUME NEW b \in 0 .. job.n - 1
      PROVE  bytes[b] = Expected(0, b)
  <2>1. b \in Nat /\ b < job.n
    BY <1>2
  <2>2. Masked[b \div BlockSize][b % BlockSize] = Expected(0, b)
    <3>1. b \div BlockSize \in Nat
      BY <2>1, DivMod, PRGAssumption
    <3>2. 0 \in Lanes
      BY <1>2
    <3>3. MaskedBlock(0, b \div BlockSize)[b % BlockSize] = Expected(0, b)
      BY <1>1, <3>2, ByteExact
    <3> QED
      BY <3>1, <3>3 DEF Masked
  <2>3. CASE b < job.cut
    <3>1. b \in 0 .. job.cut - 1 /\ 0 + b = b
      BY <2>1, <2>3, <1>2
    <3>2. first.out[b] = Masked[(0 + b) \div BlockSize][(0 + b) % BlockSize]
      BY <3>1, <1>4 DEF IsSliceOf
    <3> QED
      BY <2>2, <2>3, <3>1, <3>2
  <2>4. CASE ~(b < job.cut)
    <3>1. b - job.cut \in 0 .. (job.n - job.cut) - 1 /\ job.cut + (b - job.cut) = b
      BY <2>1, <2>4, <1>2
    <3>2. second.out[b - job.cut] =
            Masked[(job.cut + (b - job.cut)) \div BlockSize][(job.cut + (b - job.cut)) % BlockSize]
      BY <3>1, <1>5 DEF IsSliceOf
    <3> QED
      BY <2>2, <2>4, <3>1, <3>2
  <2> QED
    BY <2>3, <2>4
<1>7. DOMAIN bytes = 0 .. job.n - 1
  OBVIOUS
<1> HIDE DEF bytes
<1>8. DOMAIN out_data = Lanes
  BY <1>1 DEF JobTypeOK
<1>9. out_data'[0] = bytes /\ DOMAIN out_data' = Lanes
  BY <1>2, <1>3, <1>8
<1> QED
  BY <1>2, <1>6, <1>7, <1>9

\* ExpandSlices preserves the invariant.
LEMMA ExpandSlicesPreserves ==
  ASSUME SEInv, ExpandSlices
  PROVE  SEInv'
<1> DEFINE cs == BlocksOfSlice(0, job.cut) \cup BlocksOfSlice(job.cut, job.n - job.cut)
<1>1. /\ se_pc = "blocks" /\ job.fn.sliced /\ UNCHANGED <<job, nth, filled>>
      /\ KeySched(CellsOf(cs), ExpandedSlices)
  BY DEF ExpandSlices, SameJob, ExpandedSlices
<1>2. job \in AllJobs /\ JobTypeOK
  BY <1>1, ExpandingFacts
<1>3. CellsOf(cs) \subseteq Cells
  <2>0. job.n \in Nat /\ job.cut \in Nat /\ job.cut <= job.n /\ job.n - job.cut \in Nat
    BY <1>2, JobFacts
  <2>1. ASSUME NEW c \in cs PROVE c \in Nat /\ c * BlockSize < job.n
    <3>1. CASE c \in BlocksOfSlice(0, job.cut)
      <4>1. c \in Nat /\ c * BlockSize < 0 + job.cut
        BY <2>0, <3>1, SliceBlocks
      <4> QED
        BY <4>1, <2>0, PRGAssumption
    <3>2. CASE c \in BlocksOfSlice(job.cut, job.n - job.cut)
      <4>1. c \in Nat /\ c * BlockSize < job.cut + (job.n - job.cut)
        BY <2>0, <3>2, SliceBlocks
      <4> QED
        BY <4>1, <2>0
    <3> QED
      BY <3>1, <3>2
  <2> HIDE DEF cs
  <2> QED
    BY <1>2, <2>1, BlockStart DEF CellsOf
<1> HIDE DEF cs
<1>4. CASE ExpandedSlices /\ cells' = CellsAfter(CellsOf(cs)) /\ reached' = reached \cup CellsOf(cs)
  <2>1. CellsRight' /\ ReachedAllocated' /\ (job.cached => reached \subseteq DOMAIN cells)'
    BY <1>1, <1>3, <1>4, SchedMade, CacheKept
  <2>2. /\ DOMAIN out_data' = Lanes
        /\ \A lane \in Lanes : /\ DOMAIN out_data'[lane] = 0 .. job.n - 1
                               /\ \A b \in 0 .. job.n - 1 : out_data'[lane][b] = Expected(lane, b)
    BY <1>1, <1>4, SlicesExact
  <2>3. se_pc' = "done"
    BY <1>4 DEF ExpandedSlices
  <2>4. JobTypeOK'
    BY <1>1, <1>2, <2>2, <2>3, SameDefinition DEF JobTypeOK
  <2>5. ExpandsAlike'
    BY <1>1, <2>1, <2>2, SameDefinition DEF ExpandsAlike
  <2> QED
    BY <2>1, <2>3, <2>4, <2>5 DEF SEInv, MasksRight, WrittenSoFar
<1>5. CASE /\ se_pc' = "done" /\ se_ret' = -1
           /\ \E bad \in {i \in CellsOf(cs) : ~IsActive(i)} :
                /\ cells' = CellsAfter({i \in CellsOf(cs) : i < bad})
                /\ reached' = reached \cup {i \in CellsOf(cs) : i <= bad}
           /\ UNCHANGED <<xor_mask, out_data>>
  <2>1. Scheduled(CellsOf(cs))
    BY <1>5, SchedFails
  <2> QED
    BY <1>1, <1>3, <1>5, <2>1, CacheKept, FailureKeeps
<1> QED
  BY <1>1, <1>4, <1>5 DEF KeySched

\* The invariant of a batch of calls (SeedExpand*, SeedExpand_key_sched).
THEOREM SeedExpandInvariant == SeedExpandSpec => []SEInv
<1>1. SeedExpandInit(AllJobs, "call") => SEInv
  BY SEInitEstablishes
<1>2. SEInv /\ [SeedExpandNext]_se_vars => SEInv'
  BY StartCallPreserves, ExpandBlocksPreserves, LastBlockPreserves, ExpandSlicesPreserves,
     NextCallPreserves, SEStutters DEF SeedExpandNext
<1> QED
  BY <1>1, <1>2, PTL DEF SeedExpandSpec

\* Every function returns the bytes of the definition for each of its seeds, whatever
\* the calls before it left in the cache, and no cell past the last is touched: for
\* every function, family, length, cut and choice of executions of AllJobs
\* (SeedExpand*, SeedExpand_key_sched, init_SeedExpand_cache).
THEOREM SeedExpandCorrect == SeedExpandSpec => []ExpandsAlike
<1>1. SEInv => ExpandsAlike
  BY DEF SEInv
<1> QED
  BY <1>1, SeedExpandInvariant, PTL

-----------------------------------------------------------------------------
(***************************************************************************)
(* The search for a nonce (Grinding): its invariant.                       *)
(***************************************************************************)
\* A failure after which a batched search would not be running any more.
Mistaken == faulty /\ Scalar

\* No good nonce was passed over.
NothingMissed ==
  ~Mistaken =>
    /\ ret = "running" => ~faulty /\ \A m \in 0..nonce_int-1 : class[m] # "good"
    /\ ret = "ok" => /\ nonce \in Nonces
                     /\ class[nonce] = "good"
                     /\ \A m \in 0..nonce-1 : class[m] # "good"

\* What a search that succeeded has returned, and to whom.
SearchAnswered ==
  /\ ret = "ok" => nonce \in Nonces /\ class[nonce] = "good"
  /\ v_ret # "none" => ret = "ok"

\* The inductive invariant.
IInv ==
  /\ TypeOK
  /\ NothingMissed
  /\ SearchAnswered
  /\ FailureMeansNone
  /\ SameChallenge

-----------------------------------------------------------------------------
(***************************************************************************)
(* The largest element of a set of nonces.                                 *)
(***************************************************************************)

\* One that is bounded has a largest one: the smallest distance to the bound.
LEMMA Largest ==
  ASSUME NEW S, S # {}, NEW b \in Nat, S \subseteq 0..b
  PROVE  \E x \in S : \A z \in S : z <= x
<1> DEFINE D == {b - z : z \in S}
<1>0. \A z \in S : z \in Int /\ b - z \in Nat
  OBVIOUS
<1>1. D \subseteq Nat /\ D # {}
  BY <1>0
<1>2. PICK d \in D : \A c \in D : d <= c
  BY <1>1, Smallest
<1>3. PICK x \in S : d = b - x
  OBVIOUS
<1>4. ASSUME NEW z \in S PROVE z <= x
  <2>1. b - z \in D
    OBVIOUS
  <2>2. d <= b - z
    BY <1>2, <2>1
  <2>3. x \in 0..b /\ z \in 0..b
    OBVIOUS
  <2> QED
    BY <1>3, <2>2, <2>3
<1> QED
  BY <1>4

-----------------------------------------------------------------------------
(***************************************************************************)
(* Batches.                                                                *)
(***************************************************************************)

\* What leaves no remainder is a multiple.
LEMMA MultipleOf ==
  ASSUME NEW k \in Nat \ {0}, NEW x \in Nat, x % k = 0
  PROVE  \E d \in Nat : x = k * d
<1>1. x = k * (x \div k) /\ x \div k \in Nat
  OBVIOUS
<1> QED
  BY <1>1

\* A counter on a batch boundary has a whole batch in front of it, and the one
\* after it is on a boundary too, or is the wrap.
LEMMA Boundary ==
  ASSUME K \in Ks, NEW n \in Nonces, n % K = 0
  PROVE  /\ n + K <= NbNonces
         /\ (n + K) % NbNonces \in Nonces
         /\ ((n + K) % NbNonces) % K = 0
         /\ n + K < NbNonces => (n + K) % NbNonces = n + K
         /\ n + K = NbNonces => (n + K) % NbNonces = 0
<1>1. K \in Nat \ {0} /\ NbNonces \in Nat \ {0} /\ NbNonces % K = 0 /\ n \in Nat /\ n < NbNonces
  BY GrindingAssumption DEF Nonces
<1>2. PICK a \in Nat : NbNonces = K * a
  BY <1>1, MultipleOf
<1>3. PICK c \in Nat : n = K * c
  BY <1>1, MultipleOf
<1>4. c < a
  BY <1>1, <1>2, <1>3
<1>5. K * (c + 1) <= K * a
  BY <1>1, <1>4
<1>6. n + K = K * (c + 1)
  BY <1>1, <1>3
<1>7. n + K <= NbNonces
  BY <1>1, <1>2, <1>5, <1>6
<1>8. n + K < NbNonces => (n + K) % NbNonces = n + K
  BY <1>1
<1>9. n + K = NbNonces => (n + K) % NbNonces = 0
  BY <1>1
<1>10. (n + K) % K = 0
  <2>1. c + 1 \in Nat
    OBVIOUS
  <2>2. ((c + 1) * K) % K = 0
    BY <1>1, <2>1, MultipleMod
  <2>3. n + K = (c + 1) * K
    BY <1>1, <1>3
  <2> QED
    BY <2>2, <2>3
<1>11. 0 % K = 0
  BY <1>1
<1> QED
  BY <1>1, <1>7, <1>8, <1>9, <1>10, <1>11 DEF Nonces

\* The nonces of a batch, and those of its sets, are nonces.
LEMMA BatchNonces ==
  ASSUME K \in Ks, nonce_int \in Nonces, nonce_int % K = 0
  PROVE  /\ Batch \subseteq Nonces
         /\ Good \subseteq Batch /\ Derived \subseteq Batch /\ Good \subseteq Derived
         /\ Nonces \subseteq Nat /\ Nonces = 0..NbNonces-1 /\ NbNonces - 1 \in Nat
<1>0. nonce_int + K <= NbNonces
  BY Boundary
<1>1. nonce_int + K <= NbNonces /\ nonce_int \in Nat /\ K \in Nat \ {0} /\ NbNonces \in Nat \ {0}
  BY <1>0, GrindingAssumption DEF Nonces
<1>2. Batch \subseteq Nonces
  BY <1>1 DEF Batch, Nonces
<1>3. Good \subseteq Derived
  BY DEF Good, Derived
<1> QED
  BY <1>1, <1>2, <1>3 DEF Good, Derived, Nonces

\* The chosen nonce is the first good one of its batch.
LEMMA ChosenIsFirst ==
  ASSUME K \in Ks, nonce_int \in Nonces, nonce_int % K = 0, Good # {}
  PROVE  /\ Chosen \in Good
         /\ \A m \in Good : Chosen <= m
<1>1. Good \subseteq Nat
  BY BatchNonces
<1>2. \E n \in Good : \A m \in Good : n <= m
  BY <1>1, Smallest
<1> QED
  BY <1>2 DEF Chosen

\* What is left in i_star is a nonce of the set, or what was there.
LEMMA LastDerivedType ==
  ASSUME NEW S, S \subseteq Nonces, NEW old \in Nonces \cup {None}
  PROVE  LastDerived(S, old) \in Nonces \cup {None}
<1>1. CASE S = {}
  BY <1>1 DEF LastDerived
<1>2. CASE S # {}
  <2>1. NbNonces - 1 \in Nat /\ S \subseteq 0..NbNonces-1
    BY GrindingAssumption DEF Nonces
  <2>2. \E n \in S : \A m \in S : m <= n
    BY <1>2, <2>1, Largest
  <2> QED
    BY <1>2, <2>2 DEF LastDerived
<1> QED
  BY <1>1, <1>2

-----------------------------------------------------------------------------
(***************************************************************************)
(* The invariant.                                                          *)
(***************************************************************************)

LEMMA InitIInv == Init => IInv
<1> SUFFICES ASSUME Init PROVE IInv
  OBVIOUS
<1>1. K \in Ks /\ 0 \in Nonces /\ 0 % K = 0
  BY GrindingAssumption DEF Nonces, Init
<1>2. TypeOK
  BY <1>1 DEF Init, TypeOK
<1>3. \A m \in 0..nonce_int-1 : FALSE
  BY DEF Init
<1> QED
  BY <1>2, <1>3 DEF Init, IInv, NothingMissed, SearchAnswered, FailureMeansNone, SameChallenge

\* A trial that finds a nonce.
LEMMA TrialFindsIInv == IInv /\ TrialFinds => IInv'
<1> SUFFICES ASSUME IInv, TrialFinds PROVE IInv'
  OBVIOUS
<1>1. /\ ret = "running" /\ Good # {} /\ v_ret = "none"
      /\ K \in Ks /\ nonce_int \in Nonces /\ nonce_int % K = 0
  BY DEF IInv, TypeOK, SearchAnswered, TrialFinds, Trying
<1>2. /\ i_star' = LastDerived({n \in Derived : n <= Chosen}, i_star)
      /\ nonce' = Chosen /\ ret' = "ok" /\ mat_precomputed' = TRUE
      /\ K' = K /\ class' = class /\ nonce_int' = nonce_int /\ faulty' = faulty
      /\ v_i_star' = v_i_star /\ v_ret' = v_ret
  BY DEF TrialFinds, VerifierIdle
<1>3. /\ Chosen \in Good /\ Chosen \in Derived /\ Chosen \in Nonces /\ Chosen \in Nat
      /\ \A m \in Good : Chosen <= m
      /\ class[Chosen] = "good"
  <2>1. Chosen \in Good /\ \A m \in Good : Chosen <= m
    BY <1>1, ChosenIsFirst
  <2>2. Chosen \in Derived /\ Chosen \in Nonces /\ Chosen \in Nat
    BY <1>1, <2>1, BatchNonces
  <2> QED
    BY <2>1, <2>2 DEF Good
<1>4. i_star' = Chosen
  <2> DEFINE S == {n \in Derived : n <= Chosen}
  <2>1. Chosen \in S /\ S # {} /\ \A m \in S : m <= Chosen
    BY <1>3
  <2>2. S \subseteq Nat
    BY <1>1, BatchNonces
  <2> HIDE DEF S
  <2>3. LastDerived(S, i_star) = CHOOSE n \in S : \A m \in S : m <= n
    BY <2>1 DEF LastDerived
  <2>4. \A n \in S : (\A m \in S : m <= n) => n = Chosen
    BY <1>3, <2>1, <2>2
  <2>5. LastDerived(S, i_star) = Chosen
    BY <2>1, <2>3, <2>4
  <2> QED
    BY <1>2, <2>5 DEF S
<1>5. TypeOK'
  BY <1>2, <1>3, <1>4 DEF IInv, TypeOK
<1>6. NothingMissed'
  <2> SUFFICES ASSUME ~Mistaken' PROVE \A m \in 0..Chosen-1 : class[m] # "good"
    BY <1>2, <1>3 DEF NothingMissed
  <2>1. \A m \in 0..nonce_int-1 : class[m] # "good"
    BY <1>1, <1>2 DEF IInv, NothingMissed, Mistaken, Scalar
  <2>2. ASSUME NEW m \in 0..Chosen-1, class[m] = "good" PROVE FALSE
    <3>1. nonce_int \in Nat /\ K \in Nat \ {0} /\ m \in Nat /\ m < Chosen
      BY <1>1, <1>3, GrindingAssumption DEF Nonces
    <3>2. m >= nonce_int
      BY <2>1, <2>2, <3>1
    <3>3. Chosen <= nonce_int + K - 1
      BY <1>3, <3>1 DEF Good, Batch
    <3>4. m \in Good
      BY <1>3, <2>2, <3>1, <3>2, <3>3 DEF Good, Batch
    <3> QED
      BY <1>3, <3>1, <3>4
  <2> QED
    BY <2>2
<1>7. SearchAnswered' /\ FailureMeansNone' /\ SameChallenge'
  BY <1>1, <1>2, <1>3, <1>4 DEF SearchAnswered, FailureMeansNone, SameChallenge
<1> QED
  BY <1>5, <1>6, <1>7 DEF IInv

\* A batch that is given up leaves nothing good behind, unless by mistake.
LEMMA NextBatchIInv ==
  ASSUME IInv, NextBatch, ret = "running", K' = K, class' = class, nonce' = nonce,
         i_star' \in Nonces \cup {None},
         mat_precomputed' \in BOOLEAN, faulty' \in BOOLEAN, v_i_star' = v_i_star, v_ret' = v_ret,
         faulty => faulty',
         ~Mistaken' => ~faulty' /\ Good = {}
  PROVE  IInv'
<1>1. /\ K \in Ks /\ nonce_int \in Nonces /\ nonce_int % K = 0
      /\ nonce_int \in Nat /\ K \in Nat \ {0} /\ NbNonces \in Nat \ {0}
      /\ v_ret = "none"
  BY GrindingAssumption DEF IInv, TypeOK, SearchAnswered, Nonces
<1>2. nonce_int' = (nonce_int + K) % NbNonces
  BY DEF NextBatch, NextNonce
<1>3. ret' = IF nonce_int' = 0 THEN "fail" ELSE "running"
  BY DEF NextBatch, Exhausted
<1>4. /\ nonce_int + K <= NbNonces
      /\ nonce_int' \in Nonces /\ nonce_int' % K = 0
      /\ nonce_int + K < NbNonces => nonce_int' = nonce_int + K
      /\ nonce_int + K = NbNonces => nonce_int' = 0
  BY <1>1, <1>2, Boundary
<1>5. TypeOK'
  BY <1>3, <1>4 DEF IInv, TypeOK
<1>6. ~Mistaken' => ~faulty' /\ \A m \in 0..nonce_int+K-1 : class[m] # "good"
  <2> SUFFICES ASSUME ~Mistaken', NEW m \in 0..nonce_int+K-1, class[m] = "good"
               PROVE  FALSE
    OBVIOUS
  <2>1. Good = {} /\ ~faulty /\ ~Mistaken
    BY DEF Mistaken
  <2>2. \A l \in 0..nonce_int-1 : class[l] # "good"
    BY <2>1 DEF IInv, NothingMissed
  <2>3. m \in Batch
    BY <1>1, <2>2 DEF Batch
  <2> QED
    BY <2>1, <2>3 DEF Good
<1>7. NothingMissed'
  <2>1. CASE ret' = "running"
    <3>1. nonce_int' = nonce_int + K
      BY <1>1, <1>3, <1>4, <2>1
    <3>2. ~Mistaken' => ~faulty' /\ \A m \in 0..nonce_int'-1 : class'[m] # "good"
      BY <1>1, <1>6, <3>1
    <3> QED
      BY <2>1, <3>2 DEF NothingMissed
  <2>2. CASE ret' = "fail"
    BY <2>2 DEF NothingMissed
  <2> QED
    BY <1>3, <2>1, <2>2
<1>8. FailureMeansNone'
  <2> SUFFICES ASSUME ret' = "fail", ~faulty', NEW m \in Nonces
               PROVE  class[m] # "good"
    BY DEF FailureMeansNone
  <2>1. nonce_int + K = NbNonces
    BY <1>1, <1>3, <1>4
  <2>2. m \in 0..nonce_int+K-1
    BY <1>1, <2>1 DEF Nonces
  <2> QED
    BY <1>6, <2>2 DEF Mistaken
<1>9. SearchAnswered' /\ SameChallenge'
  BY <1>1, <1>3 DEF SearchAnswered, SameChallenge
<1> QED
  BY <1>5, <1>7, <1>8, <1>9 DEF IInv

LEMMA TrialRejectsIInv == IInv /\ TrialRejects => IInv'
<1> SUFFICES ASSUME IInv, TrialRejects PROVE IInv'
  OBVIOUS
<1>1. /\ ret = "running" /\ Good = {} /\ NextBatch
      /\ i_star' = LastDerived(Derived, i_star) /\ mat_precomputed' = TRUE
      /\ K' = K /\ class' = class /\ nonce' = nonce /\ faulty' = faulty
      /\ v_i_star' = v_i_star /\ v_ret' = v_ret
  BY DEF TrialRejects, Trying, VerifierIdle
<1>2. Derived \subseteq Nonces
  BY BatchNonces DEF IInv, TypeOK
<1>3. i_star' \in Nonces \cup {None}
  BY <1>1, <1>2, LastDerivedType DEF IInv, TypeOK
<1>4. ~Mistaken' => ~faulty'
  BY <1>1 DEF IInv, NothingMissed, Mistaken, Scalar
<1>5. faulty' \in BOOLEAN
  BY <1>1 DEF IInv, TypeOK
<1> QED
  BY <1>1, <1>3, <1>4, <1>5, NextBatchIInv

\* A trial in which a call fails: the end of the search, or, on the scalar
\* path, a mistake.
LEMMA TrialErrsIInv ==
  ASSUME IInv, NEW what \in {"material", "cipher", "hash"}, TrialErrs(what)
  PROVE  IInv'
<1>1. /\ ret = "running" /\ faulty' = TRUE /\ mat_precomputed' \in BOOLEAN
      /\ i_star' \in {i_star} \cup RefusedBefore
      /\ K' = K /\ class' = class /\ nonce' = nonce /\ v_i_star' = v_i_star /\ v_ret' = v_ret
  BY DEF TrialErrs, Trying, VerifierIdle
<1>2. RefusedBefore \subseteq Nonces
  BY BatchNonces DEF IInv, TypeOK, RefusedBefore
<1>3. i_star' \in Nonces \cup {None}
  BY <1>1, <1>2 DEF IInv, TypeOK
<1>4. CASE StopsOn(what)
  <2>1. ret' = "fail" /\ nonce_int' = nonce_int
    BY <1>4 DEF TrialErrs
  <2>2. v_ret = "none"
    BY <1>1 DEF IInv, TypeOK, SearchAnswered
  <2>3. TypeOK'
    BY <1>1, <1>3, <2>1 DEF IInv, TypeOK
  <2> QED
    BY <1>1, <2>1, <2>2, <2>3
    DEF IInv, NothingMissed, SearchAnswered, FailureMeansNone, SameChallenge
<1>5. CASE ~StopsOn(what)
  <2>1. NextBatch
    BY <1>5 DEF TrialErrs
  <2>2. Mistaken'
    BY <1>1, <1>5, GrindingAssumption DEF StopsOn, Mistaken, Scalar
  <2> QED
    BY <1>1, <1>3, <2>1, <2>2, NextBatchIInv
<1> QED
  BY <1>4, <1>5

LEMMA DeriveChallengeIInv == IInv /\ DeriveChallenge => IInv'
<1> SUFFICES ASSUME IInv, DeriveChallenge PROVE IInv'
  OBVIOUS
<1>1. /\ ret = "ok" /\ nonce \in Nonces /\ class[nonce] = "good" /\ i_star = nonce
  BY DEF DeriveChallenge, IInv, SearchAnswered, SameChallenge
<1>2. v_i_star' = nonce /\ v_ret' = "ok"
  BY <1>1 DEF DeriveChallenge
<1>3. UNCHANGED <<K, class, nonce_int, mat_precomputed, i_star, nonce, ret, faulty>>
  BY DEF DeriveChallenge
<1>4. TypeOK'
  BY <1>1, <1>2, <1>3 DEF IInv, TypeOK
<1>5. NothingMissed'
  BY <1>3 DEF IInv, NothingMissed, Mistaken, Scalar
<1> QED
  BY <1>1, <1>2, <1>3, <1>4, <1>5 DEF IInv, SearchAnswered, FailureMeansNone, SameChallenge

LEMMA StepIInv == IInv /\ [Next]_vars => IInv'
<1> SUFFICES ASSUME IInv, [Next]_vars PROVE IInv'
  OBVIOUS
<1>1. CASE UNCHANGED vars
  BY <1>1 DEF vars, IInv, TypeOK, NothingMissed, Mistaken, Scalar, SearchAnswered, FailureMeansNone, SameChallenge
<1> QED
  BY <1>1, TrialFindsIInv, TrialRejectsIInv, TrialErrsIInv, DeriveChallengeIInv DEF Next

\* The counter stays on a batch boundary and never leaves the nonces.
THEOREM TypeCorrect == Spec => []TypeOK
<1>1. IInv => TypeOK
  BY DEF IInv
<1> QED
  BY InitIInv, StepIInv, <1>1, PTL DEF Spec

\* For every number of nonces and every build, a search none of whose calls was
\* mistaken for a rejection returns the first good nonce of all, and one in which
\* no call failed gives up only when no nonce is good: the builds agree.
THEOREM SearchCorrect == Spec => []SearchExact
<1>1. IInv => SearchExact
  BY DEF IInv, NothingMissed, Mistaken, Scalar, NonceIsFirst, SearchExact
<1> QED
  BY InitIInv, StepIInv, <1>1, PTL DEF Spec

\* Signer and verifier hold the same challenge, that of the nonce returned.
THEOREM ChallengesAgree == Spec => []SameChallenge
<1>1. IInv => SameChallenge
  BY DEF IInv
<1> QED
  BY InitIInv, StepIInv, <1>1, PTL DEF Spec

=============================================================================
