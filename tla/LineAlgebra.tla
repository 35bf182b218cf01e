------------------------------ MODULE LineAlgebra ------------------------------
(***************************************************************************)
(* The data of a batch line commitment.  Everything is linear over GF(2)   *)
(* but the block cipher, so a block is a set of atoms under symmetric      *)
(* difference: the encryption of a seed under a key, the image of a seed   *)
(* by LinOrtho, a raw seed, a block of the witness.  An element of the     *)
(* extension field that the code builds as a sum of constants times blocks *)
(* is a block for each bit of the constant.                                *)
(*                                                                         *)
(* A leaf expands to a row of three blocks: two of x and one of u.         *)
(***************************************************************************)
EXTENDS Integers, FiniteSets, SequencesExt

CONSTANTS TAU, NB_EVALS_LOG

ASSUME LineAssumption ==
  /\ TAU \in Nat \ {0} /\ TAU <= 64
  /\ NB_EVALS_LOG \in Nat /\ NB_EVALS_LOG >= 3

\* The powers of two, up to the number of leaves.
Pow2[n \in 0..NB_EVALS_LOG] == IF n = 0 THEN 1 ELSE 2 * Pow2[n - 1]

NB_EVALS == Pow2[NB_EVALS_LOG]
Execs    == 0..TAU-1
Evals    == 0..NB_EVALS-1
Bits     == 0..NB_EVALS_LOG-1

XBlocks  == {0, 1}
UBlock   == 2
Blocks   == XBlocks \cup {UBlock}

ZeroBlock == {}
ZeroRow   == [b \in Blocks |-> ZeroBlock]

Xor(v, w)    == (v \ w) \cup (w \ v)
RowAdd(r, s) == [b \in Blocks |-> Xor(r[b], s[b])]

\* The sum of f[k] for k in S.
XorAll(f, S) ==
  {a \in UNION {f[k] : k \in S} : Cardinality({k \in S : a \in f[k]}) % 2 = 1}

-----------------------------------------------------------------------------
\* Atoms.
EncAtom(key, seed)  == <<"enc", key, seed[1], seed[2]>>
OrthoAtom(seed)     == <<"ortho", 0, seed[1], seed[2]>>
SeedAtom(seed)      == <<"seed", 0, seed[1], seed[2]>>
WitnessAtom(b)      == <<"x", b, 0, 0>>

\* The leaf seed of execution e at evaluation i; the hidden one is zeroes.
Seed(e, i) == <<e, i>>
ZeroSeed   == <<-1, -1>>

\* The tweak of block b of execution e: one key for each of them.
IndexIdentifier(e, b) == e + 64 * b

LinOrtho(seed) == {OrthoAtom(seed)}

\* In a correlated tree the leaves of an execution add up to delta, which is
\* the first block of the witness; the last leaf depends on the others.
RawSeed(seed) ==
  IF seed[2] = NB_EVALS - 1
  THEN {WitnessAtom(0)} \cup {SeedAtom(<<seed[1], i>>) : i \in 0..NB_EVALS-2}
  ELSE {SeedAtom(seed)}

\* SeedExpand, under the key schedule key[b] for block b.  CT: the raw seed,
\* then blocks masked with the encryption under the key of block 0; OT: every
\* block is masked with LinOrtho of the seed.
Row(fam, key, seed) ==
  LET enc(b) == {EncAtom(key[b], seed)}
  IN  IF fam = "CT"
      THEN [b \in Blocks |-> IF b = 0 THEN RawSeed(seed) ELSE Xor(enc(b), enc(0))]
      ELSE [b \in Blocks |-> Xor(enc(b), LinOrtho(seed))]

KeysOf(e) == [b \in Blocks |-> IndexIdentifier(e, b)]

\* The witness, in the blocks of a row.
Witness == [b \in Blocks |-> IF b \in XBlocks THEN {WitnessAtom(b)} ELSE ZeroBlock]

\* SeedCommit under the two keys of execution e.
SeedCommit(e, seed) == <<e, seed>>

\* Hash_7.  A CT opening omits the first block of delta_x, which is zero.
Sent(fam, delta_x) ==
  [b \in (IF fam = "CT" THEN {1} ELSE XBlocks) |-> delta_x[b]]
Hash_7(e, ls_com, sent) == [e |-> e, ls_com |-> ls_com, delta_x |-> sent]

-----------------------------------------------------------------------------
\* Constants of the extension field, as bits.
Bit(c, b) == (c \div Pow2[b]) % 2

\* Bit b of the Gray code of i.
PointBit(i, b) == (Bit(i, b) + Bit(i, b + 1)) % 2

\* The bit in which the Gray codes of i and i + 1 differ.
get_gray_code_bit_position(i) ==
  IF i + 1 < NB_EVALS
  THEN CHOOSE b \in Bits : Bit(i + 1, b) = 1 /\ (i + 1) % Pow2[b] = 0
  ELSE NB_EVALS_LOG - 1

\* 2^p times a row, and r times a row, r an evaluation point.
ZeroExt == [p \in Bits |-> ZeroRow]
Scaled(p, row) == [ZeroExt EXCEPT ![p] = row]
AtPoint(i, row) == [p \in Bits |-> IF PointBit(i, p) = 1 THEN row ELSE ZeroRow]
ExtAdd(v, w) == [p \in Bits |-> RowAdd(v[p], w[p])]

-----------------------------------------------------------------------------
(***************************************************************************)
(* Folding.  The accumulator goes through the rows of the leaves in order; *)
(* its value after leaf i is added to the bucket of i.  The buckets add up *)
(* to P0.                                                                  *)
(***************************************************************************)
\* The accumulator after each of the rows.
Snapshots(acc, rows) ==
  LET s[k \in 0..Len(rows)] == IF k = 0 THEN acc ELSE RowAdd(s[k - 1], rows[k])
  IN  [k \in 1..Len(rows) |-> s[k]]

ZeroBuckets == [p \in Bits |-> ZeroRow]

\* snapshots[k] goes to bucket pos[k].
Bucketed(data, snapshots, pos) ==
  LET d[k \in 0..Len(snapshots)] ==
        IF k = 0 THEN data ELSE [d[k - 1] EXCEPT ![pos[k]] = RowAdd(@, snapshots[k])]
  IN  d[Len(snapshots)]

\* The sum of the buckets, each scaled by its constant.
FoldedP0(data) ==
  LET v[p \in 0..NB_EVALS_LOG] ==
        IF p = 0 THEN ZeroExt ELSE ExtAdd(v[p - 1], Scaled(p - 1, data[p - 1]))
  IN  v[NB_EVALS_LOG]

\* x_eval and u_eval at the point of i: delta_x, zero-padded, is scaled by the
\* point along with the accumulator.
EvaluatedAt(i, p0, acc, delta_x) ==
  ExtAdd(p0, AtPoint(i, [b \in Blocks |-> IF b \in DOMAIN delta_x
                                          THEN Xor(acc[b], delta_x[b]) ELSE acc[b]]))

-----------------------------------------------------------------------------
(***************************************************************************)
(* What is committed to: the line whose value at point(i) is the sum, over *)
(* the leaves k, of (point(k) + point(i)) times the row of leaf k, plus    *)
(* point(i) times x.                                                       *)
(***************************************************************************)
RowsOf(fam, e) == [i \in Evals |-> Row(fam, KeysOf(e), Seed(e, i))]

ColumnSum(rows, S) == [b \in Blocks |-> XorAll([i \in Evals |-> rows[i][b]], S)]

\* The line of execution e: P0 (x0 and u0), P1 (its u part is u1), delta_x.
LineOf(rows) ==
  LET total == ColumnSum(rows, Evals)
  IN  [p0 |-> [p \in Bits |-> ColumnSum(rows, {i \in Evals : PointBit(i, p) = 1})],
       u1 |-> total[UBlock],
       delta_x |-> [b \in XBlocks |-> Xor(Witness[b], total[b])]]

\* Its value at the point of i: x0 + r x and u0 + r u1.
LineAt(line, i) ==
  ExtAdd(line.p0, AtPoint(i, [Witness EXCEPT ![UBlock] = line.u1]))

=============================================================================
