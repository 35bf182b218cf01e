------------------------------ MODULE FieldsNeon ------------------------------
(***************************************************************************)
(* The ARM build of the field code (fields_arm_neon.h). Every register is  *)
(* loaded and stored with the bytes left, at most Reg; a register holds    *)
(* the elements of two packed bytes.                                       *)
(***************************************************************************)
EXTENDS FieldsRef

(***************************************************************************)
(* Incomplete loads and stores, lane by lane.                              *)
(***************************************************************************)
load_incomplete_neon(a, off, len) ==
  IF len >= Reg THEN LoadReg(a, off)
  ELSE [k \in Bytes |-> IF len > k THEN Cell(a, off + k) ELSE Zero]

\* The number of bytes written.
store_incomplete_neon(len) == IF len >= Reg THEN Reg ELSE len

\* The bytes left, of len, at i.
Rem(i, len) == Min({len - i, Reg})

BlockNeon(a, i, len) == load_incomplete_neon(a, i, Rem(i, len))
StoredNeon(i, len) == store_incomplete_neon(Rem(i, len))

gf_prefix_mask_neon(a, k) == PrefixOf(a, k)
gf_panel_tail_neon(A, off, tail, size) == WholeThenMasked(A, off, tail, size, load_incomplete_neon)

\* The bits of the rem elements from the i-th on: the second byte is read if
\* rem reaches it.
gf2_expand_16bits_neon(a, i, rem) ==
  [k \in Bytes |-> IF k < Bits \/ (k < 2 * Bits /\ rem > Bits) THEN Cell(a, i + k) ELSE Zero]

\* One byte of them, in pairs.
gf2_expand_8bits_neon(a, i) == DupBytes([k \in Bytes |-> IF k < Bits THEN Cell(a, i + k) ELSE Zero])

(***************************************************************************)
(* The bytes of a register added up, and its pairs: the sum of the halves  *)
(* is added to itself, turned by half of it, by a quarter, and so on.      *)
(***************************************************************************)
Turned(v, w) ==
  LET f[n \in 1 .. Half] ==
        IF n = Half THEN [k \in 0 .. Half - 1 |-> Added(v[k], v[k + Half])]
        ELSE [k \in 0 .. Half - 1 |-> Added(f[2 * n][k], f[2 * n][(k + n) % Half])]
  IN  [c \in 1 .. w |-> f[w][c - 1]]

sum_uint8_neon(v) == Turned(v, 1)
sum_uint16_neon(v) == Turned(v, 2)
parity_neon(v) == Parity(v)

(***************************************************************************)
(* GF(2).                                                                  *)
(***************************************************************************)
gf2_constant_vect_mult_neon(b, a, c, len) == gf2_constant_vect_mult_ref(b, a, c, len)

gf2_vect_mult_neon(a, b, len_bits) ==
  LET len == len_bits \div Bits
      loaded(i, k) == k < Bits * Rem(i, len)
  IN  parity_neon(BitsSum(RegsOf(len), LAMBDA i, k :
        IF loaded(i, k) THEN Product(Cell(a, (Bits * i) + k), Cell(b, (Bits * i) + k)) ELSE Zero))

gf2_mat_mult_neon(A, X, Y, n, mtype) == GF2_MAT_MULT(A, X, Y, n, mtype, gf2_vect_mult_neon)

gf2_mat_transpose_neon(A, B, n, mtype) == gf2_mat_transpose_ref(A, B, n, mtype)

(***************************************************************************)
(* GF(256). A table of the products with a constant is looked up nibble by *)
(* nibble.                                                                 *)
(***************************************************************************)
gf256_mult_vectorized_neon(a, b) == RegMult(a, b)

gf256_const_mult_block_neon(a, b) == [k \in Bytes |-> Product(b, a[k])]

gf256_constant_vect_mult_neon(b, a, c, len) ==
  StoreAll(c, RegsOf(len), LAMBDA i : StoredNeon(i, len),
           LAMBDA i, k : gf256_const_mult_block_neon(BlockNeon(a, i, len), b[1])[k])

gf256_vect_mult_neon(a, b, len) ==
  sum_uint8_neon(RegSum(RegsOf(len), LAMBDA i :
    gf256_mult_vectorized_neon(BlockNeon(a, i, len), BlockNeon(b, i, len))))

gf256_vect_mult_multiple_public_neon(a, bs, len) ==
  [e \in DOMAIN bs |-> gf256_vect_mult_neon(a, bs[e], len)]

\* mulfun of a macro that adds to a sum.
MacNeon(acc, a, x) == RegAdd(acc, gf256_mult_vectorized_neon(a, x))

GF_MAT_MULT_PANEL_NEON(A, Y, n, p, np, xb, tri_inf, elt_sz, mac(_, _, _), hsum(_)) ==
  AddPanel(A, Y, n, elt_sz, p, np, xb, mac, gf_panel_tail_neon, hsum, tri_inf)

PanelOfBytes(A, Y, n, p, np, xb, tri_inf) ==
  GF_MAT_MULT_PANEL_NEON(A, Y, n, p, np, xb, tri_inf, 1, MacNeon, sum_uint8_neon)

gf256_mat_mult_neon(A, X, Y, n, mtype) ==
  LET xb(q) == IF (Reg * q) + Reg <= n THEN LoadReg(X, Reg * q)
               ELSE load_incomplete_neon(X, Reg * q, n - (Reg * q))
  IN  IF mtype = TRI_SUP THEN GF256_MAT_MULT(A, X, Y, n, 1, mtype, gf256_vect_mult_neon)
      ELSE Panels(A, Y, n, NBlocks(n), xb, PanelOfBytes, mtype = TRI_INF)

(***************************************************************************)
(* GF(2) and GF(256). The matrices are taken whole: their zeros do not     *)
(* count.                                                                  *)
(***************************************************************************)
gf2_gf256_vect_mult_neon(a_gf2, b_gf256, n) ==
  sum_uint8_neon(RegSum(RegsOf(n), LAMBDA i :
    RegMult(gf2_expand_16bits_neon(a_gf2, i, Rem(i, n)), BlockNeon(b_gf256, i, n))))

gf2_gf256_constant_vect_mult_neon(a_gf2, b_gf256, c_gf256, n) ==
  gf2_gf256_constant_vect_mult_ref(a_gf2, b_gf256, c_gf256, n)

gf256_gf2_constant_vect_mult_neon(a_gf256, b_gf2, c_gf256, n) ==
  StoreAll(c_gf256, RegsOf(n), LAMBDA i : StoredNeon(i, n),
           LAMBDA i, k : RegMult(Splat(a_gf256), gf2_expand_16bits_neon(b_gf2, i, Rem(i, n)))[k])

gf256_gf2_vect_mult_neon(a_gf256, b_gf2, n) == gf2_gf256_vect_mult_neon(b_gf2, a_gf256, n)

gf2_gf256_mat_mult_neon(A, X, Y, n, mtype) ==
  GF2_GF256_MAT_MULT(A, X, Y, n, 1, REG, gf2_gf256_vect_mult_neon)

gf256_gf2_mat_mult_neon(A, X, Y, n, mtype) ==
  GF256_GF2_MAT_MULT(A, X, Y, n, 1, REG, gf256_gf2_vect_mult_neon)

gf256_mat_transpose_neon(A, B, n, mtype) == gf256_mat_transpose_ref(A, B, n, mtype)

(***************************************************************************)
(* GF(16) and GF(256).                                                     *)
(***************************************************************************)
gf256_expand_nibbles_neon(a, off, len) == [k \in Bytes |-> Lift(Expanded(a, off, len, 2)[k])]

NibblesNeon(a, i, n) == gf256_expand_nibbles_neon(a, i \div 2, (Rem(i, n) + 1) \div 2)

gf256_vect_lift_from_gf16_neon(b_gf16, c_gf256, len) ==
  StoreAll(c_gf256, RegsOf(len), LAMBDA i : StoredNeon(i, len),
           LAMBDA i, k : NibblesNeon(b_gf16, i, len)[k])

gf16_gf256_constant_vect_mult_neon(a_gf16, b_gf256, c_gf256, n) ==
  LET a_gf256 == gf256_vect_lift_from_gf16_ref([k \in {0} |-> a_gf16], [k \in {0} |-> Zero], 1)
  IN  gf256_constant_vect_mult_neon(Byte(a_gf256, 0), b_gf256, c_gf256, n)

gf256_gf16_constant_vect_mult_neon(a_gf256, b_gf16, c_gf256, n) ==
  StoreAll(c_gf256, RegsOf(n), LAMBDA i : StoredNeon(i, n),
           LAMBDA i, k : Product(a_gf256[1], NibblesNeon(b_gf16, i, n)[k]))

gf16_gf256_vect_mult_neon(a_gf16, b_gf256, len) ==
  LET a(i) == gf_prefix_mask_neon(NibblesNeon(a_gf16, i, len), Rem(i, len))
  IN  sum_uint8_neon(RegSum(RegsOf(len), LAMBDA i :
        gf256_mult_vectorized_neon(a(i), BlockNeon(b_gf256, i, len))))

gf256_gf16_vect_mult_neon(a_gf256, b_gf16, n) == gf16_gf256_vect_mult_neon(b_gf16, a_gf256, n)

gf256_gf16_mat_mult_neon(A, X, Y, n, mtype) ==
  LET nelts(q) == Rem(Reg * q, n)
      xb(q) == IF nelts(q) < Reg THEN gf_prefix_mask_neon(NibblesNeon(X, Reg * q, n), nelts(q))
               ELSE NibblesNeon(X, Reg * q, n)
  IN  Panels(A, Y, n, NBlocks(n), xb, PanelOfBytes, mtype = TRI_INF)

(***************************************************************************)
(* GF(256^2).                                                              *)
(***************************************************************************)
gf256to2_mult_vectorized_neon(a, b) ==
  LET cross == RegMult(RegAdd(DupLow(a), DupHigh(a)), RegAdd(DupLow(b), DupHigh(b)))
      z00 == RegMult(DupLow(a), DupLow(b))
      z11 == RegMult(DupHigh(a), DupHigh(b))
  IN  [k \in Bytes |-> Added(z00[k], IF k % 2 = 0 THEN Product(z11[k], Const32) ELSE cross[k])]

gf256to2_mult_by_t_neon(b) ==
  [k \in Bytes |-> IF k % 2 = 0 THEN Product(DupHigh(b)[k], Const32) ELSE Added(b[k], b[k - 1])]

\* The pair of multiples is x and x times X.
GF256TO2_MAC2_NEON(acc, a, x) ==
  RegAdd(acc, RegAdd(gf256_mult_vectorized_neon(DupLow(a), x),
                     gf256_mult_vectorized_neon(DupHigh(a), gf256to2_mult_by_t_neon(x))))

\* The three constants of b have their tables.
gf256to2_constant_vect_mult_neon(b, a, c, len) ==
  LET v(i) == BlockNeon(a, i, 2 * len)
      z00(i) == gf256_const_mult_block_neon(DupLow(v(i)), b[1])
      z11beta(i) == gf256_const_mult_block_neon(DupHigh(v(i)), Product(b[2], Const32))
      cross(i) == gf256_const_mult_block_neon(RegAdd(DupLow(v(i)), DupHigh(v(i))), Added(b[1], b[2]))
  IN  StoreAll(c, RegsOf(2 * len), LAMBDA i : StoredNeon(i, 2 * len),
               LAMBDA i, k : Added(z00(i)[k], IF k % 2 = 0 THEN z11beta(i)[k] ELSE cross(i)[k]))

gf256to2_vect_mult_neon(a, b, len) ==
  sum_uint16_neon(RegSum(RegsOf(2 * len), LAMBDA i :
    gf256to2_mult_vectorized_neon(BlockNeon(a, i, 2 * len), BlockNeon(b, i, 2 * len))))

gf256to2_vect_mult_multiple_public_neon(a, bs, len) ==
  [e \in DOMAIN bs |-> gf256to2_vect_mult_neon(a, bs[e], len)]

PanelOfPairs(A, Y, n, p, np, xb, tri_inf) ==
  GF_MAT_MULT_PANEL_NEON(A, Y, n, p, np, xb, tri_inf, 2, GF256TO2_MAC2_NEON, sum_uint16_neon)

PanelOfPairsBytewise(A, Y, n, p, np, xb, tri_inf) ==
  GF_MAT_MULT_PANEL_NEON(A, Y, n, p, np, xb, tri_inf, 2, MacNeon, sum_uint16_neon)

gf256to2_mat_mult_neon(A, X, Y, n, mtype) ==
  LET xb(q) == IF (Reg * q) + Reg <= 2 * n THEN LoadReg(X, Reg * q)
               ELSE load_incomplete_neon(X, Reg * q, (2 * n) - (Reg * q))
  IN  IF mtype = TRI_SUP THEN GF256_MAT_MULT(A, X, Y, n, 2, mtype, gf256to2_vect_mult_neon)
      ELSE Panels(A, Y, n, NBlocks(2 * n), xb, PanelOfPairs, mtype = TRI_INF)

(***************************************************************************)
(* GF(2) and GF(256^2): half a register of pairs, one packed byte, a round.*)
(***************************************************************************)
RemPairs(i, n) == Min({n - i, Half})
PairOffsets(n) == Offsets(0, 2 * n, 2 * Half)

gf2_gf256to2_constant_vect_mult_neon(a_gf2, b_gf256to2, c_gf256to2, n) ==
  gf2_gf256to2_constant_vect_mult_ref(a_gf2, b_gf256to2, c_gf256to2, n)

gf256to2_gf2_constant_vect_mult_neon(a_gf256to2, b_gf2, c_gf256to2, n) ==
  StoreAll(c_gf256to2, PairOffsets(n),
           LAMBDA i : store_incomplete_neon(2 * RemPairs(i \div 2, n)),
           LAMBDA i, k : RegMult(Splat(a_gf256to2), gf2_expand_8bits_neon(b_gf2, i \div 2))[k])

gf256to2_gf256_constant_vect_mult_neon(a_gf256to2, c, b_off, n) ==
  ExpandInPlace(a_gf256to2, c, b_off, n, load_incomplete_neon)

gf256_gf256to2_constant_vect_mult_neon(a_gf256, b_gf256to2, c_gf256to2, n) ==
  StoreAll(c_gf256to2, RegsOf(2 * n), LAMBDA i : StoredNeon(i, 2 * n),
           LAMBDA i, k : gf256_const_mult_block_neon(BlockNeon(b_gf256to2, i, 2 * n), a_gf256)[k])

gf2_gf256to2_vect_mult_neon(a_gf2, b_gf256to2, n) ==
  sum_uint16_neon(RegSum(Offsets(0, n, Half), LAMBDA i :
    RegMult(gf2_expand_8bits_neon(a_gf2, i),
            load_incomplete_neon(b_gf256to2, 2 * i, 2 * RemPairs(i, n)))))

gf256to2_gf2_vect_mult_neon(a_gf256to2, b_gf2, n) == gf2_gf256to2_vect_mult_neon(b_gf2, a_gf256to2, n)

gf2_gf256to2_mat_mult_neon(A, X, Y, n, mtype) ==
  GF2_GF256_MAT_MULT(A, X, Y, n, 2, mtype, gf2_gf256to2_vect_mult_neon)

gf256to2_gf2_mat_mult_neon(A, X, Y, n, mtype) ==
  GF256_GF2_MAT_MULT(A, X, Y, n, 2, mtype, gf256to2_gf2_vect_mult_neon)

gf256to2_mat_transpose_neon(A, B, n, mtype) == gf256to2_mat_transpose_ref(A, B, n, mtype)

(***************************************************************************)
(* GF(16) and GF(256^2).                                                   *)
(***************************************************************************)
gf16_gf256to2_constant_vect_mult_neon(a_gf16, b_gf256to2, c_gf256to2, n) ==
  LET a_gf256 == gf256_vect_lift_from_gf16_ref([k \in {0} |-> a_gf16], [k \in {0} |-> Zero], 1)
  IN  gf256_gf256to2_constant_vect_mult_neon(Cell(a_gf256, 0), b_gf256to2, c_gf256to2, n)

gf256to2_gf16_constant_vect_mult_neon(a_gf256to2, b_gf16, c_gf256to2, n) ==
  LET lifted == gf256_vect_lift_from_gf16_neon(b_gf16, From(c_gf256to2, n), n)
  IN  gf256to2_gf256_constant_vect_mult_neon(
        a_gf256to2, LiftedInTheUpperHalf(c_gf256to2, n, lifted), n, n)

gf16_gf256to2_vect_mult_neon(a_gf16, b_gf256to2, len) ==
  LET gf16_n(i) == Rem(i, 2 * len) \div 2
      packed(i) == gf256_expand_nibbles_neon(a_gf16, i \div 4, (gf16_n(i) + 1) \div 2)
  IN  sum_uint16_neon(RegSum(RegsOf(2 * len), LAMBDA i :
        gf256_mult_vectorized_neon(DupBytes(gf_prefix_mask_neon(packed(i), gf16_n(i))),
                                   BlockNeon(b_gf256to2, i, 2 * len))))

gf256to2_gf16_vect_mult_neon(a_gf256to2, b_gf16, n) == gf16_gf256to2_vect_mult_neon(b_gf16, a_gf256to2, n)

gf256to2_gf16_mat_mult_neon(A, X, Y, n, mtype) ==
  LET nelts(q) == Min({((2 * n) - (Reg * q)) \div 2, Half})
      lifted(q) == gf256_expand_nibbles_neon(X, (Reg * q) \div 4, (nelts(q) + 1) \div 2)
      xb(q) == DupBytes(IF nelts(q) < Half THEN gf_prefix_mask_neon(lifted(q), nelts(q)) ELSE lifted(q))
  IN  Panels(A, Y, n, NBlocks(2 * n), xb, PanelOfPairsBytewise, mtype = TRI_INF)
=============================================================================
