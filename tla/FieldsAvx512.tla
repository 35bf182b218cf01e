----------------------------- MODULE FieldsAvx512 -----------------------------
(***************************************************************************)
(* The AVX-512 build of the field code (fields_avx512.h). Loads and stores *)
(* are masked to the byte, and packed bits are masks themselves.           *)
(***************************************************************************)
EXTENDS FieldsRef

(***************************************************************************)
(* Incomplete loads and stores, of at most a register.                     *)
(***************************************************************************)
load_incomplete_m512(a, off, len) ==
  [k \in Bytes |-> IF k < Min({len, Reg}) THEN Cell(a, off + k) ELSE Zero]

\* The number of bytes written.
store_incomplete_m512(len) == Min({len, Reg})

BlockAvx512(a, i, len) ==
  IF len - i < Reg THEN load_incomplete_m512(a, i, len - i) ELSE LoadReg(a, i)

StoredAvx512(i, len) == IF len - i < Reg THEN store_incomplete_m512(len - i) ELSE Reg

gf_keep_prefix_avx512(v, k) == PrefixOf(v, k)

\* The incomplete block of a row is never loaded whole.
gf_panel_tail_avx512(A, off, tail, size) == load_incomplete_m512(A, off, tail)

\* The bits of the len elements from the i-th on: bit k, for element i + k.
mask64_from_m128(b, i, len) ==
  [k \in Bytes |-> IF k < Bits * CeilBytes(len, Bits) THEN Cell(b, i + k) ELSE Zero]

(***************************************************************************)
(* The bits of a register added up, its bytes and its pairs.               *)
(***************************************************************************)
parity_avx512(accu) == Parity(accu)
sum_uint8_avx512(accu) == Folded(accu, 1)
sum_uint16_avx512(accu) == Folded(accu, 2)

(***************************************************************************)
(* GF(2).                                                                  *)
(***************************************************************************)
gf2_constant_vect_mult_avx512(b, a, c, len) == gf2_constant_vect_mult_ref(b, a, c, len)

gf2_vect_mult_avx512(a, b, len_bits) ==
  LET len == len_bits \div Bits
      inBlock(i, k) == k < Bits * Min({len - i, Reg})
  IN  parity_avx512(BitsSum(RegsOf(len), LAMBDA i, k :
        IF inBlock(i, k) THEN Product(Cell(a, (Bits * i) + k), Cell(b, (Bits * i) + k)) ELSE Zero))

gf2_mat_mult_avx512(A, X, Y, n, mtype) == GF2_MAT_MULT(A, X, Y, n, mtype, gf2_vect_mult_avx512)

gf2_mat_transpose_avx512(A, B, n, mtype) == gf2_mat_transpose_ref(A, B, n, mtype)

(***************************************************************************)
(* GF(256).                                                                *)
(***************************************************************************)
gf256_mult_vectorized_avx512(a, b) == RegMult(a, b)

gf256_mac_block_avx512(acc, a, mul) == RegAdd(acc, RegMult(a, mul))

gf256_mat_mult_panel_avx512(A, Y, n, p, np, mul, tri_inf) ==
  AddPanel(A, Y, n, 1, p, np, mul, gf256_mac_block_avx512, gf_panel_tail_avx512, sum_uint8_avx512, tri_inf)

gf256_constant_vect_mult_avx512(b, a, c, len) ==
  StoreAll(c, RegsOf(len), LAMBDA i : StoredAvx512(i, len),
           LAMBDA i, k : gf256_mult_vectorized_avx512(BlockAvx512(a, i, len), Splat(b))[k])

gf256_vect_mult_avx512(a, b, len) ==
  sum_uint8_avx512(RegSum(RegsOf(len), LAMBDA i :
    gf256_mult_vectorized_avx512(BlockAvx512(a, i, len), BlockAvx512(b, i, len))))

gf256_vect_mult_multiple_public_avx512(a, bs, len) ==
  [e \in DOMAIN bs |-> IF NBlocks(len) > Panel THEN gf256_vect_mult_avx512(a, bs[e], len)
                       ELSE sum_uint8_avx512(AgainstMultiples(a, bs[e], len, BlockAvx512, gf256_mac_block_avx512))]

gf256_mat_mult_avx512(A, X, Y, n, mtype) ==
  IF mtype = TRI_SUP THEN GF256_MAT_MULT(A, X, Y, n, 1, mtype, gf256_vect_mult_avx512)
  ELSE Panels(A, Y, n, NBlocks(n), LAMBDA q : BlockAvx512(X, Reg * q, n),
              gf256_mat_mult_panel_avx512, mtype = TRI_INF)

(***************************************************************************)
(* GF(2) and GF(256).                                                      *)
(***************************************************************************)
gf2_gf256_constant_vect_mult_avx512(a_gf2, b_gf256, c_gf256, n) ==
  gf2_gf256_constant_vect_mult_ref(a_gf2, b_gf256, c_gf256, n)

gf256_gf2_constant_vect_mult_avx512(a_gf256, b_gf2, c_gf256, n) ==
  LET len(i) == Min({n - i, Reg})
  IN  StoreAll(c_gf256, RegsOf(n), LAMBDA i : store_incomplete_m512(len(i)),
               LAMBDA i, k : RegMult(mask64_from_m128(b_gf2, i, len(i)), Splat(a_gf256))[k])

\* A byte whose bit is not set is not loaded.
gf2_gf256_vect_mult_avx512(a_gf2, b_gf256, n) ==
  LET len(i) == Min({n - i, Reg})
      mask(i) == mask64_from_m128(a_gf2, i, len(i))
  IN  sum_uint8_avx512(RegSum(RegsOf(n), LAMBDA i : [k \in Bytes |->
        IF k < len(i) THEN Product(mask(i)[k], Cell(b_gf256, i + k)) ELSE Masked(mask(i)[k], FALSE)]))

gf256_gf2_vect_mult_avx512(a_gf256, b_gf2, n) == gf2_gf256_vect_mult_avx512(b_gf2, a_gf256, n)

gf2_gf256_mat_mult_avx512(A, X, Y, n, mtype) ==
  GF2_GF256_MAT_MULT(A, X, Y, n, 1, mtype, gf2_gf256_vect_mult_avx512)

gf256_gf2_mat_mult_avx512(A, X, Y, n, mtype) ==
  GF256_GF2_MAT_MULT(A, X, Y, n, 1, mtype, gf256_gf2_vect_mult_avx512)

gf256_mat_transpose_avx512(A, B, n, mtype) == gf256_mat_transpose_ref(A, B, n, mtype)

(***************************************************************************)
(* GF(16) and GF(256).                                                     *)
(***************************************************************************)
gf16_gf256_constant_vect_mult_avx512(a_gf16, b_gf256, c_gf256, n) ==
  LET a_gf256 == gf256_vect_lift_from_gf16_ref([k \in {0} |-> a_gf16], [k \in {0} |-> Zero], 1)
  IN  gf256_constant_vect_mult_avx512(Byte(a_gf256, 0), b_gf256, c_gf256, n)

gf256_expand_nibbles_avx512(a, off, len) == [k \in Bytes |-> Lift(Expanded(a, off, len, 2)[k])]

NibblesAvx512(a, i, n) ==
  gf256_expand_nibbles_avx512(a, i \div 2, IF n - i < Reg THEN (n - i + 1) \div 2 ELSE Reg \div 2)

\* Without the elements from the n-th on, that a last byte may hold.
KeptNibblesAvx512(a, i, n) ==
  IF n - i < Reg THEN gf_keep_prefix_avx512(NibblesAvx512(a, i, n), n - i) ELSE NibblesAvx512(a, i, n)

gf256_vect_lift_from_gf16_avx512(b_gf16, c_gf256, len) ==
  StoreAll(c_gf256, RegsOf(len), LAMBDA i : StoredAvx512(i, len),
           LAMBDA i, k : NibblesAvx512(b_gf16, i, len)[k])

gf256_gf16_constant_vect_mult_avx512(a_gf256, b_gf16, c_gf256, n) ==
  StoreAll(c_gf256, RegsOf(n), LAMBDA i : StoredAvx512(i, n),
           LAMBDA i, k : Product(a_gf256[1], NibblesAvx512(b_gf16, i, n)[k]))

gf16_gf256_vect_mult_avx512(a_gf16, b_gf256, len) ==
  sum_uint8_avx512(RegSum(RegsOf(len), LAMBDA i :
    gf256_mult_vectorized_avx512(KeptNibblesAvx512(a_gf16, i, len), BlockAvx512(b_gf256, i, len))))

gf256_gf16_vect_mult_avx512(a_gf256, b_gf16, n) == gf16_gf256_vect_mult_avx512(b_gf16, a_gf256, n)

gf256_gf16_mat_mult_avx512(A, X, Y, n, mtype) ==
  Panels(A, Y, n, NBlocks(n), LAMBDA q : KeptNibblesAvx512(X, Reg * q, n),
         gf256_mat_mult_panel_avx512, mtype = TRI_INF)

(***************************************************************************)
(* GF(256^2).                                                              *)
(***************************************************************************)
gf256to2_mult_vectorized_avx512(a, b) ==
  LET ab == gf256_mult_vectorized_avx512(a, b)
      crossed(v, k) == Added(v[k], v[IF k % 2 = 0 THEN k + 1 ELSE k - 1])
  IN  [k \in Bytes |-> Added(DupLow(ab)[k],
         IF k % 2 = 0 THEN Product(DupHigh(ab)[k], Const32)
         ELSE Product(crossed(a, k), crossed(b, k)))]

gf256to2_mult_by_t_avx512(b) ==
  [k \in Bytes |-> IF k % 2 = 0 THEN Product(DupHigh(b)[k], Const32) ELSE Added(b[k - 1], b[k])]

gf256to2_mac_block_avx512(acc, a, mul) ==
  RegAdd(acc, RegAdd(RegMult(DupLow(a), mul), RegMult(DupHigh(a), gf256to2_mult_by_t_avx512(mul))))

gf256to2_mat_mult_panel_avx512(A, Y, n, p, np, mul, tri_inf) ==
  AddPanel(A, Y, n, 2, p, np, mul, gf256to2_mac_block_avx512, gf_panel_tail_avx512, sum_uint16_avx512, tri_inf)

gf256_mat_mult_panel_gf256to2_avx512(A, Y, n, p, np, mul, tri_inf) ==
  AddPanel(A, Y, n, 2, p, np, mul, gf256_mac_block_avx512, gf_panel_tail_avx512, sum_uint16_avx512, tri_inf)

gf256to2_constant_vect_mult_avx512(b, a, c, len) ==
  StoreAll(c, RegsOf(2 * len), LAMBDA i : StoredAvx512(i, 2 * len),
           LAMBDA i, k : gf256to2_mac_block_avx512(ZeroReg, BlockAvx512(a, i, 2 * len), Splat(b))[k])

gf256to2_vect_mult_avx512(a, b, len) ==
  sum_uint16_avx512(RegSum(RegsOf(2 * len), LAMBDA i :
    gf256to2_mult_vectorized_avx512(BlockAvx512(a, i, 2 * len), BlockAvx512(b, i, 2 * len))))

gf256to2_vect_mult_multiple_public_avx512(a, bs, len) ==
  [e \in DOMAIN bs |-> IF NBlocks(2 * len) > Panel THEN gf256to2_vect_mult_avx512(a, bs[e], len)
                       ELSE sum_uint16_avx512(AgainstMultiples(a, bs[e], 2 * len, BlockAvx512, gf256to2_mac_block_avx512))]

gf256to2_mat_mult_avx512(A, X, Y, n, mtype) ==
  IF mtype = TRI_SUP THEN GF256_MAT_MULT(A, X, Y, n, 2, mtype, gf256to2_vect_mult_avx512)
  ELSE Panels(A, Y, n, NBlocks(2 * n), LAMBDA q : BlockAvx512(X, Reg * q, 2 * n),
              gf256to2_mat_mult_panel_avx512, mtype = TRI_INF)

(***************************************************************************)
(* GF(2) and GF(256^2): half a register of pairs a round.                  *)
(***************************************************************************)
gf2_gf256to2_constant_vect_mult_avx512(a_gf2, b_gf256to2, c_gf256to2, n) ==
  gf2_gf256to2_constant_vect_mult_ref(a_gf2, b_gf256to2, c_gf256to2, n)

gf256to2_gf2_constant_vect_mult_avx512(a_gf256to2, b_gf2, c_gf256to2, n) ==
  LET len(i) == Min({n - (i \div 2), Half})
      mask(i) == DupBytes(mask64_from_m128(b_gf2, i \div 2, len(i)))
  IN  StoreAll(c_gf256to2, Offsets(0, 2 * n, Reg), LAMBDA i : store_incomplete_m512(2 * len(i)),
               LAMBDA i, k : RegMult(mask(i), Splat(a_gf256to2))[k])

gf256_gf256to2_constant_vect_mult_avx512(a_gf256, b_gf256to2, c_gf256to2, n) ==
  gf256_gf256to2_constant_vect_mult_ref(a_gf256, b_gf256to2, c_gf256to2, n)

gf256to2_gf256_constant_vect_mult_avx512(a_gf256to2, c, b_off, len) ==
  ExpandInPlace(a_gf256to2, c, b_off, len, load_incomplete_m512)

gf2_gf256to2_vect_mult_avx512(a_gf2, b_gf256to2, n) ==
  LET len(i) == Min({n - i, Half})
      mask(i) == DupBytes(mask64_from_m128(a_gf2, i, len(i)))
  IN  sum_uint16_avx512(RegSum(Offsets(0, n, Half), LAMBDA i : [k \in Bytes |->
        IF k < 2 * len(i) THEN Product(mask(i)[k], Cell(b_gf256to2, (2 * i) + k))
        ELSE Masked(mask(i)[k], FALSE)]))

gf256to2_gf2_vect_mult_avx512(a_gf256to2, b_gf2, n) == gf2_gf256to2_vect_mult_avx512(b_gf2, a_gf256to2, n)

gf2_gf256to2_mat_mult_avx512(A, X, Y, n, mtype) ==
  GF2_GF256_MAT_MULT(A, X, Y, n, 2, mtype, gf2_gf256to2_vect_mult_avx512)

gf256to2_gf2_mat_mult_avx512(A, X, Y, n, mtype) ==
  GF256_GF2_MAT_MULT(A, X, Y, n, 2, mtype, gf256to2_gf2_vect_mult_avx512)

gf256to2_mat_transpose_avx512(A, B, n, mtype) == gf256to2_mat_transpose_ref(A, B, n, mtype)

(***************************************************************************)
(* GF(16) and GF(256^2).                                                   *)
(***************************************************************************)
gf16_gf256to2_constant_vect_mult_avx512(a_gf16, b_gf256to2, c_gf256to2, n) ==
  LET a_gf256 == gf256_vect_lift_from_gf16_ref([k \in {0} |-> a_gf16], [k \in {0} |-> Zero], 1)
  IN  gf256_gf256to2_constant_vect_mult_avx512(Cell(a_gf256, 0), b_gf256to2, c_gf256to2, n)

gf256to2_gf16_constant_vect_mult_avx512(a_gf256to2, b_gf16, c_gf256to2, n) ==
  LET lifted == gf256_vect_lift_from_gf16_avx512(b_gf16, From(c_gf256to2, n), n)
  IN  gf256to2_gf256_constant_vect_mult_avx512(
        a_gf256to2, LiftedInTheUpperHalf(c_gf256to2, n, lifted), n, n)

gf16_gf256to2_vect_mult_avx512(a_gf16, b_gf256to2, len) ==
  LET left(i) == (2 * len) - i
      nibbles(i) == gf256_expand_nibbles_avx512(a_gf16, i \div 4,
                      IF left(i) < Reg THEN (left(i) + 3) \div 4 ELSE Reg \div 4)
      lifted(i) == IF left(i) < Reg THEN gf_keep_prefix_avx512(nibbles(i), (left(i) + 1) \div 2)
                   ELSE nibbles(i)
  IN  sum_uint16_avx512(RegSum(RegsOf(2 * len), LAMBDA i :
        gf256_mult_vectorized_avx512(DupBytes(lifted(i)), BlockAvx512(b_gf256to2, i, 2 * len))))

gf256to2_gf16_vect_mult_avx512(a_gf256to2, b_gf16, n) == gf16_gf256to2_vect_mult_avx512(b_gf16, a_gf256to2, n)

gf256to2_gf16_mat_mult_avx512(A, X, Y, n, mtype) ==
  LET nelts(q) == Min({((2 * n) - (Reg * q)) \div 2, Half})
      nibbles(q) == gf256_expand_nibbles_avx512(X, (Reg * q) \div 4, (nelts(q) + 1) \div 2)
      xb(q) == DupBytes(IF nelts(q) < Half THEN gf_keep_prefix_avx512(nibbles(q), nelts(q)) ELSE nibbles(q))
  IN  Panels(A, Y, n, NBlocks(2 * n), xb, gf256_mat_mult_panel_gf256to2_avx512, mtype = TRI_INF)
=============================================================================
