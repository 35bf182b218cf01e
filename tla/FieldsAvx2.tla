------------------------------ MODULE FieldsAvx2 ------------------------------
(***************************************************************************)
(* The AVX2 build of the field code (fields_avx2.h): registers of Reg      *)
(* bytes, an incomplete one at the end of a vector, and panels of Panel    *)
(* registers of a vector whose multiples are kept.                         *)
(*                                                                         *)
(* In a matrix the bytes after the last one of a row are those of the next *)
(* row, and after the last row they are not the caller's.                  *)
(***************************************************************************)
EXTENDS FieldsRef

(***************************************************************************)
(* Incomplete loads and stores. lane_mask_m256 selects whole lanes.        *)
(***************************************************************************)
lane_mask_m256(len) == [k \in Bytes |-> k \div Dword < Min({len \div Dword, Reg \div Dword})]

load_incomplete_m256_aligned32(a, off, len) ==
  [k \in Bytes |-> IF lane_mask_m256(len)[k] THEN Cell(a, off + k) ELSE Zero]

load_incomplete_m256_unaligned32(a, off, len) ==
  LET whole == Dword * (len \div Dword)
      leftover(k) == IF k % Dword < len % Dword THEN Cell(a, off + whole + (k % Dword)) ELSE Zero
  IN  [k \in Bytes |-> IF k \div Dword = len \div Dword THEN leftover(k)
                       ELSE load_incomplete_m256_aligned32(a, off, whole)[k]]

load_incomplete_m256(a, off, len) ==
  IF len % Dword = 0 THEN load_incomplete_m256_aligned32(a, off, len)
  ELSE load_incomplete_m256_unaligned32(a, off, len)

\* The number of bytes store_incomplete_m256 writes, whichever way it does.
store_incomplete_m256(len) ==
  IF len % Dword = 0 THEN Cardinality({k \in Bytes : lane_mask_m256(len)[k]}) ELSE len

\* The register at i of a vector of len bytes.
BlockAvx2(a, i, len) ==
  IF len - i < Reg THEN load_incomplete_m256(a, i, len - i) ELSE LoadReg(a, i)

StoredAvx2(i, len) == IF len - i < Reg THEN store_incomplete_m256(len - i) ELSE Reg

gf_prefix_mask_avx2(a, len) == PrefixOf(a, len)

(***************************************************************************)
(* The bits of a register added up, its bytes and its pairs.               *)
(***************************************************************************)
parity_avx2(accu) == Parity(accu)
sum_uint8_avx2(accu) == Folded(accu, 1)
sum_uint16_avx2(accu) == Folded(accu, 2)

(***************************************************************************)
(* Packed operands: a byte of them, loaded from byte off, is spread over   *)
(* per elements, those of a load of len bytes.                             *)
(***************************************************************************)
gf256_expand_nibbles_avx2(a, off, len) == [k \in Bytes |-> Lift(Expanded(a, off, len, 2)[k])]

\* The bits of the register at i of a vector of len bytes, u bytes per element.
BitsAvx2(a, i, len, u) ==
  LET per == u * Bits
      bytes == IF len - i < Reg THEN CeilBytes(len - i, per) ELSE Reg \div per
      bits == Expanded(a, i \div per, bytes, Bits)
  IN  IF u = 1 THEN bits ELSE DupBytes(bits)

(***************************************************************************)
(* GF(2).                                                                  *)
(***************************************************************************)
gf2_constant_vect_mult_avx2(b, a, c, len) == gf2_constant_vect_mult_ref(b, a, c, len)

gf2_vect_mult_avx2(a, b, len_bits) ==
  LET len == len_bits \div Bits
      inBlock(i, k) == k < Bits * Min({len - i, Reg})
  IN  parity_avx2(BitsSum(RegsOf(len), LAMBDA i, k :
        IF inBlock(i, k) THEN Product(Cell(a, (Bits * i) + k), Cell(b, (Bits * i) + k)) ELSE Zero))

gf2_mat_mult_avx2(A, X, Y, n, mtype) == GF2_MAT_MULT(A, X, Y, n, mtype, gf2_vect_mult_avx2)

gf2_mat_transpose_avx2(A, B, n, mtype) == gf2_mat_transpose_ref(A, B, n, mtype)

(***************************************************************************)
(* GF(256).                                                                *)
(***************************************************************************)
gf256_mult_vectorized_avx2(a, b) == RegMult(a, b)

gf256_constant_vect_mult_avx2(b, a, c, len) ==
  StoreAll(c, RegsOf(len), LAMBDA i : StoredAvx2(i, len),
           LAMBDA i, k : gf256_mult_vectorized_avx2(BlockAvx2(a, i, len), Splat(b))[k])

gf256_vect_mult_avx2(a, b, len) ==
  sum_uint8_avx2(RegSum(RegsOf(len), LAMBDA i :
    gf256_mult_vectorized_avx2(BlockAvx2(a, i, len), BlockAvx2(b, i, len))))

\* The multiples of a register, and a product with them. For a register of
\* pairs they are those of v and of v times X.
gf256_mac_block_avx2(acc, a, mul) == RegAdd(acc, RegMult(a, mul))

gf256to2_mult_by_t_avx2(b) ==
  [k \in Bytes |-> IF k % 2 = 0 THEN Product(DupHigh(b)[k], Const32)
                   ELSE Added(b[k - 1], b[k])]

gf256to2_mac_block_avx2(acc, a, mul) ==
  RegAdd(acc, RegAdd(RegMult(DupLow(a), mul), RegMult(DupHigh(a), gf256to2_mult_by_t_avx2(mul))))

gf256_vect_mult_multiple_public_avx2(a, bs, len) ==
  [e \in DOMAIN bs |-> IF NBlocks(len) > Panel THEN gf256_vect_mult_avx2(a, bs[e], len)
                       ELSE sum_uint8_avx2(AgainstMultiples(a, bs[e], len, BlockAvx2, gf256_mac_block_avx2))]

gf_panel_tail_avx2(A, off, tail, size) == WholeThenMasked(A, off, tail, size, load_incomplete_m256)

gf256_mat_mult_panel_avx2(A, Y, n, p, np, mul, tri_inf) ==
  AddPanel(A, Y, n, 1, p, np, mul, gf256_mac_block_avx2, gf_panel_tail_avx2, sum_uint8_avx2, tri_inf)

gf256to2_mat_mult_panel_avx2(A, Y, n, p, np, mul, tri_inf) ==
  AddPanel(A, Y, n, 2, p, np, mul, gf256to2_mac_block_avx2, gf_panel_tail_avx2, sum_uint16_avx2, tri_inf)

gf256_mat_mult_panel_gf256to2_avx2(A, Y, n, p, np, mul, tri_inf) ==
  AddPanel(A, Y, n, 2, p, np, mul, gf256_mac_block_avx2, gf_panel_tail_avx2, sum_uint16_avx2, tri_inf)

gf256_mat_mult_avx2(A, X, Y, n, mtype) ==
  IF mtype = TRI_SUP THEN GF256_MAT_MULT(A, X, Y, n, 1, mtype, gf256_vect_mult_avx2)
  ELSE Panels(A, Y, n, NBlocks(n), LAMBDA q : BlockAvx2(X, Reg * q, n),
                  gf256_mat_mult_panel_avx2, mtype = TRI_INF)

(***************************************************************************)
(* GF(2) and GF(256). The matrices are taken whole: their zeros do not     *)
(* count.                                                                  *)
(***************************************************************************)
gf2_gf256_vect_mult_avx2(a_gf2, b_gf256, len) ==
  sum_uint8_avx2(RegSum(RegsOf(len), LAMBDA i :
    RegMult(BitsAvx2(a_gf2, i, len, 1), BlockAvx2(b_gf256, i, len))))

gf2_gf256_constant_vect_mult_avx2(a_gf2, b_gf256, c_gf256, n) ==
  gf2_gf256_constant_vect_mult_ref(a_gf2, b_gf256, c_gf256, n)

gf256_gf2_constant_vect_mult_avx2(a_gf256, b_gf2, c_gf256, len) ==
  StoreAll(c_gf256, RegsOf(len), LAMBDA i : StoredAvx2(i, len),
           LAMBDA i, k : RegMult(Splat(a_gf256), BitsAvx2(b_gf2, i, len, 1))[k])

gf256_gf2_vect_mult_avx2(a_gf256, b_gf2, n) == gf2_gf256_vect_mult_avx2(b_gf2, a_gf256, n)

gf2_gf256_mat_mult_avx2(A, X, Y, n, mtype) ==
  GF2_GF256_MAT_MULT(A, X, Y, n, 1, REG, gf2_gf256_vect_mult_avx2)

gf256_gf2_mat_mult_avx2(A, X, Y, n, mtype) ==
  GF256_GF2_MAT_MULT(A, X, Y, n, 1, REG, gf256_gf2_vect_mult_avx2)

gf256_mat_transpose_avx2(A, B, n, mtype) == gf256_mat_transpose_ref(A, B, n, mtype)

(***************************************************************************)
(* GF(16) and GF(256).                                                     *)
(***************************************************************************)
gf16_gf256_constant_vect_mult_avx2(a_gf16, b_gf256, c_gf256, n) ==
  LET a_gf256 == gf256_vect_lift_from_gf16_ref([k \in {0} |-> a_gf16], [k \in {0} |-> Zero], 1)
  IN  gf256_constant_vect_mult_avx2(Byte(a_gf256, 0), b_gf256, c_gf256, n)

\* The elements of the register at i of n.
NibblesAvx2(a, i, n) ==
  gf256_expand_nibbles_avx2(a, i \div 2, IF n - i < Reg THEN (n - i + 1) \div 2 ELSE Reg \div 2)

gf256_vect_lift_from_gf16_avx2(b_gf16, c_gf256, len) ==
  StoreAll(c_gf256, RegsOf(len), LAMBDA i : StoredAvx2(i, len),
           LAMBDA i, k : NibblesAvx2(b_gf16, i, len)[k])

\* The table that is looked up is the one of the lift, times a.
gf256_gf16_constant_vect_mult_avx2(a_gf256, b_gf16, c_gf256, n) ==
  StoreAll(c_gf256, RegsOf(n), LAMBDA i : StoredAvx2(i, n),
           LAMBDA i, k : Product(a_gf256[1], NibblesAvx2(b_gf16, i, n)[k]))

gf16_gf256_vect_mult_avx2(a_gf16, b_gf256, len) ==
  LET lifted(i) == IF len - i < Reg THEN gf_prefix_mask_avx2(NibblesAvx2(a_gf16, i, len), len - i)
                   ELSE NibblesAvx2(a_gf16, i, len)
  IN  sum_uint8_avx2(RegSum(RegsOf(len), LAMBDA i :
    gf256_mult_vectorized_avx2(lifted(i), BlockAvx2(b_gf256, i, len))))

gf256_gf16_vect_mult_avx2(a_gf256, b_gf16, n) == gf16_gf256_vect_mult_avx2(b_gf16, a_gf256, n)

gf256_gf16_mat_mult_avx2(A, X, Y, n, mtype) ==
  LET xb(q) == IF (Reg * q) + Reg <= n THEN NibblesAvx2(X, Reg * q, n)
               ELSE gf_prefix_mask_avx2(NibblesAvx2(X, Reg * q, n), n - (Reg * q))
  IN  Panels(A, Y, n, NBlocks(n), xb, gf256_mat_mult_panel_avx2, mtype = TRI_INF)

(***************************************************************************)
(* GF(256^2).                                                              *)
(***************************************************************************)
gf256to2_mult_vectorized_avx2(a, b) ==
  LET ab == gf256_mult_vectorized_avx2(a, b)
      crossed(v, k) == Added(v[k], v[IF k % 2 = 0 THEN k + 1 ELSE k - 1])
  IN  [k \in Bytes |-> Added(DupLow(ab)[k],
         IF k % 2 = 0 THEN Product(DupHigh(ab)[k], Const32)
         ELSE Product(crossed(a, k), crossed(b, k)))]

gf256to2_constant_vect_mult_avx2(b, a, c, len) ==
  StoreAll(c, RegsOf(2 * len), LAMBDA i : StoredAvx2(i, 2 * len),
           LAMBDA i, k : gf256to2_mac_block_avx2(ZeroReg, BlockAvx2(a, i, 2 * len), Splat(b))[k])

gf256to2_vect_mult_avx2(a, b, len) ==
  sum_uint16_avx2(RegSum(RegsOf(2 * len), LAMBDA i :
    gf256to2_mult_vectorized_avx2(BlockAvx2(a, i, 2 * len), BlockAvx2(b, i, 2 * len))))

gf256to2_vect_mult_multiple_public_avx2(a, bs, len) ==
  [e \in DOMAIN bs |-> IF NBlocks(2 * len) > Panel THEN gf256to2_vect_mult_avx2(a, bs[e], len)
                       ELSE sum_uint16_avx2(AgainstMultiples(a, bs[e], 2 * len, BlockAvx2, gf256to2_mac_block_avx2))]

gf256to2_mat_mult_avx2(A, X, Y, n, mtype) ==
  IF mtype = TRI_SUP THEN GF256_MAT_MULT(A, X, Y, n, 2, mtype, gf256to2_vect_mult_avx2)
  ELSE Panels(A, Y, n, NBlocks(2 * n), LAMBDA q : BlockAvx2(X, Reg * q, 2 * n),
                  gf256to2_mat_mult_panel_avx2, mtype = TRI_INF)

(***************************************************************************)
(* GF(2) and GF(256^2).                                                    *)
(***************************************************************************)
gf2_gf256to2_constant_vect_mult_avx2(a_gf2, b_gf256to2, c_gf256to2, n) ==
  gf2_gf256to2_constant_vect_mult_ref(a_gf2, b_gf256to2, c_gf256to2, n)

gf256to2_gf2_constant_vect_mult_avx2(a_gf256to2, b_gf2, c_gf256to2, len) ==
  StoreAll(c_gf256to2, RegsOf(2 * len), LAMBDA i : StoredAvx2(i, 2 * len),
           LAMBDA i, k : RegMult(Splat(a_gf256to2), BitsAvx2(b_gf2, i, 2 * len, 2))[k])

gf256_gf256to2_constant_vect_mult_avx2(a_gf256, b_gf256to2, c_gf256to2, n) ==
  gf256_gf256to2_constant_vect_mult_ref(a_gf256, b_gf256to2, c_gf256to2, n)

gf256to2_gf256_constant_vect_mult_avx2(a_gf256to2, c, b_off, len) ==
  ExpandInPlace(a_gf256to2, c, b_off, len, load_incomplete_m256)

gf2_gf256to2_vect_mult_avx2(a_gf2, b_gf256to2, len) ==
  sum_uint16_avx2(RegSum(RegsOf(2 * len), LAMBDA i :
    RegMult(BitsAvx2(a_gf2, i, 2 * len, 2), BlockAvx2(b_gf256to2, i, 2 * len))))

gf256to2_gf2_vect_mult_avx2(a_gf256to2, b_gf2, n) == gf2_gf256to2_vect_mult_avx2(b_gf2, a_gf256to2, n)

gf2_gf256to2_mat_mult_avx2(A, X, Y, n, mtype) ==
  GF2_GF256_MAT_MULT(A, X, Y, n, 2, mtype, gf2_gf256to2_vect_mult_avx2)

gf256to2_gf2_mat_mult_avx2(A, X, Y, n, mtype) ==
  GF256_GF2_MAT_MULT(A, X, Y, n, 2, mtype, gf256to2_gf2_vect_mult_avx2)

gf256to2_mat_transpose_avx2(A, B, n, mtype) == gf256to2_mat_transpose_ref(A, B, n, mtype)

(***************************************************************************)
(* GF(16) and GF(256^2).                                                   *)
(***************************************************************************)
gf16_gf256to2_constant_vect_mult_avx2(a_gf16, b_gf256to2, c_gf256to2, n) ==
  LET a_gf256 == gf256_vect_lift_from_gf16_ref([k \in {0} |-> a_gf16], [k \in {0} |-> Zero], 1)
  IN  gf256_gf256to2_constant_vect_mult_avx2(Cell(a_gf256, 0), b_gf256to2, c_gf256to2, n)

gf256to2_gf16_constant_vect_mult_avx2(a_gf256to2, b_gf16, c_gf256to2, n) ==
  LET lifted == gf256_vect_lift_from_gf16_avx2(b_gf16, From(c_gf256to2, n), n)
  IN  gf256to2_gf256_constant_vect_mult_avx2(
        a_gf256to2, LiftedInTheUpperHalf(c_gf256to2, n, lifted), n, n)

gf16_gf256to2_vect_mult_avx2(a_gf16, b_gf256to2, len) ==
  LET left(i) == (2 * len) - i
      bytes(i) == IF left(i) < Reg THEN (left(i) + 3) \div 4 ELSE Reg \div 4
      nibbles(i) == gf256_expand_nibbles_avx2(a_gf16, i \div 4, bytes(i))
      lifted(i) == IF left(i) < Reg THEN gf_prefix_mask_avx2(nibbles(i), (left(i) + 1) \div 2)
                   ELSE nibbles(i)
  IN  sum_uint16_avx2(RegSum(RegsOf(2 * len), LAMBDA i :
        gf256_mult_vectorized_avx2(DupBytes(lifted(i)), BlockAvx2(b_gf256to2, i, 2 * len))))

gf256to2_gf16_vect_mult_avx2(a_gf256to2, b_gf16, n) == gf16_gf256to2_vect_mult_avx2(b_gf16, a_gf256to2, n)

gf256to2_gf16_mat_mult_avx2(A, X, Y, n, mtype) ==
  LET nelts(q) == Min({((2 * n) - (Reg * q)) \div 2, Half})
      nibbles(q) == gf256_expand_nibbles_avx2(X, (Reg * q) \div 4, (nelts(q) + 1) \div 2)
      xb(q) == DupBytes(IF nelts(q) < Half THEN gf_prefix_mask_avx2(nibbles(q), nelts(q)) ELSE nibbles(q))
  IN  Panels(A, Y, n, NBlocks(2 * n), xb, gf256_mat_mult_panel_gf256to2_avx2, mtype = TRI_INF)
=============================================================================
