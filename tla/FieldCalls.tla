------------------------------ MODULE FieldCalls ------------------------------
(***************************************************************************)
(* The field API (fields.h): a call goes to the function its prefixes and  *)
(* suffix name, GF(2) or GF(16) for the base field, GF(256) or GF(256^2)   *)
(* for the extension, and a build. Symbols stand for the elements of the   *)
(* arguments; the output buffer is followed by bytes of someone else.      *)
(***************************************************************************)
EXTENDS FieldsAvx2, FieldsAvx512, FieldsNeon, FieldsBitsliced

VARIABLES
  fc_call,   \* [impl, base, ext, op : STRING, n : Nat, mtype]; n is the length,
             \* or the constant of a bit-sliced product
  fc_pc,     \* "call", "done" or "off"
  fc_out     \* the output buffer, or the element returned

fc_vars == <<fc_call, fc_pc, fc_out>>

(***************************************************************************)
(* The arguments of a call f.                                              *)
(***************************************************************************)
Width(f) == IF f.ext = "gf256" THEN 1 ELSE 2
Packing(f) == IF f.base = "gf2" THEN Bits ELSE 2
PackedSize(f) == Packing(f) * CeilBytes(f.n, Packing(f))

SymbolsOf(name, size) == [i \in 0 .. size - 1 |-> Symbol(name, i)]
VectorOf(name, n, u) == SymbolsOf(name, u * n)
ConstantOf(name, u) == [c \in 1 .. u |-> Symbol(name, c - 1)]
BufferOf(size) == SymbolsOf("old", size + Reg)
ElementOf(v, i, u) == [c \in 1 .. u |-> v[(u * i) + c - 1]]

\* The columns of row i that count.
ColumnsOf(i, n, mtype) == CASE mtype = REG -> 0 .. n - 1
                            [] mtype = TRI_SUP -> i .. n - 1
                            [] mtype = TRI_INF -> 0 .. i
\* The packed and the mixed products may take the other columns along: they
\* hold zeros, as ExpandEquations leaves them.
MatrixOf(name, n, u, mtype) ==
  [k \in 0 .. (u * n * n) - 1 |->
     IF (k \div u) % n \in ColumnsOf((k \div u) \div n, n, mtype) THEN Symbol(name, k) ELSE Zero]

(***************************************************************************)
(* What the functions promise, element by element.                         *)
(***************************************************************************)
Scalar(f, x) == IF f.base = "gf16" THEN Lift(x) ELSE x

SumOfElements(u, S, element(_)) == [c \in 1 .. u |-> SumOf(S, LAMBDA i : element(i)[c])]

\* A buffer with element(i) for i < n, and what was there after that.
WithElements(u, n, element(_)) ==
  [j \in DOMAIN BufferOf(u * n) |->
     IF j < u * n THEN element(j \div u)[(j % u) + 1] ELSE Symbol("old", j)]

Returned(element) == [c \in 0 .. Len(element) - 1 |-> element[c + 1]]

(***************************************************************************)
(* What a bit-sliced function promises: the scalar one. The constant is n. *)
(***************************************************************************)
BitSymbols(name, w) == [k \in 1 .. w |-> Symbol(name, k - 1)]
BitsOfExt(f) == 8 * Width(f)
BitsOfBase(f) == IF f.base = "gf2" THEN 1 ELSE 4

LiftedBits(f, x) ==
  Placed(IF f.base = "gf2" THEN x ELSE gf16_lift_bits(x), BitsOfExt(f))
MultipliedBits(f, x, y) == IF f.ext = "gf256" THEN gf256_mult_bits(x, y) ELSE gf256to2_mult_bits(x, y)

BytePairs == (0 .. 255) \X (0 .. 255)

SlicedPromised(f) ==
  LET x == BitSymbols("x", BitsOfExt(f))
      y == BitSymbols("y", BitsOfExt(f))
  IN  CASE f.op = "bitslice32_pack" -> x
        [] f.op = "bitslice32_pack_base" -> LiftedBits(f, BitSymbols("x", BitsOfBase(f)))
        [] f.op = "bitslice32_add" -> [k \in DOMAIN x |-> SymDiff(x[k], y[k])]
        [] f.op \in {"bitslice32_mult", "lane_mult_neon", "lane_const_mult_neon"} -> MultipliedBits(f, x, y)
        [] f.op = "mult_log_exp" ->
             [p \in BytePairs |-> ValueOf(gf256_mult_bits(BitsOf(p[1], 8), BitsOf(p[2], 8)))]
        [] f.op \in {"bitslice32_mult_hybrid", "bitslice32_mult_hybrid_public"} ->
             MultipliedBits(f, BitsOf(f.n, BitsOfExt(f)), y)
        [] f.op = "bitslice32_mult_hybrid_base" ->
             MultipliedBits(f, LiftedBits(f, BitsOf(f.n, BitsOfBase(f))), y)

Promised(f) ==
  LET n == f.n
      u == Width(f)
      a == VectorOf("a", n, u)
      b(e) == VectorOf(IF e = 1 THEN "b" ELSE "d", n, u)
      x == SymbolsOf("x", n)
      A == MatrixOf("A", n, u, REG)
      B == MatrixOf("A", n, 1, f.mtype)
      k == ConstantOf("k", u)
      dot(v, w) == SumOfElements(u, 0 .. n - 1,
                                 LAMBDA i : Times(ElementOf(v, i, u), ElementOf(w, i, u)))
      hybrid(w) == SumOfElements(u, 0 .. n - 1,
                                 LAMBDA i : Scaled(Scalar(f, x[i]), ElementOf(w, i, u)))
      cell(i, j) == ElementOf(A, (n * i) + j, u)
      counted(i) == ColumnsOf(i, n, f.mtype)
  IN  CASE f.op = "field_ext_constant_vect_mult" ->
             WithElements(u, n, LAMBDA i : Times(k, ElementOf(a, i, u)))
        [] f.op = "field_ext_vect_mult" -> Returned(dot(a, b(1)))
        [] f.op = "field_ext_vect_mult_multiple_public" -> [e \in 1 .. 2 |-> dot(a, b(e))]
        [] f.op = "field_ext_mat_mult" ->
             WithElements(u, n, LAMBDA i : SumOfElements(u, counted(i),
                                  LAMBDA j : Times(cell(i, j), ElementOf(a, j, u))))
        [] f.op = "field_base_ext_constant_vect_mult" ->
             WithElements(u, n, LAMBDA i : Scaled(Scalar(f, Symbol("k", 0)), ElementOf(a, i, u)))
        [] f.op = "field_ext_base_constant_vect_mult" ->
             WithElements(u, n, LAMBDA i : Scaled(Scalar(f, x[i]), k))
        [] f.op \in {"field_base_ext_vect_mult", "field_ext_base_vect_mult"} -> Returned(hybrid(a))
        [] f.op = "field_ext_base_mat_mult" ->
             WithElements(u, n, LAMBDA i : SumOfElements(u, counted(i),
                                  LAMBDA j : Scaled(Scalar(f, x[j]), cell(i, j))))
        [] f.op = "base_ext_mat_mult" ->
             WithElements(u, n, LAMBDA i : SumOfElements(u, counted(i),
                                  LAMBDA j : Scaled(B[(n * i) + j], ElementOf(a, j, u))))
        [] f.op = "mat_transpose" ->
             WithElements(u, n * n, LAMBDA i : IF i \div n \in counted(i % n) THEN cell(i % n, i \div n)
                                              ELSE [c \in 1 .. u |-> Zero])
        [] f.op = "vect_lift" ->
             WithElements(u, n, LAMBDA i : IF u = 1 THEN <<Lift(x[i])>> ELSE <<Lift(x[i]), Zero>>)
        [] f.op = "gf2_vect_mult" ->
             Returned(SumOfElements(1, 0 .. n - 1, LAMBDA i : <<Product(x[i], Symbol("y", i))>>))
        [] f.op = "gf2_mat_mult" ->
             WithElements(1, n, LAMBDA i : SumOfElements(1, counted(i),
                                  LAMBDA j : <<Product(B[(n * i) + j], x[j])>>))
        [] f.op = "vect_add" ->
             WithElements(u, n, LAMBDA i : Plus(ElementOf(a, i, u), ElementOf(b(1), i, u)))
        [] f.op \in {"ext_parse", "ext_serialize"} -> WithElements(u, n, LAMBDA i : ElementOf(a, i, u))
        [] f.op \in {"base_parse", "base_serialize"} ->
             WithElements(1, PackedSize(f), LAMBDA i : IF i < n THEN <<Symbol("x", i)>> ELSE <<Zero>>)
        [] OTHER -> SlicedPromised(f)

(***************************************************************************)
(* The functions of fields.h.                                              *)
(***************************************************************************)
By(f, ref, avx2, avx512, neon) ==
  CASE f.impl = "ref" -> ref
    [] f.impl = "avx2" -> avx2
    [] f.impl = "avx512" -> avx512
    [] f.impl = "neon" -> neon

field_ext_constant_vect_mult(f, a, b, c, len) ==
  IF f.ext = "gf256"
  THEN By(f, gf256_constant_vect_mult_ref(a, b, c, len),
             gf256_constant_vect_mult_avx2(a, b, c, len),
             gf256_constant_vect_mult_avx512(a, b, c, len),
             gf256_constant_vect_mult_neon(a, b, c, len))
  ELSE By(f, gf256to2_constant_vect_mult_ref(a, b, c, len),
             gf256to2_constant_vect_mult_avx2(a, b, c, len),
             gf256to2_constant_vect_mult_avx512(a, b, c, len),
             gf256to2_constant_vect_mult_neon(a, b, c, len))

field_ext_vect_mult(f, a, b, len) ==
  IF f.ext = "gf256"
  THEN By(f, gf256_vect_mult_ref(a, b, len),
             gf256_vect_mult_avx2(a, b, len),
             gf256_vect_mult_avx512(a, b, len),
             gf256_vect_mult_neon(a, b, len))
  ELSE By(f, gf256to2_vect_mult_ref(a, b, len),
             gf256to2_vect_mult_avx2(a, b, len),
             gf256to2_vect_mult_avx512(a, b, len),
             gf256to2_vect_mult_neon(a, b, len))

field_ext_vect_mult_multiple_public(f, a, bs, len) ==
  IF f.ext = "gf256"
  THEN By(f, gf256_vect_mult_multiple_public_ref(a, bs, len),
             gf256_vect_mult_multiple_public_avx2(a, bs, len),
             gf256_vect_mult_multiple_public_avx512(a, bs, len),
             gf256_vect_mult_multiple_public_neon(a, bs, len))
  ELSE By(f, gf256to2_vect_mult_multiple_public_ref(a, bs, len),
             gf256to2_vect_mult_multiple_public_avx2(a, bs, len),
             gf256to2_vect_mult_multiple_public_avx512(a, bs, len),
             gf256to2_vect_mult_multiple_public_neon(a, bs, len))

field_ext_mat_mult(f, A, X, Y, n, mtype) ==
  IF f.ext = "gf256"
  THEN By(f, gf256_mat_mult_ref(A, X, Y, n, mtype),
             gf256_mat_mult_avx2(A, X, Y, n, mtype),
             gf256_mat_mult_avx512(A, X, Y, n, mtype),
             gf256_mat_mult_neon(A, X, Y, n, mtype))
  ELSE By(f, gf256to2_mat_mult_ref(A, X, Y, n, mtype),
             gf256to2_mat_mult_avx2(A, X, Y, n, mtype),
             gf256to2_mat_mult_avx512(A, X, Y, n, mtype),
             gf256to2_mat_mult_neon(A, X, Y, n, mtype))

field_base_ext_constant_vect_mult(f, a, b, c, len) ==
  CASE f.base = "gf2" /\ f.ext = "gf256" ->
         By(f, gf2_gf256_constant_vect_mult_ref(a, b, c, len),
               gf2_gf256_constant_vect_mult_avx2(a, b, c, len),
               gf2_gf256_constant_vect_mult_avx512(a, b, c, len),
               gf2_gf256_constant_vect_mult_neon(a, b, c, len))
    [] f.base = "gf2" /\ f.ext = "gf256to2" ->
         By(f, gf2_gf256to2_constant_vect_mult_ref(a, b, c, len),
               gf2_gf256to2_constant_vect_mult_avx2(a, b, c, len),
               gf2_gf256to2_constant_vect_mult_avx512(a, b, c, len),
               gf2_gf256to2_constant_vect_mult_neon(a, b, c, len))
    [] f.base = "gf16" /\ f.ext = "gf256" ->
         By(f, gf16_gf256_constant_vect_mult_ref(a, b, c, len),
               gf16_gf256_constant_vect_mult_avx2(a, b, c, len),
               gf16_gf256_constant_vect_mult_avx512(a, b, c, len),
               gf16_gf256_constant_vect_mult_neon(a, b, c, len))
    [] f.base = "gf16" /\ f.ext = "gf256to2" ->
         By(f, gf16_gf256to2_constant_vect_mult_ref(a, b, c, len),
               gf16_gf256to2_constant_vect_mult_avx2(a, b, c, len),
               gf16_gf256to2_constant_vect_mult_avx512(a, b, c, len),
               gf16_gf256to2_constant_vect_mult_neon(a, b, c, len))

field_ext_base_constant_vect_mult(f, a, b, c, len) ==
  CASE f.base = "gf2" /\ f.ext = "gf256" ->
         By(f, gf256_gf2_constant_vect_mult_ref(a, b, c, len),
               gf256_gf2_constant_vect_mult_avx2(a, b, c, len),
               gf256_gf2_constant_vect_mult_avx512(a, b, c, len),
               gf256_gf2_constant_vect_mult_neon(a, b, c, len))
    [] f.base = "gf2" /\ f.ext = "gf256to2" ->
         By(f, gf256to2_gf2_constant_vect_mult_ref(a, b, c, len),
               gf256to2_gf2_constant_vect_mult_avx2(a, b, c, len),
               gf256to2_gf2_constant_vect_mult_avx512(a, b, c, len),
               gf256to2_gf2_constant_vect_mult_neon(a, b, c, len))
    [] f.base = "gf16" /\ f.ext = "gf256" ->
         By(f, gf256_gf16_constant_vect_mult_ref(a, b, c, len),
               gf256_gf16_constant_vect_mult_avx2(a, b, c, len),
               gf256_gf16_constant_vect_mult_avx512(a, b, c, len),
               gf256_gf16_constant_vect_mult_neon(a, b, c, len))
    [] f.base = "gf16" /\ f.ext = "gf256to2" ->
         By(f, gf256to2_gf16_constant_vect_mult_ref(a, b, c, len),
               gf256to2_gf16_constant_vect_mult_avx2(a, b, c, len),
               gf256to2_gf16_constant_vect_mult_avx512(a, b, c, len),
               gf256to2_gf16_constant_vect_mult_neon(a, b, c, len))

field_base_ext_vect_mult(f, a, b, len) ==
  CASE f.base = "gf2" /\ f.ext = "gf256" ->
         By(f, gf2_gf256_vect_mult_ref(a, b, len),
               gf2_gf256_vect_mult_avx2(a, b, len),
               gf2_gf256_vect_mult_avx512(a, b, len),
               gf2_gf256_vect_mult_neon(a, b, len))
    [] f.base = "gf2" /\ f.ext = "gf256to2" ->
         By(f, gf2_gf256to2_vect_mult_ref(a, b, len),
               gf2_gf256to2_vect_mult_avx2(a, b, len),
               gf2_gf256to2_vect_mult_avx512(a, b, len),
               gf2_gf256to2_vect_mult_neon(a, b, len))
    [] f.base = "gf16" /\ f.ext = "gf256" ->
         By(f, gf16_gf256_vect_mult_ref(a, b, len),
               gf16_gf256_vect_mult_avx2(a, b, len),
               gf16_gf256_vect_mult_avx512(a, b, len),
               gf16_gf256_vect_mult_neon(a, b, len))
    [] f.base = "gf16" /\ f.ext = "gf256to2" ->
         By(f, gf16_gf256to2_vect_mult_ref(a, b, len),
               gf16_gf256to2_vect_mult_avx2(a, b, len),
               gf16_gf256to2_vect_mult_avx512(a, b, len),
               gf16_gf256to2_vect_mult_neon(a, b, len))

field_ext_base_vect_mult(f, a, b, len) ==
  CASE f.base = "gf2" /\ f.ext = "gf256" ->
         By(f, gf256_gf2_vect_mult_ref(a, b, len),
               gf256_gf2_vect_mult_avx2(a, b, len),
               gf256_gf2_vect_mult_avx512(a, b, len),
               gf256_gf2_vect_mult_neon(a, b, len))
    [] f.base = "gf2" /\ f.ext = "gf256to2" ->
         By(f, gf256to2_gf2_vect_mult_ref(a, b, len),
               gf256to2_gf2_vect_mult_avx2(a, b, len),
               gf256to2_gf2_vect_mult_avx512(a, b, len),
               gf256to2_gf2_vect_mult_neon(a, b, len))
    [] f.base = "gf16" /\ f.ext = "gf256" ->
         By(f, gf256_gf16_vect_mult_ref(a, b, len),
               gf256_gf16_vect_mult_avx2(a, b, len),
               gf256_gf16_vect_mult_avx512(a, b, len),
               gf256_gf16_vect_mult_neon(a, b, len))
    [] f.base = "gf16" /\ f.ext = "gf256to2" ->
         By(f, gf256to2_gf16_vect_mult_ref(a, b, len),
               gf256to2_gf16_vect_mult_avx2(a, b, len),
               gf256to2_gf16_vect_mult_avx512(a, b, len),
               gf256to2_gf16_vect_mult_neon(a, b, len))

field_ext_base_mat_mult(f, A, X, Y, n, mtype) ==
  CASE f.base = "gf2" /\ f.ext = "gf256" ->
         By(f, gf256_gf2_mat_mult_ref(A, X, Y, n, mtype),
               gf256_gf2_mat_mult_avx2(A, X, Y, n, mtype),
               gf256_gf2_mat_mult_avx512(A, X, Y, n, mtype),
               gf256_gf2_mat_mult_neon(A, X, Y, n, mtype))
    [] f.base = "gf2" /\ f.ext = "gf256to2" ->
         By(f, gf256to2_gf2_mat_mult_ref(A, X, Y, n, mtype),
               gf256to2_gf2_mat_mult_avx2(A, X, Y, n, mtype),
               gf256to2_gf2_mat_mult_avx512(A, X, Y, n, mtype),
               gf256to2_gf2_mat_mult_neon(A, X, Y, n, mtype))
    [] f.base = "gf16" /\ f.ext = "gf256" ->
         By(f, gf256_gf16_mat_mult_ref(A, X, Y, n, mtype),
               gf256_gf16_mat_mult_avx2(A, X, Y, n, mtype),
               gf256_gf16_mat_mult_avx512(A, X, Y, n, mtype),
               gf256_gf16_mat_mult_neon(A, X, Y, n, mtype))
    [] f.base = "gf16" /\ f.ext = "gf256to2" ->
         By(f, gf256to2_gf16_mat_mult_ref(A, X, Y, n, mtype),
               gf256to2_gf16_mat_mult_avx2(A, X, Y, n, mtype),
               gf256to2_gf16_mat_mult_avx512(A, X, Y, n, mtype),
               gf256to2_gf16_mat_mult_neon(A, X, Y, n, mtype))

\* Functions of the builds that fields.h gives no name.
base_ext_mat_mult(f, A, X, Y, n, mtype) ==
  IF f.ext = "gf256"
  THEN By(f, gf2_gf256_mat_mult_ref(A, X, Y, n, mtype),
             gf2_gf256_mat_mult_avx2(A, X, Y, n, mtype),
             gf2_gf256_mat_mult_avx512(A, X, Y, n, mtype),
             gf2_gf256_mat_mult_neon(A, X, Y, n, mtype))
  ELSE By(f, gf2_gf256to2_mat_mult_ref(A, X, Y, n, mtype),
             gf2_gf256to2_mat_mult_avx2(A, X, Y, n, mtype),
             gf2_gf256to2_mat_mult_avx512(A, X, Y, n, mtype),
             gf2_gf256to2_mat_mult_neon(A, X, Y, n, mtype))

mat_transpose(f, A, B, n, mtype) ==
  IF f.ext = "gf256"
  THEN By(f, gf256_mat_transpose_ref(A, B, n, mtype),
             gf256_mat_transpose_avx2(A, B, n, mtype),
             gf256_mat_transpose_avx512(A, B, n, mtype),
             gf256_mat_transpose_neon(A, B, n, mtype))
  ELSE By(f, gf256to2_mat_transpose_ref(A, B, n, mtype),
             gf256to2_mat_transpose_avx2(A, B, n, mtype),
             gf256to2_mat_transpose_avx512(A, B, n, mtype),
             gf256to2_mat_transpose_neon(A, B, n, mtype))

vect_lift_from_gf16(f, a, c, n) ==
  IF f.ext = "gf256"
  THEN By(f, gf256_vect_lift_from_gf16_ref(a, c, n),
             gf256_vect_lift_from_gf16_avx2(a, c, n),
             gf256_vect_lift_from_gf16_avx512(a, c, n),
             gf256_vect_lift_from_gf16_neon(a, c, n))
  ELSE gf256to2_vect_lift_from_gf16_ref(a, c, n)

gf2_vect_mult(f, a, b, len) ==
  By(f, gf2_vect_mult_ref(a, b, len),
        gf2_vect_mult_avx2(a, b, len),
        gf2_vect_mult_avx512(a, b, len),
        gf2_vect_mult_neon(a, b, len))

gf2_mat_mult(f, A, X, Y, n, mtype) ==
  By(f, gf2_mat_mult_ref(A, X, Y, n, mtype),
        gf2_mat_mult_avx2(A, X, Y, n, mtype),
        gf2_mat_mult_avx512(A, X, Y, n, mtype),
        gf2_mat_mult_neon(A, X, Y, n, mtype))

field_ext_vect_add(a, b, c, len) ==
  Store(c, 0, len, LAMBDA k : Added(Cell(a, k), Cell(b, k)))

(***************************************************************************)
(* One word of the bit-sliced code (fields_bitsliced.h): in the default or *)
(* the composite basis, with or without branches on a public constant.     *)
(***************************************************************************)
SlicedBy(f, default1, composite1, default2, composite2) ==
  CASE f.ext = "gf256" /\ f.impl \in {"default", "default_jump"} -> default1
    [] f.ext = "gf256" /\ f.impl \in {"composite", "composite_jump"} -> composite1
    [] f.ext = "gf256to2" /\ f.impl \in {"default", "default_jump"} -> default2
    [] f.ext = "gf256to2" /\ f.impl \in {"composite", "composite_jump"} -> composite2

field_ext_bitslice32_vect_pack_post(f, x) ==
  SlicedBy(f, gf256_bitslice32_vect_pack_post_default(x),
              gf256_bitslice32_vect_pack_post_composite(x),
              gf256to2_bitslice32_vect_pack_post_default(x),
              gf256to2_bitslice32_vect_pack_post_composite(x))
field_ext_bitslice32_vect_unpack_pre(f, x) ==
  SlicedBy(f, gf256_bitslice32_vect_unpack_pre_default(x),
              gf256_bitslice32_vect_unpack_pre_composite(x),
              gf256to2_bitslice32_vect_unpack_pre_default(x),
              gf256to2_bitslice32_vect_unpack_pre_composite(x))

field_ext_bitslice32_vect_pack(f, x) ==
  SlicedBy(f, gf256_bitslice32_vect_pack_gf256_default(x),
              gf256_bitslice32_vect_pack_gf256_composite(x),
              gf256to2_bitslice32_vect_pack_gf256to2_default(x),
              gf256to2_bitslice32_vect_pack_gf256to2_composite(x))
field_ext_bitslice32_vect_unpack(f, x) ==
  SlicedBy(f, gf256_bitslice32_vect_unpack_gf256_default(x),
              gf256_bitslice32_vect_unpack_gf256_composite(x),
              gf256to2_bitslice32_vect_unpack_gf256to2_default(x),
              gf256to2_bitslice32_vect_unpack_gf256to2_composite(x))
field_ext_bitslice32_vect_pack_base(f, x) ==
  IF f.base = "gf2"
  THEN SlicedBy(f, gf256_bitslice32_vect_pack_gf2_default(x),
                   gf256_bitslice32_vect_pack_gf2_composite(x),
                   gf256to2_bitslice32_vect_pack_gf2_default(x),
                   gf256to2_bitslice32_vect_pack_gf2_composite(x))
  ELSE SlicedBy(f, gf256_bitslice32_vect_pack_gf16_default(x),
                   gf256_bitslice32_vect_pack_gf16_composite(x),
                   gf256to2_bitslice32_vect_pack_gf16_default(x),
                   gf256to2_bitslice32_vect_pack_gf16_composite(x))

field_ext_bitslice32_add(f, x, y) ==
  SlicedBy(f, gf256_bitslice32_add_default(x, y), gf256_bitslice32_add_composite(x, y),
              gf256to2_bitslice32_add_default(x, y), gf256to2_bitslice32_add_composite(x, y))
field_ext_bitslice32_mult(f, x, y) ==
  SlicedBy(f, gf256_bitslice32_mult_default(x, y), gf256_bitslice32_mult_composite(x, y),
              gf256to2_bitslice32_mult_default(x, y), gf256to2_bitslice32_mult_composite(x, y))
field_ext_bitslice32_mult_hybrid(f, x, y) ==
  SlicedBy(f, gf256_bitslice32_mult_hybrid_default(x, y),
              gf256_bitslice32_mult_hybrid_composite(x, y),
              gf256to2_bitslice32_mult_hybrid_default(x, y),
              gf256to2_bitslice32_mult_hybrid_composite(x, y))
field_ext_bitslice32_mult_hybrid_base(f, x, y) ==
  IF f.base = "gf2"
  THEN SlicedBy(f, gf256_bitslice32_mult_hybrid_gf2_default(x, y),
                   gf256_bitslice32_mult_hybrid_gf2_composite(x, y),
                   gf256to2_bitslice32_mult_hybrid_gf2_default(x, y),
                   gf256to2_bitslice32_mult_hybrid_gf2_composite(x, y))
  ELSE SlicedBy(f, gf256_bitslice32_mult_hybrid_gf16_default(x, y),
                   gf256_bitslice32_mult_hybrid_gf16_composite(x, y),
                   gf256to2_bitslice32_mult_hybrid_gf16_default(x, y),
                   gf256to2_bitslice32_mult_hybrid_gf16_composite(x, y))
field_ext_bitslice32_mult_hybrid_public(f, x, y) ==
  IF f.impl \in {"default_jump", "composite_jump"}
  THEN SlicedBy(f, gf256_bitslice32_mult_hybrid_public_default_jump(x, y),
                   gf256_bitslice32_mult_hybrid_public_composite_jump(x, y),
                   gf256to2_bitslice32_mult_hybrid_public_default_jump(x, y),
                   gf256to2_bitslice32_mult_hybrid_public_composite_jump(x, y))
  ELSE SlicedBy(f, gf256_bitslice32_mult_hybrid_public_default(x, y),
                   gf256_bitslice32_mult_hybrid_public_composite(x, y),
                   gf256to2_bitslice32_mult_hybrid_public_default(x, y),
                   gf256to2_bitslice32_mult_hybrid_public_composite(x, y))

\* The element packed in a lane, and the element of a lane.
InLane(f, x) == field_ext_bitslice32_vect_pack_post(f, field_ext_bitslice32_vect_pack(f, x))
BaseInLane(f, x) == field_ext_bitslice32_vect_pack_post(f, field_ext_bitslice32_vect_pack_base(f, x))
OfLane32(f, x) == field_ext_bitslice32_vect_unpack(f, field_ext_bitslice32_vect_unpack_pre(f, x))

(***************************************************************************)
(* One call.                                                               *)
(***************************************************************************)
FieldCallsInit(calls, pc) == fc_call \in calls /\ fc_pc = pc /\ fc_out = << >>

Call(op, result) ==
  /\ fc_pc = "call" /\ fc_call.op = op
  /\ fc_out' = result
  /\ fc_pc' = "done"
  /\ UNCHANGED fc_call

\* The arguments of the call.
Mat == MatrixOf("A", fc_call.n, Width(fc_call), REG)
MatWithZeros == MatrixOf("A", fc_call.n, Width(fc_call), fc_call.mtype)
BitMat == MatrixOf("A", fc_call.n, 1, fc_call.mtype)
Vec(name) == VectorOf(name, fc_call.n, Width(fc_call))
BaseVec == SymbolsOf("x", PackedSize(fc_call))
Out(n) == BufferOf(Width(fc_call) * n)
Con == ConstantOf("k", Width(fc_call))

ExtConstantVectMult ==
  Call("field_ext_constant_vect_mult",
       field_ext_constant_vect_mult(fc_call, Con, Vec("a"), Out(fc_call.n), fc_call.n))
ExtVectMult ==
  Call("field_ext_vect_mult",
       Returned(field_ext_vect_mult(fc_call, Vec("a"), Vec("b"), fc_call.n)))
ExtVectMultMultiplePublic ==
  Call("field_ext_vect_mult_multiple_public",
       field_ext_vect_mult_multiple_public(fc_call, Vec("a"), <<Vec("b"), Vec("d")>>, fc_call.n))
ExtMatMult ==
  Call("field_ext_mat_mult",
       field_ext_mat_mult(fc_call, Mat, Vec("a"), Out(fc_call.n), fc_call.n, fc_call.mtype))
BaseExtConstantVectMult ==
  Call("field_base_ext_constant_vect_mult",
       field_base_ext_constant_vect_mult(fc_call, Symbol("k", 0), Vec("a"), Out(fc_call.n), fc_call.n))
ExtBaseConstantVectMult ==
  Call("field_ext_base_constant_vect_mult",
       field_ext_base_constant_vect_mult(fc_call, Con, BaseVec, Out(fc_call.n), fc_call.n))
BaseExtVectMult ==
  Call("field_base_ext_vect_mult",
       Returned(field_base_ext_vect_mult(fc_call, BaseVec, Vec("a"), fc_call.n)))
ExtBaseVectMult ==
  Call("field_ext_base_vect_mult",
       Returned(field_ext_base_vect_mult(fc_call, Vec("a"), BaseVec, fc_call.n)))
ExtBaseMatMult ==
  Call("field_ext_base_mat_mult",
       field_ext_base_mat_mult(fc_call, MatWithZeros, BaseVec, Out(fc_call.n), fc_call.n, fc_call.mtype))
BaseExtMatMult ==
  Call("base_ext_mat_mult",
       base_ext_mat_mult(fc_call, BitMat, Vec("a"), Out(fc_call.n), fc_call.n, fc_call.mtype))
MatTranspose ==
  Call("mat_transpose",
       mat_transpose(fc_call, Mat, Out(fc_call.n * fc_call.n), fc_call.n, fc_call.mtype))
VectLift ==
  Call("vect_lift", vect_lift_from_gf16(fc_call, BaseVec, Out(fc_call.n), fc_call.n))
Gf2VectMult ==
  Call("gf2_vect_mult",
       Returned(gf2_vect_mult(fc_call, SymbolsOf("x", fc_call.n), SymbolsOf("y", fc_call.n), fc_call.n)))
Gf2MatMult ==
  Call("gf2_mat_mult",
       gf2_mat_mult(fc_call, BitMat, SymbolsOf("x", fc_call.n), BufferOf(fc_call.n), fc_call.n, fc_call.mtype))

VectAdd ==
  Call("vect_add",
       field_ext_vect_add(Vec("a"), Vec("b"), Out(fc_call.n), Width(fc_call) * fc_call.n))

\* A vector of the extension field in the memory of the machine, and its
\* elements.
BigEndian == fc_call.impl = "big"
InMemory(v) ==
  FoldLeft(LAMBDA packed, i :
             field_ext_vect_pack(ElementOf(v, i, Width(fc_call)), packed, i, BigEndian),
           v, Offsets(0, Cardinality(DOMAIN v) \div Width(fc_call), 1))
ElementsIn(packed) ==
  [j \in DOMAIN packed |->
     field_ext_vect_unpack(packed, j \div Width(fc_call), Width(fc_call), BigEndian)
       [(j % Width(fc_call)) + 1]]

BaseParse ==
  Call("base_parse",
       field_base_parse(BaseVec, fc_call.n, BufferOf(PackedSize(fc_call)), Packing(fc_call)))
BaseSerialize ==
  Call("base_serialize",
       field_base_serialize(
         FoldLeft(LAMBDA packed, i : field_base_vect_pack(field_base_vect_unpack(BaseVec, i), packed, i),
                  BufferOf(fc_call.n), Offsets(0, fc_call.n, 1)),
         fc_call.n, BufferOf(fc_call.n), Packing(fc_call)))
ExtParse ==
  Call("ext_parse",
       ElementsIn(field_ext_parse(Vec("a"), fc_call.n, InMemory(Out(fc_call.n)), Width(fc_call), BigEndian)))
ExtSerialize ==
  Call("ext_serialize",
       field_ext_serialize(InMemory(Vec("a")), fc_call.n, Out(fc_call.n), Width(fc_call), BigEndian))

\* The bits of the arguments, and the constant.
XBits == BitSymbols("x", BitsOfExt(fc_call))
YBits == BitSymbols("y", BitsOfExt(fc_call))

SlicedPack == Call("bitslice32_pack", OfLane32(fc_call, InLane(fc_call, XBits)))
SlicedPackBase ==
  Call("bitslice32_pack_base",
       OfLane32(fc_call, BaseInLane(fc_call, BitSymbols("x", BitsOfBase(fc_call)))))
SlicedAdd ==
  Call("bitslice32_add",
       OfLane32(fc_call, field_ext_bitslice32_add(fc_call, InLane(fc_call, XBits), InLane(fc_call, YBits))))
SlicedMult ==
  Call("bitslice32_mult",
       OfLane32(fc_call, field_ext_bitslice32_mult(fc_call, InLane(fc_call, XBits), InLane(fc_call, YBits))))
SlicedMultHybrid ==
  Call("bitslice32_mult_hybrid",
       OfLane32(fc_call, field_ext_bitslice32_mult_hybrid(fc_call,
                           BitsOf(fc_call.n, BitsOfExt(fc_call)), InLane(fc_call, YBits))))
SlicedMultHybridBase ==
  Call("bitslice32_mult_hybrid_base",
       OfLane32(fc_call, field_ext_bitslice32_mult_hybrid_base(fc_call,
                           BitsOf(fc_call.n, BitsOfBase(fc_call)), InLane(fc_call, YBits))))
SlicedMultHybridPublic ==
  Call("bitslice32_mult_hybrid_public",
       OfLane32(fc_call, field_ext_bitslice32_mult_hybrid_public(fc_call,
                           BitsOf(fc_call.n, BitsOfExt(fc_call)), InLane(fc_call, YBits))))

\* The product by the tables, of all elements, and that of a lane of NEON.
MultLogExp ==
  /\ fc_call.op = "mult_log_exp"
  /\ \E exp \in {rijndael_exp} : \E log \in {rijndael_log(exp)} :
       Call("mult_log_exp", [p \in BytePairs |-> gf256_mult_log_exp(p[1], p[2], exp, log)])
LaneMultNeon == Call("lane_mult_neon", gf256_lane_mult_neon(XBits, YBits))
LaneConstMultNeon == Call("lane_const_mult_neon", gf256_lane_const_mult_neon(XBits, YBits))

FieldCallsNext ==
  \/ ExtConstantVectMult \/ ExtVectMult \/ ExtVectMultMultiplePublic \/ ExtMatMult
  \/ BaseExtConstantVectMult \/ ExtBaseConstantVectMult \/ BaseExtVectMult \/ ExtBaseVectMult
  \/ ExtBaseMatMult \/ BaseExtMatMult \/ MatTranspose \/ VectLift \/ Gf2VectMult \/ Gf2MatMult
  \/ SlicedPack \/ SlicedPackBase \/ SlicedAdd \/ SlicedMult \/ SlicedMultHybrid
  \/ SlicedMultHybridBase \/ SlicedMultHybridPublic
  \/ VectAdd \/ BaseParse \/ BaseSerialize \/ ExtParse \/ ExtSerialize
  \/ MultLogExp \/ LaneMultNeon \/ LaneConstMultNeon

(***************************************************************************)
(* Every function of every build, for every length, returns or stores the  *)
(* sum of products it stands for and leaves the bytes after its output as  *)
(* they were: no element is missed, taken twice or taken from the next row *)
(* at the end of a register, tile or panel, no byte outside of an argument *)
(* is read or written, and an output that serves as scratch space is read  *)
(* before it is overwritten.                                               *)
(***************************************************************************)
VectorsExact == fc_pc = "done" => fc_out = Promised(fc_call)
=============================================================================
