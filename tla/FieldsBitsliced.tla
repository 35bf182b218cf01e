---------------------------- MODULE FieldsBitsliced ----------------------------
(***************************************************************************)
(* The circuits of the bit-sliced field code (fields_bitsliced/*.h), and   *)
(* the scalar functions they stand for. All lanes of a word compute the    *)
(* same, so one is modelled: an array of registers is the sequence of the  *)
(* bits of one element, register k at k + 1, and a bit is a sum of         *)
(* products of the bits of the arguments, for all their values at once.    *)
(*                                                                         *)
(* The composite circuits work in GF(((2^2)^2)^2), in another basis: pack  *)
(* and unpack change the basis. A secret constant x is turned into masks;  *)
(* a public one is branched on when the build defines                      *)
(* FIELDS_BITSLICE_PUBLIC_JUMP.                                            *)
(***************************************************************************)
EXTENDS FieldLanes

One == {{}}

\* The XOR and the AND of two registers.
a ++ b == SymDiff(a, b)
a ** b == Product(a, b)

Cleared(w) == [k \in 1 .. w |-> Zero]

\* The masks of the bits of a constant, and the constant.
BitsOf(x, w) == [k \in 1 .. w |-> IF (x \div 2^(k - 1)) % 2 = 1 THEN One ELSE Zero]
ValueOf(x) == SumSet({2^(k - 1) : k \in {i \in DOMAIN x : x[i] = One}})

Low(x) == SubSeq(x, 1, Len(x) \div 2)
High(x) == SubSeq(x, (Len(x) \div 2) + 1, Len(x))

gf256_bitslice32_add_default(x, y) == [k \in DOMAIN x |-> x[k] ++ y[k]]
gf256_bitslice32_add_composite(x, y) == gf256_bitslice32_add_default(x, y)
gf256to2_bitslice32_add_default(x, y) == [k \in DOMAIN x |-> x[k] ++ y[k]]
gf256to2_bitslice32_add_composite(x, y) == gf256to2_bitslice32_add_default(x, y)

\* The product in a quadratic extension from three products of its base:
\* times is the constant of X^2 = X + constant.
Karatsuba(mult(_, _), x, y, times(_)) ==
  LET add(v, w) == gf256_bitslice32_add_default(v, w)
      low == mult(Low(x), Low(y))
      high == mult(High(x), High(y))
      cross == mult(add(Low(x), High(x)), add(Low(y), High(y)))
  IN  add(low, times(high)) \o add(cross, low)

(***************************************************************************)
(* The scalar functions (fields_ref.h).                                    *)
(***************************************************************************)
gf256_lane_xtime(a) == <<a[8], a[1] ++ a[8], a[2], a[3] ++ a[8], a[4] ++ a[8], a[5], a[6], a[7]>>

\* STEP: a is x times the power of the bit.
gf256_mult_bits(x, y) ==
  FoldLeft(LAMBDA s, bit : [acc |-> [k \in 1 .. 8 |-> s.acc[k] ++ (s.a[k] ** bit)],
                            a |-> gf256_lane_xtime(s.a)],
           [acc |-> Cleared(8), a |-> x], y).acc

\* The masks of the bits of an element of GF(16).
Lift16 == <<BitsOf(1, 8), BitsOf(224, 8), BitsOf(93, 8), BitsOf(176, 8)>>
gf16_lift_bits(x) == [k \in 1 .. 8 |-> SumOf(1 .. 4, LAMBDA i : Lift16[i][k] ** x[i])]

gf256to2_mult_bits(x, y) ==
  Karatsuba(gf256_mult_bits, x, y, LAMBDA a1b1 : gf256_mult_bits(a1b1, BitsOf(32, 8)))

(***************************************************************************)
(* The other multiplications of GF(256): by tables of the powers of 3 and  *)
(* of logarithms (USE_GF256_TABLE_LOG_EXP), and that of the NEON build, a  *)
(* product of polynomials reduced twice.                                   *)
(***************************************************************************)
Tripled(v) == ValueOf(gf256_bitslice32_add_default(BitsOf(v, 8), gf256_lane_xtime(BitsOf(v, 8))))

\* Doubled: the sum of two logarithms needs no reduction modulo 255.
rijndael_exp == FoldLeft(LAMBDA powers, i : Append(powers, Tripled(Last(powers))), <<1>>, Offsets(1, 512, 1))
rijndael_log(exp) == [v \in 0 .. 255 |-> IF v = 0 THEN 0 ELSE CHOOSE i \in 0 .. 254 : exp[i + 1] = v]
zero_mask == [v \in 0 .. 255 |-> v # 0]

gf256_mult_log_exp(x, y, exp, log) ==
  IF zero_mask[x] /\ zero_mask[y] THEN exp[log[x] + log[y] + 1] ELSE 0

\* vmull_p8, of one lane.
CarrylessProduct(a, b) ==
  [k \in 1 .. 16 |-> SumOf({i \in 1 .. 8 : k + 1 - i \in 1 .. 8}, LAMBDA i : a[i] ** b[k + 1 - i])]

\* The high byte comes back times 27; what is above after that has three bits,
\* and its product fits a byte.
gf256_lane_mult_neon(a, b) ==
  LET folded(x) == CarrylessProduct(x, BitsOf(27, 8))
      p == CarrylessProduct(a, b)
      t == gf256_bitslice32_add_default(Low(p) \o Cleared(8), folded(High(p)))
  IN  gf256_bitslice32_add_default(Low(t), Low(folded(High(t))))

\* A byte times the constant b: one table for each half of it.
gf256_lane_const_mult_neon(a, b) ==
  gf256_bitslice32_add_default(gf256_lane_mult_neon(b, Low(a) \o Cleared(4)),
                               gf256_lane_mult_neon(b, Cleared(4) \o High(a)))

(***************************************************************************)
(* Packing: the lane, cleared by pack_pre, takes the bits of x.            *)
(***************************************************************************)
Placed(x, w) == x \o Cleared(w - Len(x))

PackedGF16(x) ==
  <<x[1] ++ x[3], Zero, x[3], x[3], x[3] ++ x[4], x[2] ++ x[4], x[2] ++ x[3], x[2] ++ x[4]>>

gf256_bitslice32_vect_pack_gf2_default(x) == Placed(x, 8)
gf256_bitslice32_vect_pack_gf2_composite(x) == Placed(x, 8)
gf256_bitslice32_vect_pack_gf16_default(x) == Placed(PackedGF16(x), 8)
gf256_bitslice32_vect_pack_gf16_composite(x) == Placed(PackedGF16(x), 8)
gf256_bitslice32_vect_pack_gf256_default(x) == x
gf256_bitslice32_vect_pack_gf256_composite(x) == x
gf256_bitslice32_vect_unpack_gf256_default(x) == x
gf256_bitslice32_vect_unpack_gf256_composite(x) == x

gf256to2_bitslice32_vect_pack_gf2_default(x) == Placed(x, 16)
gf256to2_bitslice32_vect_pack_gf2_composite(x) == Placed(x, 16)
gf256to2_bitslice32_vect_pack_gf16_default(x) == Placed(PackedGF16(x), 16)
gf256to2_bitslice32_vect_pack_gf16_composite(x) == Placed(PackedGF16(x), 16)
gf256to2_bitslice32_vect_pack_gf256to2_default(x) == x
gf256to2_bitslice32_vect_pack_gf256to2_composite(x) == x
gf256to2_bitslice32_vect_unpack_gf256to2_default(x) == x
gf256to2_bitslice32_vect_unpack_gf256to2_composite(x) == x

\* The sums of the listed registers.
Sums(lists, y) == [k \in DOMAIN lists |-> SumOf(lists[k], LAMBDA i : y[i + 1])]

gf256_bitslice32_vect_pack_post_default(y) == y
gf256_bitslice32_vect_unpack_pre_default(y) == y
gf256_bitslice32_vect_pack_post_composite(y) ==
  Sums(<<{0, 1}, {2, 4, 5}, {2, 3, 4, 7}, {3, 5, 6}, {4, 5, 6}, {2, 3},
         {1, 2, 3, 4, 6, 7}, {5, 7}>>, y)
gf256_bitslice32_vect_unpack_pre_composite(y) ==
  Sums(<<{0, 4, 5, 6, 7}, {4, 5, 6, 7}, {1, 2, 5, 7}, {1, 2, 7}, {1, 2, 3, 4, 7},
         {1, 3, 4, 5}, {2, 4, 5, 7}, {1, 3, 4, 5, 7}>>, y)

gf256to2_bitslice32_vect_pack_post_default(y) == y
gf256to2_bitslice32_vect_unpack_pre_default(y) == y
gf256to2_bitslice32_vect_pack_post_composite(y) ==
  gf256_bitslice32_vect_pack_post_composite(Low(y)) \o gf256_bitslice32_vect_pack_post_composite(High(y))
gf256to2_bitslice32_vect_unpack_pre_composite(y) ==
  gf256_bitslice32_vect_unpack_pre_composite(Low(y)) \o gf256_bitslice32_vect_unpack_pre_composite(High(y))

(***************************************************************************)
(* The default circuits: Horner's rule, from bit 7 of x down.              *)
(***************************************************************************)
Steps(x, step(_, _)) == FoldLeft(step, Cleared(8), Reverse(x))

MaskedBy(m, y) == [k \in DOMAIN y |-> m ** y[k]]

\* The registers move up; r7 is carried to t0, t1, t3 and t4.
Shifted(r) == <<r[8], r[1] ++ r[8], r[2], r[3] ++ r[8], r[4] ++ r[8], r[5], r[6], r[7]>>

gf256_bitslice32_mult_default(x, y) ==
  Steps(x, LAMBDA r, m : gf256_bitslice32_add_default(Shifted(r), MaskedBy(m, y)))

gf256_bitslice32_mult_hybrid_default(x, y) ==
  Steps(x, LAMBDA r, m : gf256_bitslice32_add_default(Shifted(r), MaskedBy(m, y)))

gf256_bitslice32_mult_hybrid_public_default_jump(x, y) ==
  Steps(x, LAMBDA r, bit :
    IF bit = One THEN gf256_bitslice32_add_default(Shifted(r), y) ELSE Shifted(r))

gf256_bitslice32_mult_hybrid_public_default(x, y) == gf256_bitslice32_mult_hybrid_default(x, y)
gf256_bitslice32_mult_hybrid_gf2_default(x, y) ==
  gf256_bitslice32_mult_hybrid_default(Placed(x, 8), y)
gf256_bitslice32_mult_hybrid_gf16_default(x, y) ==
  gf256_bitslice32_mult_hybrid_default(gf16_lift_bits(x), y)

gf256to2_bitslice32_mult_default(x, y) ==
  Karatsuba(gf256_bitslice32_mult_default, x, y,
            LAMBDA x1y1 : gf256_bitslice32_mult_hybrid_default(BitsOf(32, 8), x1y1))
gf256to2_bitslice32_mult_hybrid_default(x, y) ==
  Karatsuba(gf256_bitslice32_mult_hybrid_default, x, y,
            LAMBDA x1y1 : gf256_bitslice32_mult_hybrid_default(BitsOf(32, 8), x1y1))
gf256to2_bitslice32_mult_hybrid_public_default_jump(x, y) ==
  Karatsuba(gf256_bitslice32_mult_hybrid_public_default_jump, x, y,
            LAMBDA x1y1 : gf256_bitslice32_mult_hybrid_public_default_jump(BitsOf(32, 8), x1y1))
gf256to2_bitslice32_mult_hybrid_public_default(x, y) ==
  gf256to2_bitslice32_mult_hybrid_default(x, y)
gf256to2_bitslice32_mult_hybrid_gf2_default(x, y) ==
  gf256to2_bitslice32_mult_hybrid_default(Placed(x, 16), y)
gf256to2_bitslice32_mult_hybrid_gf16_default(x, y) ==
  gf256to2_bitslice32_mult_hybrid_default(Placed(gf16_lift_bits(x), 16), y)

(***************************************************************************)
(* The composite circuits.                                                 *)
(***************************************************************************)
GF4_MUL(x, y) ==
  LET x1y1 == x[2] ** y[2]
  IN  <<(x[1] ** y[1]) ++ x1y1, (x[1] ** y[2]) ++ (x[2] ** y[1]) ++ x1y1>>

\* The masks of the two bits of x for registers.
GF4_MUL_HYBRID(x, y) == GF4_MUL(x, y)

\* The product with the constant of GF(16) over GF(4).
ByGenerator(r2) == <<r2[2], r2[1] ++ r2[2]>>

GF16_MUL(x, y) == Karatsuba(GF4_MUL, x, y, ByGenerator)
GF16_MUL_HYBRID(x, y) == Karatsuba(GF4_MUL_HYBRID, x, y, ByGenerator)

\* The product with 8, the constant of GF(256) over GF(16).
GF16_MUL_CST(y) ==
  LET r0 == y[3] ++ y[4]
      r2 == y[2] ++ y[4]
  IN  <<r0, y[4] ++ r0, r2, y[1] ++ y[3] ++ r2>>

\* The product of y with the value x, a circuit for each.
GF16_BRANCH_MUL(x, y) ==
  LET lists == << <<{}, {}, {}, {}>>, <<{0}, {1}, {2}, {3}>>,
                  <<{1}, {0, 1}, {3}, {2, 3}>>, <<{0, 1}, {0}, {2, 3}, {2}>>,
                  <<{3}, {2, 3}, {0, 2}, {1, 3}>>, <<{0, 3}, {1, 2, 3}, {0}, {1}>>,
                  <<{1, 3}, {0, 1, 2, 3}, {0, 2, 3}, {1, 2}>>,
                  <<{0, 1, 3}, {0, 2, 3}, {0, 3}, {1, 2, 3}>>,
                  <<{2, 3}, {2}, {1, 3}, {0, 1, 2, 3}>>, <<{0, 2, 3}, {1, 2}, {1, 2, 3}, {0, 1, 2}>>,
                  <<{1, 2, 3}, {0, 1, 2}, {1}, {0, 1}>>, <<{0, 1, 2, 3}, {0, 2}, {1, 2}, {0, 1, 3}>>,
                  <<{2}, {3}, {0, 1, 2, 3}, {0, 2}>>, <<{0, 2}, {1, 3}, {0, 1, 3}, {0, 2, 3}>>,
                  <<{1, 2}, {0, 1, 3}, {0, 1, 2}, {0, 3}>>, <<{0, 1, 2}, {0, 3}, {0, 1}, {0}>> >>
  IN  Sums(lists[ValueOf(x) + 1], y)

GF256_TO_COMPOSITE_TABLE ==
  <<
    0, 1, 65, 64, 102, 103, 39, 38, 108, 109, 45, 44, 10, 11, 75, 74, 86, 87,
    23, 22, 48, 49, 113, 112, 58, 59, 123, 122, 92, 93, 29, 28, 154, 155,
    219, 218, 252, 253, 189, 188, 246, 247, 183, 182, 144, 145, 209, 208,
    204, 205, 141, 140, 170, 171, 235, 234, 160, 161, 225, 224, 198, 199,
    135, 134, 88, 89, 25, 24, 62, 63, 127, 126, 52, 53, 117, 116, 82, 83, 19,
    18, 14, 15, 79, 78, 104, 105, 41, 40, 98, 99, 35, 34, 4, 5, 69, 68, 194,
    195, 131, 130, 164, 165, 229, 228, 174, 175, 239, 238, 200, 201, 137,
    136, 148, 149, 213, 212, 242, 243, 179, 178, 248, 249, 185, 184, 158,
    159, 223, 222, 196, 197, 133, 132, 162, 163, 227, 226, 168, 169, 233,
    232, 206, 207, 143, 142, 146, 147, 211, 210, 244, 245, 181, 180, 254,
    255, 191, 190, 152, 153, 217, 216, 94, 95, 31, 30, 56, 57, 121, 120, 50,
    51, 115, 114, 84, 85, 21, 20, 8, 9, 73, 72, 110, 111, 47, 46, 100, 101,
    37, 36, 2, 3, 67, 66, 156, 157, 221, 220, 250, 251, 187, 186, 240, 241,
    177, 176, 150, 151, 215, 214, 202, 203, 139, 138, 172, 173, 237, 236,
    166, 167, 231, 230, 192, 193, 129, 128, 6, 7, 71, 70, 96, 97, 33, 32,
    106, 107, 43, 42, 12, 13, 77, 76, 80, 81, 17, 16, 54, 55, 119, 118, 60,
    61, 125, 124, 90, 91, 27, 26
  >>

gf256_bitslice32_mult_composite(x, y) == Karatsuba(GF16_MUL, x, y, GF16_MUL_CST)

\* The masks of the bits of x, in the composite basis.
CompositeMasks == <<1, 65, 102, 108, 86, 154, 88, 196>>
gf256_bitslice32_mult_hybrid_composite(x, y) ==
  Karatsuba(GF16_MUL_HYBRID,
            [k \in 1 .. 8 |-> SumOf(1 .. 8, LAMBDA b : BitsOf(CompositeMasks[b], 8)[k] ** x[b])], y,
            LAMBDA r2 : GF16_MUL_HYBRID(BitsOf(8, 4), r2))

FromTable(x) == BitsOf(GF256_TO_COMPOSITE_TABLE[ValueOf(x) + 1], 8)
gf256_bitslice32_mult_hybrid_public_composite_jump(x, y) ==
  Karatsuba(GF16_BRANCH_MUL, FromTable(x), y, LAMBDA r2 : GF16_BRANCH_MUL(BitsOf(8, 4), r2))
gf256_bitslice32_mult_hybrid_public_composite(x, y) ==
  Karatsuba(GF16_MUL_HYBRID, FromTable(x), y, LAMBDA r2 : GF16_MUL_HYBRID(BitsOf(8, 4), r2))

gf256_bitslice32_mult_hybrid_gf2_composite(x, y) ==
  gf256_bitslice32_mult_hybrid_composite(Placed(x, 8), y)
gf256_bitslice32_mult_hybrid_gf16_composite(x, y) ==
  gf256_bitslice32_mult_hybrid_composite(gf16_lift_bits(x), y)

gf256to2_bitslice32_mult_composite(x, y) ==
  Karatsuba(gf256_bitslice32_mult_composite, x, y,
            LAMBDA x1y1 : gf256_bitslice32_mult_hybrid_composite(BitsOf(32, 8), x1y1))
gf256to2_bitslice32_mult_hybrid_composite(x, y) ==
  Karatsuba(gf256_bitslice32_mult_hybrid_composite, x, y,
            LAMBDA x1y1 : gf256_bitslice32_mult_hybrid_composite(BitsOf(32, 8), x1y1))
gf256to2_bitslice32_mult_hybrid_public_composite_jump(x, y) ==
  Karatsuba(gf256_bitslice32_mult_hybrid_public_composite_jump, x, y,
            LAMBDA x1y1 : gf256_bitslice32_mult_hybrid_public_composite_jump(BitsOf(32, 8), x1y1))
gf256to2_bitslice32_mult_hybrid_public_composite(x, y) ==
  gf256to2_bitslice32_mult_hybrid_composite(x, y)
gf256to2_bitslice32_mult_hybrid_gf2_composite(x, y) ==
  gf256to2_bitslice32_mult_hybrid_composite(Placed(x, 16), y)
gf256to2_bitslice32_mult_hybrid_gf16_composite(x, y) ==
  gf256to2_bitslice32_mult_hybrid_composite(Placed(gf16_lift_bits(x), 16), y)

=============================================================================
