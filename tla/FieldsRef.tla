------------------------------- MODULE FieldsRef -------------------------------
(***************************************************************************)
(* The C build of the field code (fields_ref.h): words of Reg elements and *)
(* a scalar tail, and tiles of Tile elements in products with a matrix.    *)
(***************************************************************************)
EXTENDS FieldLanes

\* 4 * (len / 4)
Full(len) == Reg * (len \div Reg)

\* Loop over the words, then over what is left, with u bytes per element.
WordsThenTail(c, full, len, u, word(_, _), scalar(_)) ==
  StoreAll(StoreAll(c, Offsets(0, u * full, u * Reg), LAMBDA i : u * Reg, word),
           Offsets(u * full, u * len, u), LAMBDA i : u, LAMBDA i, k : scalar(i \div u)[k + 1])

\* The sum over the words from first on, folded, and over what is left.
Dot(full, len, product(_)) ==
  LET u == Len(product(0))
      folded(c) == SumOf({i \in 0 .. full - 1 : i % Reg = 0} \X (0 .. Reg - 1),
                         LAMBDA p : product(p[1] + p[2])[c])
      tail(c) == SumOf(full .. len - 1, LAMBDA i : product(i)[c])
  IN  [c \in 1 .. u |-> Added(folded(c), tail(c))]

\* A sum of the scalar loops, which have no words.
ScalarDot(len, product(_)) == Dot(0, len, product)

(***************************************************************************)
(* GF(2).                                                                  *)
(***************************************************************************)
gf2_constant_vect_mult_ref(b, a, c, len) ==
  StoreAll(c, Offsets(0, Bits * (len \div Bits), Bits), LAMBDA i : Bits,
           LAMBDA i, k : Product(b, Cell(a, i + k)))

\* Bytes are added up, then their bits.
gf2_vect_mult_ref(a, b, len) ==
  <<SumTo(Bits, LAMBDA k : SumTo(len \div Bits, LAMBDA i :
      Product(Cell(a, (Bits * i) + k), Cell(b, (Bits * i) + k))))>>

gf2_mat_mult_ref(A, X, Y, n, mtype) == GF2_MAT_MULT(A, X, Y, n, mtype, gf2_vect_mult_ref)

gf2_mat_transpose_ref(A, B, n, mtype) == GF256_MAT_TRANSPOSE(A, B, n, 1, mtype)

(***************************************************************************)
(* GF(256).                                                                *)
(***************************************************************************)
\* Byte k of the product of a word of a and b, both bytes of one lane.
gf256_mult4_ref(a, b, i, k) == Product(Cell(a, i + k), b)

gf256_constant_vect_mult_ref(b, a, c, len) ==
  WordsThenTail(c, Full(len), len, 1, LAMBDA i, k : gf256_mult4_ref(a, b[1], i, k),
                LAMBDA i : <<Product(Cell(a, i), b[1])>>)

gf256_vect_mult_ref(a, b, len) ==
  Dot(Full(len), len, LAMBDA i : <<Product(Cell(a, i), Cell(b, i))>>)

(***************************************************************************)
(* The tiles: the multiples of a vector are kept for Tile of its elements  *)
(* at a time, and indexed from the first block of the tile.                *)
(***************************************************************************)
TileHigh(t, last) == IF t + Tile > last THEN last ELSE t + Tile

\* pows[.][b] of the tile at t is block b of it, one of Tile \div Reg: which
\* element its lane k stands for.
Ladder(t, b, k) == IF b \in 0 .. (Tile \div Reg) - 1 THEN t + (Reg * b) + k ELSE -1

gf256_vect_mult_multiple_public_tiles(a, b, len, elem(_, _), mult(_, _)) ==
  LET full == Full(len)
      tiled(t, c) ==
        SumOf((0 .. ((TileHigh(t, full) - t) \div Reg) - 1) \X (0 .. Reg - 1),
              LAMBDA p : mult(elem(a, Ladder(t, p[1], p[2])),
                              elem(b, t + (Reg * p[1]) + p[2]))[c])
      tail(c) == SumOf(full .. len - 1, LAMBDA i : mult(elem(a, i), elem(b, i))[c])
      u == Len(elem(a, 0))
  IN  [c \in 1 .. u |-> Added(SumOf(Range(Offsets(0, full, Tile)), LAMBDA t : tiled(t, c)),
                                tail(c))]

Times(x, y) == IF Len(x) = 1 THEN <<Product(x[1], y[1])>> ELSE gf256to2_mult_ref(x, y)

gf256_vect_mult_multiple_public_ref(a, bs, len) ==
  [e \in DOMAIN bs |-> gf256_vect_mult_multiple_public_tiles(a, bs[e], len, Byte, Times)]

gf_mat_row_lo(i, n, mtype) == IF mtype = TRI_SUP THEN i ELSE 0
gf_mat_row_hi(i, n, mtype) == IF mtype = TRI_INF THEN i + 1 ELSE n

\* What the tile at t adds to row i: a scalar head, whole blocks, a scalar tail.
\* A block is multiplied by the multiples at its place in the tile.
TileRow(A, X, i, t, n, mtype, elem(_, _)) ==
  LET tile_hi == TileHigh(t, n)
      lo == Max({gf_mat_row_lo(i, n, mtype), t})
      hi == Min({gf_mat_row_hi(i, n, mtype), tile_hi})
      blk_lo == Reg * ((lo + Reg - 1) \div Reg)
      blk_hi == Reg * (hi \div Reg)
      scalar(first, last, c) ==
        SumOf(first .. last - 1, LAMBDA k : Times(elem(A, (n * i) + k), elem(X, k))[c])
      blocks(c) ==
        SumOf((((blk_lo - t) \div Reg) .. ((blk_hi - t) \div Reg) - 1) \X (0 .. Reg - 1),
              LAMBDA p : Times(elem(A, (n * i) + blk_lo
                                         + (Reg * (p[1] - ((blk_lo - t) \div Reg))) + p[2]),
                               elem(X, Ladder(t, p[1], p[2])))[c])
  IN  [c \in 1 .. Len(elem(X, 0)) |->
         CASE lo >= hi -> Zero
           [] lo < hi /\ blk_lo >= blk_hi -> scalar(lo, hi, c)
           [] lo < hi /\ blk_lo < blk_hi ->
                Added(Added(scalar(lo, blk_lo, c), blocks(c)), scalar(blk_hi, hi, c))]

TiledMatMult(A, X, Y, n, u, mtype, elem(_, _)) ==
  Rows(Y, n, u, LAMBDA i : [c \in 1 .. u |->
    SumOf(Range(Offsets(0, n, Tile)), LAMBDA t : TileRow(A, X, i, t, n, mtype, elem)[c])])

gf256_mat_mult_ref(A, X, Y, n, mtype) == TiledMatMult(A, X, Y, n, 1, mtype, Byte)

(***************************************************************************)
(* GF(2) and GF(256).                                                      *)
(***************************************************************************)
gf2_gf256_constant_vect_mult_ref(a_gf2, b_gf256, c_gf256, n) ==
  StoreAll(c_gf256, Offsets(0, n, 1), LAMBDA i : 1, LAMBDA i, k : Product(a_gf2, Cell(b_gf256, i)))

gf256_gf2_constant_vect_mult_ref(a_gf256, b_gf2, c_gf256, n) ==
  StoreAll(c_gf256, Offsets(0, n, 1), LAMBDA i : 1, LAMBDA i, k : Product(a_gf256[1], Cell(b_gf2, i)))

gf2_gf256_vect_mult_ref(a_gf2, b_gf256, n) ==
  ScalarDot(n, LAMBDA i : Scaled(Cell(a_gf2, i), Byte(b_gf256, i)))

gf256_gf2_vect_mult_ref(a_gf256, b_gf2, n) == gf2_gf256_vect_mult_ref(b_gf2, a_gf256, n)

gf2_gf256_mat_mult_ref(A, X, Y, n, mtype) ==
  GF2_GF256_MAT_MULT(A, X, Y, n, 1, mtype, gf2_gf256_vect_mult_ref)

gf256_gf2_mat_mult_ref(A, X, Y, n, mtype) ==
  GF256_GF2_MAT_MULT(A, X, Y, n, 1, mtype, gf256_gf2_vect_mult_ref)

gf256_mat_transpose_ref(A, B, n, mtype) == GF256_MAT_TRANSPOSE(A, B, n, 1, mtype)

(***************************************************************************)
(* GF(16) and GF(256).                                                     *)
(***************************************************************************)
gf16_load_lift_x4(a_gf16, i, k) == Lift(Cell(a_gf16, i + k))
gf16_gf256_mult_ref(a_gf16, b_gf256) == Product(Lift(a_gf16), b_gf256)

gf256_vect_lift_from_gf16_ref(a_gf16, b_gf256, n) ==
  WordsThenTail(b_gf256, Full(n), n, 1, LAMBDA i, k : gf16_load_lift_x4(a_gf16, i, k),
                LAMBDA i : <<Lift(Cell(a_gf16, i))>>)

gf16_gf256_constant_vect_mult_ref(a_gf16, b_gf256, c_gf256, n) ==
  WordsThenTail(c_gf256, Full(n), n, 1, LAMBDA i, k : gf256_mult4_ref(b_gf256, Lift(a_gf16), i, k),
                LAMBDA i : <<gf16_gf256_mult_ref(a_gf16, Cell(b_gf256, i))>>)

gf256_gf16_constant_vect_mult_ref(a_gf256, b_gf16, c_gf256, n) ==
  WordsThenTail(c_gf256, Full(n), n, 1,
                LAMBDA i, k : Product(gf16_load_lift_x4(b_gf16, i, k), a_gf256[1]),
                LAMBDA i : <<gf16_gf256_mult_ref(Cell(b_gf16, i), a_gf256[1])>>)

gf16_gf256_vect_mult_ref(a_gf16, b_gf256, n) ==
  Dot(Full(n), n, LAMBDA i : <<gf16_gf256_mult_ref(Cell(a_gf16, i), Cell(b_gf256, i))>>)

gf256_gf16_vect_mult_ref(a_gf256, b_gf16, n) == gf16_gf256_vect_mult_ref(b_gf16, a_gf256, n)

gf256_gf16_mat_mult_ref(A, X, Y, n, mtype) ==
  GF256_GF2_MAT_MULT(A, X, Y, n, 1, mtype, gf256_gf16_vect_mult_ref)

(***************************************************************************)
(* GF(256^2).                                                              *)
(***************************************************************************)
gf256to2_mult4_ref(a, b, i, k) == gf256to2_mult_ref(Pair(a, (i \div 2) + (k \div 2)), b)[(k % 2) + 1]

\* The three sums are recombined once.
gf256to2_recombine_x4(acc00, acc11, accss) ==
  <<Added(acc00, Product(acc11, Const32)), Added(acc00, accss)>>

gf256to2_constant_vect_mult_ref(b, a, c, len) ==
  WordsThenTail(c, Full(len), len, 2, LAMBDA i, k : gf256to2_mult4_ref(a, b, i, k),
                LAMBDA i : gf256to2_mult_ref(Pair(a, i), b))

gf256to2_vect_mult_ref(a, b, len) ==
  LET words(x(_)) == SumTo(Full(len), x)
      low(v, i) == Cell(v, 2 * i)
      high(v, i) == Cell(v, (2 * i) + 1)
      both(v, i) == Added(low(v, i), high(v, i))
  IN  Plus(gf256to2_recombine_x4(words(LAMBDA i : Product(low(a, i), low(b, i))),
                                 words(LAMBDA i : Product(high(a, i), high(b, i))),
                                 words(LAMBDA i : Product(both(a, i), both(b, i)))),
           [c \in 1 .. 2 |-> SumOf(Full(len) .. len - 1,
                                   LAMBDA i : gf256to2_mult_ref(Pair(a, i), Pair(b, i))[c])])

gf256to2_vect_mult_multiple_public_ref(a, bs, len) ==
  [e \in DOMAIN bs |-> gf256_vect_mult_multiple_public_tiles(a, bs[e], len, Pair, Times)]

gf256to2_mat_mult_ref(A, X, Y, n, mtype) == TiledMatMult(A, X, Y, n, 2, mtype, Pair)

(***************************************************************************)
(* GF(2) and GF(256^2).                                                    *)
(***************************************************************************)
gf2_gf256to2_constant_vect_mult_ref(a_gf2, b_gf256to2, c_gf256to2, n) ==
  StoreAll(c_gf256to2, Offsets(0, 2 * n, 2), LAMBDA i : 2,
           LAMBDA i, k : Product(a_gf2, Cell(b_gf256to2, i + k)))

gf256to2_gf2_constant_vect_mult_ref(a_gf256to2, b_gf2, c_gf256to2, n) ==
  StoreAll(c_gf256to2, Offsets(0, 2 * n, 2), LAMBDA i : 2,
           LAMBDA i, k : Product(a_gf256to2[k + 1], Cell(b_gf2, i \div 2)))

gf2_gf256to2_vect_mult_ref(a_gf2, b_gf256to2, n) ==
  ScalarDot(n, LAMBDA i : Scaled(Cell(a_gf2, i), Pair(b_gf256to2, i)))

gf256to2_gf2_vect_mult_ref(a_gf256to2, b_gf2, n) == gf2_gf256to2_vect_mult_ref(b_gf2, a_gf256to2, n)

gf256_gf256to2_constant_vect_mult_ref(a_gf256, b_gf256to2, c_gf256to2, n) ==
  StoreAll(c_gf256to2, Offsets(0, 2 * n, 2), LAMBDA i : 2,
           LAMBDA i, k : Product(a_gf256, Cell(b_gf256to2, i + k)))

gf256to2_gf256_constant_vect_mult_ref(a_gf256to2, b_gf256, c_gf256to2, n) ==
  StoreAll(c_gf256to2, Offsets(0, 2 * n, 2), LAMBDA i : 2,
           LAMBDA i, k : Product(Cell(b_gf256, i \div 2), a_gf256to2[k + 1]))

gf2_gf256to2_mat_mult_ref(A, X, Y, n, mtype) ==
  GF2_GF256_MAT_MULT(A, X, Y, n, 2, mtype, gf2_gf256to2_vect_mult_ref)

gf256to2_gf2_mat_mult_ref(A, X, Y, n, mtype) ==
  GF256_GF2_MAT_MULT(A, X, Y, n, 2, mtype, gf256to2_gf2_vect_mult_ref)

gf256to2_mat_transpose_ref(A, B, n, mtype) == GF256_MAT_TRANSPOSE(A, B, n, 2, mtype)

(***************************************************************************)
(* GF(16) and GF(256^2).                                                   *)
(***************************************************************************)
gf16_gf256to2_mult_ref(a_gf16, b_gf256to2) == Scaled(Lift(a_gf16), b_gf256to2)

gf256to2_vect_lift_from_gf16_ref(a_gf16, b_gf256to2, n) ==
  WordsThenTail(b_gf256to2, Full(n), n, 2,
                LAMBDA i, k : IF k % 2 = 0 THEN gf16_load_lift_x4(a_gf16, i \div 2, k \div 2) ELSE Zero,
                LAMBDA i : <<Lift(Cell(a_gf16, i)), Zero>>)

\* The words hold two elements here.
gf16_gf256to2_constant_vect_mult_ref(a_gf16, b_gf256to2, c_gf256to2, n) ==
  LET full == Half * (n \div Half)
      words == StoreAll(c_gf256to2, Offsets(0, 2 * full, Reg), LAMBDA i : Reg,
                        LAMBDA i, k : Product(Cell(b_gf256to2, i + k), Lift(a_gf16)))
  IN  StoreAll(words, Offsets(2 * full, 2 * n, 2), LAMBDA i : 2,
               LAMBDA i, k : gf16_gf256to2_mult_ref(a_gf16, Pair(b_gf256to2, i \div 2))[k + 1])

gf256to2_gf16_constant_vect_mult_ref(a_gf256to2, b_gf16, c_gf256to2, n) ==
  WordsThenTail(c_gf256to2, Full(n), n, 2,
    LAMBDA i, k : Product(gf16_load_lift_x4(b_gf16, i \div 2, k \div 2), a_gf256to2[(k % 2) + 1]),
    LAMBDA i : gf16_gf256to2_mult_ref(Cell(b_gf16, i), a_gf256to2))

gf16_gf256to2_vect_mult_ref(a_gf16, b_gf256to2, n) ==
  Dot(Full(n), n, LAMBDA i : gf16_gf256to2_mult_ref(Cell(a_gf16, i), Pair(b_gf256to2, i)))

gf256to2_gf16_vect_mult_ref(a_gf256to2, b_gf16, n) == gf16_gf256to2_vect_mult_ref(b_gf16, a_gf256to2, n)

gf256to2_gf16_mat_mult_ref(A, X, Y, n, mtype) ==
  GF256_GF2_MAT_MULT(A, X, Y, n, 2, mtype, gf256to2_gf16_vect_mult_ref)
=============================================================================
