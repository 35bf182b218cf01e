------------------------------ MODULE FieldLanes -------------------------------
(***************************************************************************)
(* What the four builds of the field code (src/fields) have in common:     *)
(* elements, memory, registers, and the macros of fields_common.h.         *)
(*                                                                         *)
(* An element of GF(256) is a sum of products of symbols, a set of sets of *)
(* symbols: addition is the symmetric difference, and an index that is off *)
(* by one, a byte counted twice or a byte that belongs to the next row     *)
(* changes the result. A symbol is <<vector, index, times lifted>>. An     *)
(* element of GF(256^2) is two consecutive bytes; products return a tuple  *)
(* of one or two bytes. Vectors over GF(2) and GF(16) are indexed by       *)
(* element; a byte of them holds Bits, or two, elements.                   *)
(***************************************************************************)
EXTENDS Integers, Sequences, FiniteSetsExt, SequencesExt

CONSTANTS
  Reg,     \* bytes of a register, and elements of a word of the C build
  Dword,   \* bytes of a lane of the masked loads of AVX2
  Bits,    \* bits of a byte
  Panel,   \* GF_MULT_PANEL_BLOCKS, GF_MULT_PANEL_BLOCKS_NEON
  Tile     \* GF256_MAT_MULT_TILE and GF256TO2_MAT_MULT_TILE

ASSUME FieldsAssumption ==
  /\ {Reg, Dword, Bits, Panel, Tile} \subseteq Nat \ {0}
  /\ \E i \in 1 .. Reg : Reg = 2^i
  /\ Reg % (2 * Bits) = 0 /\ Reg % Dword = 0 /\ Tile % Reg = 0

REG == "REG"
TRI_SUP == "TRI_SUP"
TRI_INF == "TRI_INF"

Zero == {}
Symbol(name, i) == {{<<name, i, 0>>}}
Const32 == Symbol("32", 0)
Outside == Symbol("outside", 0)      \* a byte that is not the caller's

\* Outside stays in every sum and product, even one with zero: the access is
\* what counts.
Product(x, y) == {m \cup o : m \in x \ Outside, o \in y \ Outside} \cup ((x \cup y) \cap Outside)

Added(x, y) == SymDiff(x, y) \cup ((x \cup y) \cap Outside)

\* The sum of f over S: the products met an odd number of times.
SumOf(S, f(_)) ==
  LET terms == {<<s, f(s)>> : s \in S}
  IN  {m \in UNION {t[2] : t \in terms} :
         m \in Outside \/ Cardinality({t \in terms : m \in t[2]}) % 2 = 1}

\* The sum over k < n.
SumTo(n, f(_)) == SumOf(0 .. n - 1, f)

\* x & mask: the result is zero, the access was made all the same.
Masked(x, keep) == IF keep THEN x ELSE x \cap Outside

\* gf16_lift_ref, on the symbols: the representative in GF(256).
Lift(x) == {{<<a[1], a[2], a[3] + 1>> : a \in m} : m \in x}

(***************************************************************************)
(* Memory: a function from 0 .. size - 1. A pointer is the rest of it.     *)
(***************************************************************************)
Cell(v, i) == IF i \in DOMAIN v THEN v[i] ELSE Outside
From(v, off) == [k \in 0 .. Cardinality(DOMAIN v) - off - 1 |-> v[off + k]]
Byte(v, i) == <<Cell(v, i)>>
Pair(v, i) == <<Cell(v, 2 * i), Cell(v, 2 * i + 1)>>

\* Bytes off .. off + len - 1 become f(0) .. f(len - 1).
Store(v, off, len, f(_)) ==
  [j \in DOMAIN v |-> IF j - off \in 0 .. len - 1 THEN f(j - off) ELSE v[j]]

\* for (i = first; i < last; i += step)
Offsets(first, last, step) ==
  [k \in 1 .. Max({0, (last - first + step - 1) \div step}) |-> first + step * (k - 1)]

\* A loop that stores len(i) bytes, those of block(i), at every i of offs.
StoreAll(v, offs, len(_), block(_, _)) ==
  FoldLeft(LAMBDA mem, i : Store(mem, i, len(i), LAMBDA k : block(i, k)), v, offs)

(***************************************************************************)
(* fields_handling.h: elements in packed vectors, and vectors in strings.  *)
(* per elements of the base field share a byte. An element of GF(256^2) is *)
(* a word, with the low byte first unless the machine is big endian.       *)
(***************************************************************************)
MachineWord(pair, big) == IF big THEN Reverse(pair) ELSE pair

field_base_vect_pack(elt, packed, index) == Store(packed, index, 1, LAMBDA c : elt)
field_base_vect_unpack(packed, index) == Cell(packed, index)

field_ext_vect_pack(elt, packed, index, big) ==
  Store(packed, Len(elt) * index, Len(elt), LAMBDA c : MachineWord(elt, big)[c + 1])
field_ext_vect_unpack(packed, index, u, big) ==
  IF u = 1 THEN Byte(packed, index) ELSE MachineWord(Pair(packed, index), big)

\* The last byte is taken whole, and what is not of the vector is cleared.
field_base_parse(in_string, num, elements, per) ==
  LET whole == per * (num \div per)
      leftover == num % per
      parsed == Store(elements, 0, whole, LAMBDA k : Cell(in_string, k))
  IN  IF leftover = 0 THEN parsed
      ELSE Store(parsed, whole, per, LAMBDA k : Masked(Cell(in_string, whole + k), k < leftover))

Copied(from, bytes, to) == Store(to, 0, bytes, LAMBDA k : Cell(from, k))

field_ext_parse(in_string, num, elements, u, big) ==
  IF u = 1 \/ ~big THEN Copied(in_string, u * num, elements)
  ELSE FoldLeft(LAMBDA e, i : field_ext_vect_pack(Pair(in_string, i), e, i, big),
                elements, Offsets(0, num, 1))

\* The vector is a number of whole bytes.
field_base_serialize(elements, num, out_string, per) ==
  Copied(elements, per * (num \div per), out_string)

field_ext_serialize(elements, num, out_string, u, big) ==
  IF u = 1 \/ ~big THEN Copied(elements, u * num, out_string)
  ELSE FoldLeft(LAMBDA s, i : field_ext_vect_pack(field_ext_vect_unpack(elements, i, u, big), s, i, FALSE),
                out_string, Offsets(0, num, 1))

(***************************************************************************)
(* Registers: functions from 0 .. Reg - 1.                                 *)
(***************************************************************************)
Bytes == 0 .. Reg - 1
Half == Reg \div 2
ZeroReg == [k \in Bytes |-> Zero]
LoadReg(v, off) == [k \in Bytes |-> Cell(v, off + k)]
Splat(element) == [k \in Bytes |-> element[(k % Len(element)) + 1]]
RegAdd(a, b) == [k \in Bytes |-> Added(a[k], b[k])]
RegMult(a, b) == [k \in Bytes |-> Product(a[k], b[k])]
RegSum(offs, f(_)) == [k \in Bytes |-> SumOf(Range(offs), LAMBDA i : f(i)[k])]

\* The even and the odd bytes of each pair, in both.
DupLow(a) == [k \in Bytes |-> a[2 * (k \div 2)]]
DupHigh(a) == [k \in Bytes |-> a[(2 * (k \div 2)) + 1]]
\* Byte k of a, in pair k.
DupBytes(a) == [k \in Bytes |-> a[k \div 2]]

\* The bits of a register, and their sum.
RegBits == 0 .. (Reg * Bits) - 1
BitsSum(offs, f(_, _)) == [k \in RegBits |-> SumOf(Range(offs), LAMBDA i : f(i, k))]
Parity(accu) == <<SumTo(Reg * Bits, LAMBDA k : accu[k])>>

\* The halves of a register are added, then those of the sum, down to w bytes.
Folded(v, w) ==
  LET half[n \in 1 .. Reg] ==
        IF n = Reg THEN v ELSE [k \in 0 .. n - 1 |-> Added(half[2 * n][k], half[2 * n][k + n])]
  IN  [c \in 1 .. w |-> half[w][c - 1]]

(***************************************************************************)
(* GF(256^2): a product in the representation modulo X^2 + X + 32.         *)
(***************************************************************************)
gf256to2_mult_ref(a, b) ==
  LET a1b1 == Product(a[2], b[2])
      a0b0 == Product(a[1], b[1])
  IN  <<Added(a0b0, Product(a1b1, Const32)),
        Added(a0b0, Product(Added(a[1], a[2]), Added(b[1], b[2])))>>

Scaled(s, a) == [c \in DOMAIN a |-> Product(s, a[c])]
Plus(a, b) == [c \in DOMAIN a |-> Added(a[c], b[c])]

(***************************************************************************)
(* The macros. An element of Y has u bytes; fun(A, X, len) is the product  *)
(* of vectors that the macro is given.                                     *)
(***************************************************************************)
Rows(Y, n, u, row(_)) ==
  FoldLeft(LAMBDA y, i : Store(y, u * i, u, LAMBDA c : row(i)[c + 1]), Y, Offsets(0, n, 1))

\* Element i of Y is the product of the row of the matrix and the part of X in
\* part(i), of the length that it gives.
RowProducts(Y, n, u, part(_), fun(_, _, _)) ==
  Rows(Y, n, u, LAMBDA i : fun(part(i)[1], part(i)[2], part(i)[3]))

\* Row i of a packed matrix: whole bytes of it, and of X.
GF2_MAT_MULT_Row(A, X, i, n, mtype) ==
  LET whole == Bits * (i \div Bits)
  IN  CASE mtype = REG -> <<From(A, n * i), X, n>>
        [] mtype = TRI_SUP -> <<From(A, (n * i) + whole), From(X, whole), n - whole>>
        [] mtype = TRI_INF -> <<From(A, n * i), X, whole + Bits>>

GF2_MAT_MULT(A, X, Y, n, mtype, fun(_, _, _)) ==
  RowProducts(Y, n, 1, LAMBDA i : GF2_MAT_MULT_Row(A, X, i, n, mtype), fun)

GF256_MAT_MULT_Row(A, X, i, n, u, mtype) ==
  CASE mtype = REG -> <<From(A, u * n * i), X, n>>
    [] mtype = TRI_SUP -> <<From(A, u * ((n * i) + i)), From(X, u * i), n - i>>
    [] mtype = TRI_INF -> <<From(A, u * n * i), X, i + 1>>

GF256_MAT_MULT(A, X, Y, n, u, mtype, fun(_, _, _)) ==
  RowProducts(Y, n, u, LAMBDA i : GF256_MAT_MULT_Row(A, X, i, n, u, mtype), fun)

\* The matrix is packed: a row starts on a byte.
GF2_GF256_MAT_MULT_Row(A, X, i, n, mtype) ==
  <<From(A, Bits * ((n * i) \div Bits)), X, IF mtype = TRI_INF THEN i + 1 ELSE n>>

GF2_GF256_MAT_MULT(A, X, Y, n, u, mtype, fun(_, _, _)) ==
  RowProducts(Y, n, u, LAMBDA i : GF2_GF256_MAT_MULT_Row(A, X, i, n, mtype), fun)

GF256_GF2_MAT_MULT_Row(A, X, i, n, u, mtype) ==
  <<From(A, u * n * i), X, IF mtype = TRI_INF THEN i + 1 ELSE n>>

GF256_GF2_MAT_MULT(A, X, Y, n, u, mtype, fun(_, _, _)) ==
  RowProducts(Y, n, u, LAMBDA i : GF256_GF2_MAT_MULT_Row(A, X, i, n, u, mtype), fun)

GF256_MAT_TRANSPOSE(A, B, n, u, mtype) ==
  LET moved(i) == CASE mtype = REG -> 0 .. n - 1
                    [] mtype = TRI_SUP -> i .. n - 1
                    [] mtype = TRI_INF -> 0 .. i
      element(j, i) == IF j \in moved(i) THEN u * ((n * i) + j) ELSE -1
      at(k) == element((k \div u) \div n, (k \div u) % n)
  IN  Store(B, 0, u * n * n,
            LAMBDA k : IF at(k) < 0 THEN Zero ELSE Cell(A, at(k) + (k % u)))

(***************************************************************************)
(* What the SIMD builds share: the registers of a vector of len bytes,     *)
(* packed operands, and panels of Panel registers of a vector.             *)
(***************************************************************************)
RegsOf(len) == Offsets(0, len, Reg)
NBlocks(nbytes) == (nbytes + Reg - 1) \div Reg

CeilBytes(len, per) == IF len % per = 0 THEN len \div per ELSE (len \div per) + 1

\* Byte off of a packed vector and the len - 1 after it, per elements each.
Expanded(a, off, len, per) ==
  [k \in Bytes |-> IF k < per * len THEN Cell(a, (per * off) + k) ELSE Zero]

\* (wrong on purpose) one byte of the next row stays.
PrefixOf_OneMore(a, len) == [k \in Bytes |-> Masked(a[k], k <= len)]
PrefixOf(a, len) == [k \in Bytes |-> Masked(a[k], k < len)]

\* mul[b] of an array that holds the multiples of Panel registers.
Multiples(mul, b) == IF b \in 0 .. Panel - 1 THEN mul[b] ELSE Splat(<<Outside>>)

\* The incomplete block at off of a row of a matrix of size bytes: loaded whole
\* when it lies in the matrix, and what is of the next row masked out.
WholeThenMasked(A, off, tail, size, load(_, _, _)) ==
  IF off + Reg <= size THEN PrefixOf(LoadReg(A, off), tail) ELSE load(A, off, tail)

\* One product of vectors of nbytes bytes, against the multiples of a.
AgainstMultiples(a, b, nbytes, block(_, _, _), mac(_, _, _)) ==
  LET mul == [k \in 0 .. Panel - 1 |-> block(a, Reg * k, nbytes)]
  IN  RegSum(Offsets(0, NBlocks(nbytes), 1), LAMBDA k :
        mac(ZeroReg, block(b, Reg * k, nbytes), Multiples(mul, k)))

\* Row i of a panel of np registers from the p-th on, of a matrix with rows
\* rows and elements of u bytes. mul[b] are the multiples of register p + b of
\* the vector, last(A, off, tail, size) loads the incomplete block.
PanelRow(A, i, rows, u, p, np, mul, mac(_, _, _), last(_, _, _, _), tri_inf) ==
  LET lo == Reg * p
      len == u * (IF tri_inf THEN i + 1 ELSE rows)
      hi == Min({len, lo + (Reg * np)})
      nfull == (hi - lo) \div Reg
      tail == (hi - lo) % Reg
      aoff(b) == (u * rows * i) + lo + (Reg * b)
      whole(b) == mac(ZeroReg, LoadReg(A, aoff(b)), Multiples(mul, b))
      acc == RegSum(Offsets(0, nfull, 1), whole)
  IN  IF tail = 0 THEN acc
      ELSE RegAdd(acc, mac(ZeroReg, last(A, aoff(nfull), tail, u * rows * rows),
                           Multiples(mul, nfull)))

\* The panel adds to Y, or sets it the first time; rows that end before it stay.
AddPanel(A, Y, n, u, p, np, mul, mac(_, _, _), last(_, _, _, _), sum(_), tri_inf) ==
  LET s(i) == sum(PanelRow(A, i, n, u, p, np, mul, mac, last, tri_inf))
      cell(y, j) == IF p = 0 THEN s(j \div u)[(j % u) + 1]
                    ELSE Added(y[j], s(j \div u)[(j % u) + 1])
      reached(j) == u * (IF tri_inf THEN (j \div u) + 1 ELSE n) > Reg * p
  IN  [j \in DOMAIN Y |-> IF j < u * n /\ reached(j) THEN cell(Y, j) ELSE Y[j]]

\* for (p = 0; p < nblocks; p += GF_MULT_PANEL_BLOCKS), xb(q) being register q
\* of the vector.
Panels(A, Y, n, nblocks, xb(_), panel(_, _, _, _, _, _, _), tri_inf) ==
  FoldLeft(LAMBDA y, p : panel(A, y, n, p, Min({nblocks - p, Panel}),
                               [b \in 0 .. Panel - 1 |-> xb(p + b)], tri_inf),
           Y, Offsets(0, nblocks, Panel))

\* Byte k of the vector at b_off, half a register a round, times the pair a; b
\* may lie in the second half of c: a round has loaded before it stores, and
\* stores below what the next one loads.
ExpandInPlace(a, c, b_off, len, load(_, _, _)) ==
  LET to_load(i) == Min({len - i, Half})
      b(mem, i) == load(mem, b_off + i, to_load(i))
  IN  FoldLeft(LAMBDA mem, i :
                 Store(mem, 2 * i, 2 * to_load(i),
                       LAMBDA k : RegMult(DupBytes(b(mem, i)), Splat(a))[k]),
               c, Offsets(0, len, Half))

\* The lifted elements go to the second half of the output first.
LiftedInTheUpperHalf(c, n, lifted) ==
  [j \in DOMAIN c |-> IF j < n THEN c[j] ELSE lifted[j - n]]
=============================================================================
