------------------------------- MODULE MCKernels ------------------------------
(***************************************************************************)
(* The loops under the protocol: key generation from equations in blocks   *)
(* of 3 bytes, batches of two calls of SeedExpand, one call of a function  *)
(* on vectors or matrices of field elements, and one call of a block       *)
(* cipher with its key schedule. One of the four runs, the others stay     *)
(* off.                                                                    *)
(*                                                                         *)
(* Thirteen equations are a batch of eight, one of four and one of one.    *)
(* Five rows of up to five elements of two bytes start and end at every    *)
(* offset of a block, within one, across one and across several. Vectors   *)
(* of up to twelve elements fill up to six registers of four bytes: three  *)
(* panels of two, two tiles of eight, and every length of what is left.    *)
(* A bit-sliced circuit is evaluated on symbols, thus for all elements;    *)
(* where the code branches on a constant or selects masks by it, for every *)
(* constant of GF(256). Ciphers encrypt up to eight blocks under as many   *)
(* keys; buffers end after every group of blocks, and one block before.    *)
(***************************************************************************)
EXTENDS KeyGen, SeedExpandBatch, FieldCalls, Rijndael

CONSTANT MaxElements   \* elements of the longest vector

Builds ==
  [streamed : {TRUE}, width : {1}, aliasing : BOOLEAN] \cup
  [streamed : {FALSE}, width : {1, 4, 8}, aliasing : BOOLEAN]

\* The executions of the lanes; IndexIdentifier keeps 64 of them apart.
MCEs == <<0, 1, 2, 3, 60, 61, 62, 63>>

Job(fn, nb_contexts, ot, prg_size, cached, cut) ==
  [fn |-> fn, nb_contexts |-> nb_contexts, es |-> MCEs, ot |-> ot, prg_size |-> prg_size,
   n |-> IF ot THEN prg_size + BlockSize ELSE prg_size,
   cached |-> cached, cut |-> cut, calls |-> 2]

\* Lines from 4 to 16 blocks give every case of the switch of SeedExpand, with
\* and without a block that is cut.
Jobs ==
  {Job(SeedExpand(w), 1, ot, n, c, 0) : w \in {4, 8}, ot \in BOOLEAN, n \in 12 .. 48, c \in BOOLEAN}
  \cup {Job(SeedExpand_one_ctx, 1, ot, n, c, 0) : ot \in BOOLEAN, n \in 5 .. 7, c \in BOOLEAN}
  \cup {Job(fn, k, ot, n, c, 0) : fn \in {SeedExpand_x2, SeedExpand_x4, SeedExpand_x8},
           k \in {1, 2, 4, 8}, ot \in BOOLEAN, n \in 6 .. 7, c \in BOOLEAN}
  \cup {Job(SeedExpand_x8_ecb, 1, ot, n, c, 0) : ot \in BOOLEAN, n \in 6 .. 7, c \in BOOLEAN}
  \cup {Job(SeedExpand_memopt, 1, ot, n, c, cut) :
           ot \in BOOLEAN, n \in 10 .. 11, c \in BOOLEAN, cut \in 1 .. 9}

MatrixCalls ==
  {"field_ext_mat_mult", "field_ext_base_mat_mult", "base_ext_mat_mult", "mat_transpose", "gf2_mat_mult"}
ExtensionCalls ==
  {"field_ext_constant_vect_mult", "field_ext_vect_mult", "field_ext_vect_mult_multiple_public",
   "field_ext_mat_mult", "mat_transpose"}
BaseCalls == {"gf2_vect_mult", "gf2_mat_mult"}
MixedCalls ==
  {"field_base_ext_constant_vect_mult", "field_ext_base_constant_vect_mult",
   "field_base_ext_vect_mult", "field_ext_base_vect_mult", "field_ext_base_mat_mult"}

\* Rows of bits are whole bytes. "base" counts when an operand is in the base
\* field, "mtype" for matrices.
IsCall(f) ==
  /\ f.op \notin MatrixCalls => f.mtype = REG
  /\ f.op \in ExtensionCalls \cup {"vect_lift"} => f.base = "gf16"
  /\ f.op \in BaseCalls \cup {"base_ext_mat_mult"} => f.base = "gf2"
  /\ f.op \in BaseCalls => f.ext = "gf256"
  /\ f.base = "gf2" /\ f.op \in MatrixCalls \cup BaseCalls => f.n % Bits = 0

FieldsCalled ==
  {f \in [impl : {"ref", "avx2", "avx512", "neon"}, base : {"gf2", "gf16"}, ext : {"gf256", "gf256to2"},
          op : ExtensionCalls \cup BaseCalls \cup MixedCalls \cup {"base_ext_mat_mult", "vect_lift"},
          n : 1 .. MaxElements, mtype : {REG, TRI_SUP, TRI_INF}] : IsCall(f)}

\* The constants of GF(256), all of them, and of GF(256^2), those whose halves
\* have no bit, one bit or all bits.
HalfConstants == {0, 255} \cup {2^k : k \in 0 .. 7}
ConstantsOf(ext) ==
  IF ext = "gf256" THEN 0 .. 255 ELSE {(256 * h) + l : h \in HalfConstants, l \in HalfConstants}

WordCalls(ext) ==
  LET call(impls, base, op, n) ==
        [impl : impls, base : {base}, ext : {ext}, op : {op}, n : n, mtype : {REG}]
      plain == {"default", "composite"}
  IN  UNION {call(plain, "gf2", op, {0}) : op \in {"bitslice32_pack", "bitslice32_add", "bitslice32_mult"}}
      \cup UNION {call(plain, base, "bitslice32_pack_base", {0}) : base \in {"gf2", "gf16"}}
      \cup call(plain, "gf2", "bitslice32_mult_hybrid_base", 0 .. 1)
      \cup call(plain, "gf16", "bitslice32_mult_hybrid_base", 0 .. 15)
      \cup call(plain, "gf2", "bitslice32_mult_hybrid", ConstantsOf(ext))
      \cup call(plain \cup {"default_jump", "composite_jump"}, "gf2", "bitslice32_mult_hybrid_public",
                ConstantsOf(ext))

\* Vectors in strings, on machines of both endiannesses; bits and halves of
\* bytes are serialized as whole bytes.
HandlingCalls ==
  {f \in [impl : {"little", "big"}, base : {"gf2", "gf16"}, ext : {"gf256", "gf256to2"},
          op : {"base_parse", "base_serialize", "ext_parse", "ext_serialize", "vect_add"},
          n : 1 .. MaxElements, mtype : {REG}] :
     f.op = "base_serialize" => f.n % Packing(f) = 0}

\* The other products of GF(256).
ScalarCalls ==
  [impl : {"ref"}, base : {"gf2"}, ext : {"gf256"},
   op : {"mult_log_exp", "lane_mult_neon", "lane_const_mult_neon"}, n : {0}, mtype : {REG}]

AllCalls ==
  FieldsCalled \cup WordCalls("gf256") \cup WordCalls("gf256to2") \cup HandlingCalls \cup ScalarCalls

\* Which registers and instructions a VAES build has.
VaesBuilds ==
  {{}, {"vaes256"}, {"vaes256", "chains"}, {"vaes256", "gfni"}, {"vaes256", "vaes512"},
   {"vaes256", "vaes512", "vbmi"}, {"vaes256", "vaes512", "vbmi", "gfni"}}

CipherCalls ==
  LET call(impls, flags, op, n) == [impl : impls, alg : Algs, op : {op}, flags : flags, n : n]
      calls(impls, flags) ==
        call(impls, flags, "enc", {1})
        \cup UNION {call(impls, flags, op, {2, 4, 8}) : op \in {"enc_xN", "enc_xN_xN"}}
        \cup call(impls, flags, "enc_ecb", (1 .. 8) \cup {15, 16, 23, 31})
  IN  calls({"ref", "aes_ni"}, {{}}) \cup calls({"vaes"}, VaesBuilds)

KeyGenOff == KeyGenInit({CHOOSE b \in Builds : TRUE}, "off")
SeedExpandOff == SeedExpandInit({CHOOSE j \in Jobs : TRUE}, "off")
FieldsOff == FieldCallsInit({CHOOSE f \in FieldsCalled : TRUE}, "off")
RijndaelOff == RijndaelInit({CHOOSE c \in CipherCalls : TRUE}, "off")

Init == \/ KeyGenInit(Builds, "sample") /\ SeedExpandOff /\ FieldsOff /\ RijndaelOff
        \/ SeedExpandInit(Jobs, "call") /\ KeyGenOff /\ FieldsOff /\ RijndaelOff
        \/ FieldCallsInit(AllCalls, "call") /\ KeyGenOff /\ SeedExpandOff /\ RijndaelOff
        \/ RijndaelInit(CipherCalls, "setkey") /\ KeyGenOff /\ SeedExpandOff /\ FieldsOff

Next == \/ KeyGenNext /\ UNCHANGED <<se_vars, fc_vars, rj_vars>>
        \/ SeedExpandNext /\ UNCHANGED <<kg_vars, fc_vars, rj_vars>>
        \/ FieldCallsNext /\ UNCHANGED <<kg_vars, se_vars, rj_vars>>
        \/ RijndaelNext /\ UNCHANGED <<kg_vars, se_vars, fc_vars>>

Spec == Init /\ [][Next]_<<kg_vars, se_vars, fc_vars, rj_vars>>

=============================================================================
