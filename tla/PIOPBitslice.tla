------------------------------ MODULE PIOPBitslice -----------------------------
(***************************************************************************)
(* The PIOP on bitsliced vectors (piop_bitslice.c, fields_bitsliced.h).    *)
(* Executions are lanes of words: the signer puts x in the lane after the  *)
(* last execution, and when the last word would be nearly empty the        *)
(* leftover executions are computed one by one.                            *)
(*                                                                         *)
(* B is a build: B.word lanes make a word (32 in the code), B.limit is     *)
(* BITSLICE_HYBRID_LEFTOVER_LIMIT, B.composite says that lanes hold the    *)
(* composite representation, for which the model takes the square.         *)
(***************************************************************************)
EXTENDS PIOP

Floor(a, w) == w * (a \div w)
Nb_packs(B, lanes) == (lanes + B.word - 1) \div B.word

\* Change of basis, its own inverse in the model.
ToLane(B, a) == IF B.composite THEN Mult(a, a) ELSE a
OfLane(B, a) == IF B.composite THEN Mult(a, a) ELSE a

(***************************************************************************)
(* A bitsliced vector is an array of words, element k in the words         *)
(* Nb_packs * k and on.                                                    *)
(***************************************************************************)
LanesOf(B) == 0 .. B.word - 1
WordAdd(v, w) == [l \in DOMAIN v |-> Add(v[l], w[l])]
WordMult(v, w) == [l \in DOMAIN v |-> Mult(v[l], w[l])]

\* field_ext_bitslice_vect_pack_pre, _pack of vector vs[e] in lane e, _pack_post.
Pack(B, vs, size, lanes) ==
  LET packs == Nb_packs(B, lanes)
  IN  [k \in 0 .. size * packs - 1 |->
         [l \in LanesOf(B) |->
            LET e == (k % packs) * B.word + l
            IN  IF e < lanes THEN ToLane(B, vs[e][k \div packs]) ELSE 0]]

\* field_ext_bitslice_vect_unpack of lane index, after _unpack_pre.
Unpack(B, words, index, size, lanes) ==
  [k \in 0 .. size - 1 |->
     OfLane(B, words[Nb_packs(B, lanes) * k + (index \div B.word)][index % B.word])]

\* Words are added up lane by lane.
SumWords(B, f, size) == [l \in LanesOf(B) |-> Total([k \in 0 .. size - 1 |-> f[k][l]], size)]

\* field_ext_bitslice_vect_mult_hybrid and _public: a plain vector times a
\* bitsliced one.
VectMultHybrid(B, x, words, size, lanes) ==
  LET packs == Nb_packs(B, lanes)
  IN  [p \in 0 .. packs - 1 |->
         SumWords(B, [k \in 0 .. size - 1 |->
                        [l \in LanesOf(B) |-> Mult(ToLane(B, x[k]), words[packs * k + p][l])]], size)]

\* field_ext_bitslice_vect_mult.
VectMultSliced(B, v, w, size, lanes) ==
  LET packs == Nb_packs(B, lanes)
  IN  [p \in 0 .. packs - 1 |->
         SumWords(B, [k \in 0 .. size - 1 |-> WordMult(v[packs * k + p], w[packs * k + p])], size)]

\* field_ext_bitslice_add and _mult, word by word.
AddSliced(v, w) == [p \in DOMAIN v |-> WordAdd(v[p], w[p])]
MultSliced(v, w) == [p \in DOMAIN v |-> WordMult(v[p], w[p])]

\* field_ext_bitslice_const_vect_mult_hybrid: bitsliced scalars times a vector.
ConstVectMultHybrid(B, sc, x, size, lanes) ==
  LET packs == Nb_packs(B, lanes)
  IN  [k \in 0 .. size * packs - 1 |->
         [l \in LanesOf(B) |-> Mult(ToLane(B, x[k \div packs]), sc[k % packs][l])]]

\* The words of the products of the rows of A with a bitsliced vector.
MatMultSliced(B, A, words, lanes) ==
  LET packs == Nb_packs(B, lanes)
      row == [j \in 0 .. N - 1 |-> VectMultHybrid(B, A[j], words, j + 1, lanes)]
  IN  [k \in 0 .. N * packs - 1 |-> row[k \div packs][k % packs]]

-----------------------------------------------------------------------------
(***************************************************************************)
(* The signer.                                                             *)
(***************************************************************************)
BS_LEFTOVER(B) == (TAU + 1) - Floor(TAU + 1, B.word)
AllLanes(B) == BS_LEFTOVER(B) > B.limit

BITSLICE_LANES(B) == IF AllLanes(B) THEN TAU + 1 ELSE Floor(TAU + 1, B.word)

\* (wrong on purpose) The lane of x is taken for an execution.
NON_BITSLICE_OFFSET_AtLanes(B) == IF AllLanes(B) THEN 0 ELSE BITSLICE_LANES(B)

\* The first execution that is computed one by one.
NON_BITSLICE_OFFSET(B) ==
  IF AllLanes(B) \/ BITSLICE_LANES(B) = 0 THEN 0 ELSE BITSLICE_LANES(B) - 1

NON_BITSLICE_LEFTOVER(B) ==
  IF AllLanes(B) THEN 0 ELSE IF BITSLICE_LANES(B) > 0 THEN BS_LEFTOVER(B) ELSE TAU

\* z0 and z1 of the executions in lanes, for one equation; and t1.
SlicedPz(K, B, i, x0) ==
  LET lanes == BITSLICE_LANES(B)
      x0_bitsliced == Pack(B, [e \in 0 .. lanes - 1 |-> IF e = lanes - 1 THEN K.x ELSE x0[e]],
                           N, lanes)
      t0_bitsliced == MatMultSliced(B, K.A[i], x0_bitsliced, lanes)
      t1 == VectAdd(Unpack(B, t0_bitsliced, lanes - 1, N, lanes), K.b[i])
      z1 == AddSliced(VectMultHybrid(B, K.x, t0_bitsliced, N, lanes),
                      VectMultHybrid(B, t1, x0_bitsliced, N, lanes))
      z0 == VectMultSliced(B, x0_bitsliced, t0_bitsliced, N, lanes)
  IN  [t1 |-> t1,
       z |-> [e \in 0 .. lanes - 2 |-> [z0 |-> Unpack(B, z0, e, 1, lanes)[0],
                                        z1 |-> Unpack(B, z1, e, 1, lanes)[0]]]]

\* Both parts.  What neither writes stays as it was on the stack, 0 here.
ComputePz_xTau_bitslice(K, B, x0) ==
  LET sliced == [i \in Eqs |-> IF BITSLICE_LANES(B) > 0 THEN SlicedPz(K, B, i, x0)
                               ELSE [t1 |-> T1(K, i), z |-> <<>>]]
      off == NON_BITSLICE_OFFSET(B)
      Of(e, i) ==
        IF e - off \in 0 .. NON_BITSLICE_LEFTOVER(B) - 1
          THEN Pz(K, MatMult(K.A[i], x0[e]), sliced[i].t1, x0[e])
          ELSE IF e \in DOMAIN sliced[i].z THEN sliced[i].z[e] ELSE [z0 |-> 0, z1 |-> 0]
  IN  [z0 |-> [e \in Execs |-> [i \in Eqs |-> Of(e, i).z0]],
       z1 |-> [e \in Execs |-> [i \in Eqs |-> Of(e, i).z1]]]

ComputePAlpha_bitslice(K, B, com, x0, u0, u1) ==
  LET z == ComputePz_xTau_bitslice(K, B, x0)
      Gamma(e) == ExpandBatchingChallenge(com[e])
  IN  [alpha0 |-> [e \in Execs |-> BatchAndMask(Gamma(e), z.z0[e], u0[e])],
       alpha1 |-> [e \in Execs |-> BatchAndMask(Gamma(e), z.z1[e], u1[e])]]

-----------------------------------------------------------------------------
(***************************************************************************)
(* The verifier.  There is no lane for x.  B.factored is the build with    *)
(* PIOP_BITSLICE_OPT_VERIFY: r <b_i, v_x> in place of <r b_i, v_x>.        *)
(***************************************************************************)
EVAL_BS_LEFTOVER(B) == TAU - Floor(TAU, B.word)
EVAL_BITSLICE_LANES(B) ==
  IF EVAL_BS_LEFTOVER(B) > B.limit THEN TAU ELSE Floor(TAU, B.word)
EVAL_NON_BITSLICE_OFFSET(B) ==
  IF EVAL_BS_LEFTOVER(B) > B.limit THEN TAU ELSE EVAL_BITSLICE_LANES(B)

SlicedPzEval(K, B, i, r, v_x) ==
  LET lanes == EVAL_BITSLICE_LANES(B)
      r_bitsliced == Pack(B, [e \in 0 .. lanes - 1 |-> [k \in {0} |-> r[e]]], 1, lanes)
      v_x_bitsliced == Pack(B, v_x, N, lanes)
      v_t == MatMultSliced(B, K.A[i], v_x_bitsliced, lanes)
      folded == AddSliced(v_t, ConstVectMultHybrid(B, r_bitsliced, K.b[i], N, lanes))
      dot == IF B.factored
               THEN AddSliced(VectMultSliced(B, v_t, v_x_bitsliced, N, lanes),
                              MultSliced(r_bitsliced, VectMultHybrid(B, K.b[i], v_x_bitsliced, N, lanes)))
               ELSE VectMultSliced(B, folded, v_x_bitsliced, N, lanes)
      y_r2 == ConstVectMultHybrid(B, MultSliced(r_bitsliced, r_bitsliced),
                                  [k \in {0} |-> K.y[i]], 1, lanes)
      v_z == AddSliced(dot, y_r2)
  IN  [e \in 0 .. lanes - 1 |-> Unpack(B, v_z, e, 1, lanes)[0]]

ComputePzEval_xTau_bitslice(K, B, r, v_x) ==
  LET sliced == [i \in Eqs |-> IF EVAL_BITSLICE_LANES(B) > 0 THEN SlicedPzEval(K, B, i, r, v_x)
                               ELSE <<>>]
  IN  [e \in Execs |->
         IF e >= EVAL_NON_BITSLICE_OFFSET(B) THEN ComputePzEval(K, r[e], v_x[e])
         ELSE [i \in Eqs |-> sliced[i][e]]]

RecomputePAlpha_bitslice(K, B, com, alpha1, i_star, x_eval, u_eval) ==
  LET r == [e \in Execs |-> get_evaluation_point(i_star[e])]
      v_z == ComputePzEval_xTau_bitslice(K, B, r, x_eval)
  IN  [e \in Execs |->
         Unmask(ExpandBatchingChallenge(com[e]), v_z[e], u_eval[e], r[e], alpha1[e])]

=============================================================================
