---------------------------------- MODULE PIOP ---------------------------------
(***************************************************************************)
(* ComputePAlpha() and RecomputePAlpha() in the default build and in the   *)
(* memory efficient one (piop_default.c, piop_memopt.c).                   *)
(*                                                                         *)
(* Execution e of the signer holds the lines P_x(X) = x0 + x X and         *)
(* P_u(X) = u0 + u1 X.  Equation i makes P_z,i(X) = z0 + z1 X out of P_x:  *)
(* the term in X^2 vanishes when x solves the system.  The answer is the   *)
(* line P_alpha = Gamma P_z + P_u; the verifier recomputes its constant    *)
(* term from its value at one point and from alpha1.                       *)
(*                                                                         *)
(* K is a key: the rows A[i][j], the vectors b[i], the solution x and the  *)
(* values y[i].                                                            *)
(*                                                                         *)
(* The code computes in GF(2^8) or GF(2^16) over GF(2) or a subfield; the  *)
(* model in GF(4) over GF(2), which tells the same sums and products apart *)
(* and has an automorphism, squaring, to stand for the change of basis of  *)
(* the composite representation.  An element is a number in 0 .. 3, a      *)
(* vector a function from 0.                                               *)
(***************************************************************************)
EXTENDS Integers, SequencesExt

CONSTANTS
  TAU,      \* MQOM3_PARAM_TAU
  N,        \* MQOM3_PARAM_MQ_N
  NB_EQ,    \* MQOM3_PARAM_MQ_M / MQOM3_PARAM_MU
  ETA       \* MQOM3_PARAM_ETA

ASSUME PIOPAssumption ==
  /\ TAU \in Nat \ {0} /\ N \in Nat \ {0} /\ NB_EQ \in Nat \ {0} /\ ETA \in Nat \ {0}

Execs == 0 .. TAU - 1
Eqs == 0 .. NB_EQ - 1
Rows == 0 .. ETA - 1

Min2(a, b) == IF a < b THEN a ELSE b

(***************************************************************************)
(* The operations of fields.h.                                             *)
(***************************************************************************)
Field == 0 .. 3

\* field_ext_vect_add of one element.
Plus == <<<<0, 1, 2, 3>>, <<1, 0, 3, 2>>, <<2, 3, 0, 1>>, <<3, 2, 1, 0>>>>
Add(a, b) == Plus[a + 1][b + 1]

Times == <<<<0, 0, 0, 0>>, <<0, 1, 2, 3>>, <<0, 2, 3, 1>>, <<0, 3, 1, 2>>>>
Mult(a, b) == Times[a + 1][b + 1]

VectAdd(u, v) == [k \in DOMAIN u |-> Add(u[k], v[k])]
ConstantVectMult(c, v) == [k \in DOMAIN v |-> Mult(c, v[k])]

\* A loop that adds up the first len elements.
Total(g, len) ==
  LET sum[k \in 0 .. len] == IF k = 0 THEN 0 ELSE Add(sum[k - 1], g[k - 1])
  IN  sum[len]

\* The inner product of the first len elements.
VectMult(u, v, len) == Total([k \in 0 .. len - 1 |-> Mult(u[k], v[k])], len)

\* mat_mult with TRI_INF: row j of a lower triangular matrix has j + 1 elements.
MatMult(A, v) == [j \in DOMAIN A |-> VectMult(A[j], v, j + 1)]

\* get_evaluation_point: the Gray code of i.
get_evaluation_point(i) == Add(i, i \div 2)

-----------------------------------------------------------------------------

\* The batching matrix: ETA vectors out of the XOF of a commitment.  A
\* commitment is a number.
ExpandBatchingChallenge(com) ==
  [r \in Rows |-> [i \in Eqs |-> ((com + 2) * (r + 1) + ((com + 2) \div 4) + 3 * i + 1) % 4]]

\* Up to eight of them at once.
ExpandBatchingChallenge_batch(com_ptrs) ==
  [z \in DOMAIN com_ptrs |-> ExpandBatchingChallenge(com_ptrs[z])]

\* Gamma times z, masked.
BatchAndMask(Gamma, z, u) == [r \in Rows |-> Add(VectMult(Gamma[r], z, NB_EQ), u[r])]

-----------------------------------------------------------------------------
(***************************************************************************)
(* The default build.                                                      *)
(***************************************************************************)

\* t1 = A_i x + b_i, the same for all executions.
T1(K, i) == VectAdd(MatMult(K.A[i], K.x), K.b[i])

\* The cache holds the t1 of some equations.
compute_t1(K, i, cache) == IF i \in DOMAIN cache THEN cache[i] ELSE T1(K, i)

\* The cache once an execution went through all the equations: set_entry()
\* does nothing when there is none.
CacheAfter(K, cache, cached) ==
  IF cached THEN [i \in Eqs |-> compute_t1(K, i, cache)] ELSE cache

\* z0 and z1 of one equation.
Pz(K, t0, t1, x0) ==
  [z0 |-> VectMult(t0, x0, N), z1 |-> Add(VectMult(t0, K.x, N), VectMult(t1, x0, N))]

ComputePz(K, x0, cache) ==
  LET pz == [i \in Eqs |-> Pz(K, MatMult(K.A[i], x0), compute_t1(K, i, cache), x0)]
  IN  [z0 |-> [i \in Eqs |-> pz[i].z0], z1 |-> [i \in Eqs |-> pz[i].z1]]

\* (wrong on purpose) A group always starts at its first commitment.
GammaOf_Unshifted(com, e, gamma_batch) ==
  ExpandBatchingChallenge_batch([z \in 0 .. Min2(gamma_batch, TAU - (e - (e % gamma_batch))) - 1 |->
                                   com[z]])[e % gamma_batch]

\* Gamma of execution e, out of its group of up to gamma_batch executions.
GammaOf(com, e, gamma_batch) ==
  LET first == e - (e % gamma_batch)
      nb == Min2(gamma_batch, TAU - first)
  IN  ExpandBatchingChallenge_batch([z \in 0 .. nb - 1 |-> com[first + z]])[e - first]

ComputePAlpha_default(K, com, x0, u0, u1, gamma_batch, cached) ==
  LET cache[e \in 0 .. TAU] == IF e = 0 THEN <<>> ELSE CacheAfter(K, cache[e - 1], cached)
      pz == [e \in Execs |-> ComputePz(K, x0[e], cache[e])]
  IN  [alpha0 |-> [e \in Execs |-> BatchAndMask(GammaOf(com, e, gamma_batch), pz[e].z0, u0[e])],
       alpha1 |-> [e \in Execs |-> BatchAndMask(GammaOf(com, e, gamma_batch), pz[e].z1, u1[e])]]

\* v_z = <A_i v_x + r b_i, v_x> + y_i r^2.
ComputePzEval(K, r, v_x) ==
  [i \in Eqs |->
     Add(VectMult(VectAdd(MatMult(K.A[i], v_x), ConstantVectMult(r, K.b[i])), v_x, N),
         Mult(K.y[i], Mult(r, r)))]

\* alpha0 = Gamma v_z + u_eval + r alpha1.
Unmask(Gamma, v_z, u_eval, r, alpha1) ==
  VectAdd(BatchAndMask(Gamma, v_z, u_eval), ConstantVectMult(r, alpha1))

RecomputePAlpha_default(K, com, alpha1, i_star, x_eval, u_eval, gamma_batch) ==
  [e \in Execs |->
     LET r == get_evaluation_point(i_star[e])
     IN  Unmask(GammaOf(com, e, gamma_batch), ComputePzEval(K, r, x_eval[e]), u_eval[e], r, alpha1[e])]

-----------------------------------------------------------------------------
(***************************************************************************)
(* The memory efficient build, nb_reps executions in one expansion of the  *)
(* equations.  The arrays start at the first of them.                      *)
(***************************************************************************)
\* Row j of A gives t1[j], and t0[e][j] for each execution, in one pass.
ComputePz_multiple(K, nb_reps, x0) ==
  LET t1 == [i \in Eqs |-> [j \in 0 .. N - 1 |->
              Add(VectMult(K.A[i][j], K.x, j + 1), K.b[i][j])]]
      t0 == [e \in 0 .. nb_reps - 1 |-> [i \in Eqs |-> MatMult(K.A[i], x0[e])]]
      pz == [e \in 0 .. nb_reps - 1 |-> [i \in Eqs |-> Pz(K, t0[e][i], t1[i], x0[e])]]
  IN  [z0 |-> [e \in DOMAIN pz |-> [i \in Eqs |-> pz[e][i].z0]],
       z1 |-> [e \in DOMAIN pz |-> [i \in Eqs |-> pz[e][i].z1]]]

ComputePAlpha_partial_memopt(K, nb_reps, com, x0, u0, u1) ==
  LET z == ComputePz_multiple(K, nb_reps, x0)
      Gamma(e) == ExpandBatchingChallenge(com[e])
  IN  [alpha0 |-> [e \in 0 .. nb_reps - 1 |-> BatchAndMask(Gamma(e), z.z0[e], u0[e])],
       alpha1 |-> [e \in 0 .. nb_reps - 1 |-> BatchAndMask(Gamma(e), z.z1[e], u1[e])]]

ComputePzEval_multiple(K, nb_reps, r, v_x) ==
  [e \in 0 .. nb_reps - 1 |-> ComputePzEval(K, r[e], v_x[e])]

RecomputePAlpha_partial_memopt(K, nb_reps, com, alpha1, i_star, x_eval, u_eval) ==
  LET r == [e \in 0 .. nb_reps - 1 |-> get_evaluation_point(i_star[e])]
      v_z == ComputePzEval_multiple(K, nb_reps, r, x_eval)
  IN  [e \in 0 .. nb_reps - 1 |->
         Unmask(ExpandBatchingChallenge(com[e]), v_z[e], u_eval[e], r[e], alpha1[e])]

\* An array seen from its element at.
From(array, at) == [k \in 0 .. TAU - 1 - at |-> array[at + k]]

\* The batch of execution e, and its place in it.
BatchStart(e, nb) == e - (e % nb)
BatchReps(e, nb) == Min2(nb, TAU - BatchStart(e, nb))

\* All executions, nb at a time.
ComputePAlpha_memopt(K, com, x0, u0, u1, nb) ==
  LET part(e) == LET s == BatchStart(e, nb)
                 IN  ComputePAlpha_partial_memopt(K, BatchReps(e, nb), From(com, s), From(x0, s),
                                                  From(u0, s), From(u1, s))
      parts == [s \in {BatchStart(e, nb) : e \in Execs} |-> part(s)]
  IN  [alpha0 |-> [e \in Execs |-> parts[BatchStart(e, nb)].alpha0[e % nb]],
       alpha1 |-> [e \in Execs |-> parts[BatchStart(e, nb)].alpha1[e % nb]]]

RecomputePAlpha_memopt(K, com, alpha1, i_star, x_eval, u_eval, nb) ==
  LET r == [e \in Execs |-> get_evaluation_point(i_star[e])]
      v_z == [s \in {BatchStart(e, nb) : e \in Execs} |->
                ComputePzEval_multiple(K, BatchReps(s, nb), From(r, s), From(x_eval, s))]
  IN  [e \in Execs |-> Unmask(ExpandBatchingChallenge(com[e]), v_z[BatchStart(e, nb)][e % nb],
                              u_eval[e], r[e], alpha1[e])]

=============================================================================
