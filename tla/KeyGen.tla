--------------------------------- MODULE KeyGen -------------------------------
(***************************************************************************)
(* crypto_sign_keypair() and the two builds of KeyGen (keygen.c): the      *)
(* default one, which expands all the equations and then evaluates them at *)
(* x, and the memory efficient one, which evaluates row by row.            *)
(*                                                                         *)
(* An element of the extension field is its bytes.  What is evaluated is a *)
(* polynomial in the coordinates of x: a set of terms <<element, k, j>>    *)
(* for element * x_k * x_j, with Linear in the place of j for              *)
(* element * x_k.                                                          *)
(***************************************************************************)
EXTENDS ExpandMQ, FiniteSets

VARIABLES
  kg_build,         \* [streamed, aliasing : BOOLEAN, width : {1, 4, 8}]
  kg_pc, kg_ret,    \* where the call stands, and its ret
  EEctx,            \* the streaming context
  i_eq,             \* i of the loops over the equations
  A_hat,            \* the rows in memory, <<i, j>> -> row; b_hat is row N
  vect_tmp,         \* one product for each row of the current equation
  y,                \* the polynomials evaluated so far
  pk, sk,
  allocated,        \* heap buffers held
  secret            \* what holds secrets: "seed_x", "x", "tmp"

kg_vars == <<kg_build, kg_pc, kg_ret, EEctx, i_eq, A_hat, vect_tmp, y, pk, sk,
             allocated, secret>>

Linear == -1
OldKey == [mseed_eq |-> "old", y |-> <<>>, x |-> FALSE]
ZeroKey == [mseed_eq |-> "zero", y |-> <<>>, x |-> FALSE]

Join(f, g) == [k \in DOMAIN f \cup DOMAIN g |-> IF k \in DOMAIN g THEN g[k] ELSE f[k]]
At(a, v) == [k \in {a} |-> v]

Elem(row, k) == [b \in 0 .. ELT - 1 |-> row[k * ELT + b]]

\* field_base_ext_vect_mult(x, row, len).
TimesX(row, len) == {<<Elem(row, k), k>> : k \in 0 .. len - 1}

\* The products of the rows, times x once more, and the linear part b.
Evaluated(products, b) ==
  (UNION {{<<t[1], t[2], j>> : t \in products[j]} : j \in DOMAIN products})
    \cup {<<t[1], t[2], Linear>> : t \in TimesX(b, N)}

-----------------------------------------------------------------------------
KeyGenInit(builds, from) ==
  /\ kg_build \in builds
  /\ kg_pc = from /\ kg_ret = -1
  /\ EEctx = NoCtx /\ i_eq = 0
  /\ A_hat = <<>> /\ vect_tmp = <<>> /\ y = <<>>
  /\ pk = OldKey /\ sk = OldKey
  /\ allocated = {} /\ secret = {}

KGFails(to) == kg_pc' = to /\ kg_ret' = -1

\* randombytes() for seed_x and then mseed_eq.
SampleSeeds ==
  /\ kg_pc = "sample"
  /\ secret' = {"seed_x"}
  /\ \/ kg_pc' = "enter" /\ kg_ret' = 0
     \/ KGFails("return")
  /\ UNCHANGED <<kg_build, EEctx, i_eq, A_hat, vect_tmp, y, pk, sk, allocated>>

\* The start of KeyGen: the two matrices, or the streaming context; and x.
EnterKeyGen ==
  /\ kg_pc = "enter"
  /\ \/ /\ ~kg_build.streamed
        /\ allocated' = {"A_hat", "b_hat"}
        /\ secret' = secret \cup {"x"}
        /\ kg_pc' = "expand"
        /\ UNCHANGED <<kg_ret, EEctx>>
     \/ /\ ~kg_build.streamed
        /\ allocated' \in {{}, {"A_hat"}}
        /\ KGFails("cleanup")
        /\ UNCHANGED <<secret, EEctx>>
     \/ /\ kg_build.streamed
        /\ EEctx' = ExpandEquations_memopt_init
        /\ secret' = secret \cup {"x"}
        /\ kg_pc' = "row"
        /\ UNCHANGED <<kg_ret, allocated>>
  /\ UNCHANGED <<kg_build, i_eq, A_hat, vect_tmp, y, pk, sk>>

(***************************************************************************)
(* The default build.                                                      *)
(***************************************************************************)

\* One batch of seeds, and the expansion of each of its equations; the XOF or
\* one of the expansions may fail, as may the allocation of the stream.
ExpandBatch ==
  /\ kg_pc = "expand" /\ i_eq < NB_EQ
  /\ LET lanes == BatchAt(i_eq, kg_build.width)
     IN  \E done \in 0 .. lanes :
           /\ A_hat' = Join(A_hat,
                [p \in (i_eq .. i_eq + done - 1) \X (0 .. N) |->
                   ParsedEquation(p[1], kg_build.aliasing)[p[2]]])
           /\ IF done = lanes
                THEN i_eq' = i_eq + lanes /\ UNCHANGED <<kg_pc, kg_ret>>
                ELSE KGFails("cleanup") /\ UNCHANGED i_eq
  /\ UNCHANGED <<kg_build, EEctx, vect_tmp, y, pk, sk, allocated, secret>>

\* field_ext_base_mat_mult(A_hat[i], x, vect_tmp, N, TRI_INF) for every equation.
MultiplyAll ==
  /\ kg_pc = "expand" /\ i_eq = NB_EQ
  /\ y' = [i \in Eqs |->
             Evaluated([j \in 0 .. N - 1 |-> TimesX(A_hat[<<i, j>>], j + 1)], A_hat[<<i, N>>])]
  /\ secret' = secret \cup {"tmp"}
  /\ kg_pc' = "serialize"
  /\ UNCHANGED <<kg_build, kg_ret, EEctx, i_eq, A_hat, vect_tmp, pk, sk, allocated>>

(***************************************************************************)
(* The memory efficient build: one row, which the next overwrites.         *)
(***************************************************************************)
\* The row that the loop over i and j asks for: A_hat_row, or b_hat_row last.
RowWanted == [i |-> i_eq, j |-> Cardinality(DOMAIN vect_tmp)]

StreamRow ==
  /\ kg_pc = "row"
  /\ \/ /\ ~Refuses(EEctx)
        /\ \E u \in {ExpandEquations_memopt_update(EEctx, kg_build.aliasing)} :
             /\ EEctx' = u.ctx
             /\ A_hat' = At(<<i_eq, RowWanted.j>>, u.row)
             /\ secret' = secret \cup {"tmp"}
             /\ IF RowWanted.j < N
                  THEN /\ vect_tmp' = Join(vect_tmp, At(RowWanted.j, TimesX(u.row, RowWanted.j + 1)))
                       /\ UNCHANGED <<i_eq, y, kg_pc>>
                  ELSE /\ y' = Join(y, At(i_eq, Evaluated(vect_tmp, u.row)))
                       /\ vect_tmp' = <<>>
                       /\ i_eq' = i_eq + 1
                       /\ kg_pc' = IF i_eq + 1 = NB_EQ THEN "serialize" ELSE "row"
        /\ UNCHANGED kg_ret
     \/ /\ KGFails("cleanup")
        /\ UNCHANGED <<EEctx, A_hat, vect_tmp, i_eq, y, secret>>
  /\ UNCHANGED <<kg_build, pk, sk, allocated>>

(***************************************************************************)
(* The end of both.                                                        *)
(***************************************************************************)
Serialize ==
  /\ kg_pc = "serialize"
  /\ pk' = [mseed_eq |-> "mseed", y |-> y, x |-> FALSE]
  /\ sk' = [pk' EXCEPT !.x = TRUE]
  /\ kg_ret' = 0
  /\ kg_pc' = "cleanup"
  /\ UNCHANGED <<kg_build, EEctx, i_eq, A_hat, vect_tmp, y, allocated, secret>>

CleanUp ==
  /\ kg_pc = "cleanup"
  /\ allocated' = {}
  /\ EEctx' = ExpandEquations_memopt_final(EEctx)
  /\ secret' = secret \ {"x", "tmp"}
  /\ vect_tmp' = <<>> /\ y' = <<>>
  /\ A_hat' = <<>>
  /\ kg_pc' = "return"
  /\ UNCHANGED <<kg_build, kg_ret, i_eq, pk, sk>>

\* (wrong on purpose) A failed call leaves the buffers as they are.
Answered_Always(key) == key

\* What crypto_sign_keypair() leaves in the caller's buffers.
Answered(key) == IF kg_ret = 0 THEN key ELSE ZeroKey

ReturnKeyPair ==
  /\ kg_pc = "return"
  /\ pk' = Answered(pk) /\ sk' = Answered(sk)
  /\ secret' = {}
  /\ kg_pc' = "done"
  /\ UNCHANGED <<kg_build, kg_ret, EEctx, i_eq, A_hat, vect_tmp, y, allocated>>

KeyGenNext ==
  \/ SampleSeeds \/ EnterKeyGen
  \/ ExpandBatch \/ MultiplyAll \/ StreamRow
  \/ Serialize \/ CleanUp \/ ReturnKeyPair

-----------------------------------------------------------------------------
(***************************************************************************)
(* Properties.                                                             *)
(***************************************************************************)

\* The two expansions agree: each row in memory, read in one piece or continued
\* from the block which the row before cut in two, is made of the bytes of its
\* own equation at its own place (ExpandEquations, ExpandEquations_memopt_update).
RowsAreSlices ==
  \A p \in DOMAIN A_hat :
    A_hat[p] = [b \in 0 .. Nbytes(p[2]) - 1 |-> RowByte(p[1], p[2], b)]

\* The public map of the definition.
PublicMap(i) ==
  LET elem(j, k) == [b \in 0 .. ELT - 1 |-> RowByte(i, j, k * ELT + b)]
  IN  {<<elem(p[1], p[2]), p[2], p[1]>> : p \in {q \in (0 .. N - 1) \X (0 .. N - 1) : q[2] <= q[1]}}
        \cup {<<elem(N, k), k, Linear>> : k \in 0 .. N - 1}

\* A key pair is complete or zero: both builds return the value at x of the
\* same map, the secret key holds the same seed and value, and after a failure
\* of any call nothing is left in the two buffers, on the heap or the stack
\* (crypto_sign_keypair).
KeyPairExact ==
  kg_pc = "done" =>
    /\ allocated = {} /\ secret = {} /\ ~EEctx.magic
    /\ IF kg_ret = 0
         THEN /\ pk = [mseed_eq |-> "mseed", y |-> [i \in Eqs |-> PublicMap(i)], x |-> FALSE]
              /\ sk = [pk EXCEPT !.x = TRUE]
         ELSE pk = ZeroKey /\ sk = ZeroKey

=============================================================================
