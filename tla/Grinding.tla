------------------------------ MODULE Grinding ------------------------------
(***************************************************************************)
(* SampleChallenge (src/sample_challenge_sign.h): the signer searches the  *)
(* nonces 0, 1, 2, ... for the first one whose challenge can be used, and  *)
(* the verifier derives the challenge of that nonce again                  *)
(* (src/sample_challenge_verify.h).                                        *)
(*                                                                         *)
(* The builds share the search: one nonce per trial (the scalar path) or   *)
(* K = 2, 4 or 8 nonces per trial.  They must find the same nonce, or two  *)
(* builds of the same library sign differently; and they tell a nonce that *)
(* is no good from a failed cipher or hash call in different ways.         *)
(***************************************************************************)
EXTENDS Integers, FiniteSets

CONSTANTS
  NbNonces,  \* 2^MQOM3_PARAM_GRIND_L: values of a uint32_t nonce
  Ks         \* the builds: nonces per trial

Nonces == 0..NbNonces-1

ASSUME GrindingAssumption ==
  /\ NbNonces \in Nat \ {0}
  /\ Ks \subseteq 1..NbNonces
  /\ \A k \in Ks : NbNonces % k = 0

\* What DeriveChallenge finds of a nonce: the truncated XOR of the two
\* ciphertexts is not zero; it is, but the challenge it yields is refused by
\* BLC_IsValidChallenge; or the challenge is good.
Class == {"filtered", "refused", "good"}

None == -1

VARIABLES
  K,                \* nonces per trial of the build
  class,            \* class of every nonce, fixed by sig_id
  nonce_int,        \* the first nonce of the current trial
  mat_precomputed,  \* the grinding material has been derived
  i_star,           \* the nonce the challenge held in i_star was derived from
  nonce, ret,       \* what SampleChallenge returned
  faulty,           \* a cipher or hash call of the signer has failed
  v_i_star, v_ret   \* the verifier's challenge and what DeriveChallenge said

vars == <<K, class, nonce_int, mat_precomputed, i_star, nonce, ret, faulty,
          v_i_star, v_ret>>

\* The one-nonce path is the one without AES_GRINDING_X4.
Scalar == K = 1

Init ==
  /\ K \in Ks
  /\ class \in [Nonces -> Class]
  /\ nonce_int = 0
  /\ mat_precomputed = FALSE
  /\ i_star = None
  /\ nonce = None /\ ret = "running"
  /\ faulty = FALSE
  /\ v_i_star = None /\ v_ret = "none"

-----------------------------------------------------------------------------
(***************************************************************************)
(* One trial of the loop.                                                  *)
(***************************************************************************)
Batch == nonce_int..nonce_int+K-1

\* (wrong on purpose) BLC_IsValidChallenge is not asked.
Good_FilterOnly == {n \in Batch : class[n] # "filtered"}

Good    == {n \in Batch : class[n] = "good"}
Derived == {n \in Batch : class[n] # "filtered"}

\* (wrong on purpose) The last good nonce of the batch wins.
Chosen_Last == CHOOSE n \in Good : \A m \in Good : m <= n

\* The first good nonce of the batch.
Chosen == CHOOSE n \in Good : \A m \in Good : n <= m

\* (wrong on purpose) The challenge of the first nonce past the filter stays.
LastDerived_First(S, old) ==
  IF S = {} THEN old ELSE CHOOSE n \in S : \A m \in S : n <= m

\* Challenges are derived one nonce after the other into the same i_star.
LastDerived(S, old) == IF S = {} THEN old ELSE CHOOSE n \in S : \A m \in S : m <= n

\* (wrong on purpose) The counter is not reduced to its width.
NextNonce_NoWrap == nonce_int + K

\* The uint32_t counters move by K; the first one is 0 again after the last
\* batch, and only then.
NextNonce == (nonce_int + K) % NbNonces

\* (wrong on purpose) The last batch is never tried.
Exhausted_OneEarly(n) == (n + K) % NbNonces = 0

\* (wrong on purpose) A comparison the wrapped counter never meets.
Exhausted_AtWidth(n) == n >= NbNonces

Exhausted(n) == n = 0

Trying == ret = "running"

\* The build is fixed, and the verifier has its own state.
VerifierIdle == UNCHANGED <<K, v_i_star, v_ret>>

TrialFinds ==
  /\ Trying
  /\ Good # {}
  /\ i_star' = LastDerived({n \in Derived : n <= Chosen}, i_star)
  /\ nonce' = Chosen
  /\ ret' = "ok"
  /\ mat_precomputed' = TRUE
  /\ UNCHANGED <<class, nonce_int, faulty>> /\ VerifierIdle

\* -1: no nonce of the batch is good; the loop goes on until they run out.
NextBatch ==
  /\ nonce_int' = NextNonce
  /\ ret' = IF Exhausted(nonce_int') THEN "fail" ELSE "running"

TrialRejects ==
  /\ Trying
  /\ Good = {}
  /\ i_star' = LastDerived(Derived, i_star)
  /\ mat_precomputed' = TRUE
  /\ NextBatch
  /\ UNCHANGED <<class, nonce, faulty>> /\ VerifierIdle

\* Whether a failed call ends the search (-2) or counts as a rejected batch
\* (-1): the batched paths always end it, the scalar DeriveChallenge only when
\* the grinding material could not be derived.
StopsOn(what) == what = "material" \/ ~Scalar

\* A call fails: deriving the material, in the first trial; an encryption; or
\* a hash, which runs only for a nonce that passed the filter.  The challenge
\* of a refused nonce before that one may have been written to i_star.
RefusedBefore == {m \in Derived : /\ \E n \in Derived : m < n
                                  /\ \A g \in Good : m < g}

TrialErrs(what) ==
  /\ Trying
  /\ what = "material" => ~mat_precomputed
  /\ what = "hash" => Derived # {}
  /\ faulty' = TRUE
  /\ mat_precomputed' = (what # "material")
  /\ i_star' \in {i_star} \cup (IF what = "hash" THEN RefusedBefore ELSE {})
  /\ IF StopsOn(what) THEN ret' = "fail" /\ UNCHANGED nonce_int ELSE NextBatch
  /\ UNCHANGED <<class, nonce>> /\ VerifierIdle

-----------------------------------------------------------------------------
(***************************************************************************)
(* The verifier, given the nonce of the signature.                         *)
(***************************************************************************)
DeriveChallenge ==
  /\ ret = "ok" /\ v_ret = "none"
  /\ v_i_star' = IF class[nonce] # "filtered" THEN nonce ELSE None
  /\ v_ret' = IF class[nonce] = "good" THEN "ok" ELSE "fail"
  /\ UNCHANGED <<K, class, nonce_int, mat_precomputed, i_star, nonce, ret, faulty>>

-----------------------------------------------------------------------------
Next ==
  \/ TrialFinds
  \/ TrialRejects
  \/ \E what \in {"material", "cipher", "hash"} : TrialErrs(what)
  \/ DeriveChallenge

Spec == Init /\ [][Next]_vars /\ WF_vars(TrialFinds \/ TrialRejects)

-----------------------------------------------------------------------------
\* The counter is a nonce on a batch boundary, and what both sides hold are
\* nonces or nothing.
TypeOK ==
  /\ K \in Ks
  /\ class \in [Nonces -> Class]
  /\ nonce_int \in Nonces
  /\ nonce_int % K = 0
  /\ mat_precomputed \in BOOLEAN
  /\ i_star \in Nonces \cup {None}
  /\ nonce \in Nonces \cup {None}
  /\ ret \in {"running", "ok", "fail"}
  /\ faulty \in BOOLEAN
  /\ v_i_star \in Nonces \cup {None}
  /\ v_ret \in {"none", "ok", "fail"}

\* Every build signs with the same nonce: the first good one of all, whatever
\* the size of a batch.  On the scalar path a failed cipher or hash call is
\* taken for a rejected nonce, so there a fault may skip it.
NonceIsFirst ==
  ret = "ok" /\ (faulty => ~Scalar) =>
    class[nonce] = "good" /\ \A m \in 0..nonce-1 : class[m] # "good"

\* The search fails only when no nonce at all is good, or a call failed: the
\* wrap of the counter neither ends it early nor starts it over.
FailureMeansNone ==
  ret = "fail" /\ ~faulty => \A n \in Nonces : class[n] # "good"

\* The search finds the first good nonce and fails only when there is none.
SearchExact == NonceIsFirst /\ FailureMeansNone

\* The challenge the signer opens is the one the verifier derives from the
\* nonce in the signature: nonces refused before or after it in its batch
\* leave no trace in i_star.
SameChallenge ==
  /\ ret = "ok" => i_star = nonce
  /\ v_ret # "none" => v_ret = "ok" /\ v_i_star = i_star

\* SampleChallenge returns: the counter does reach its wrap.
SearchEnds == <>(ret # "running")
=============================================================================
