------------------------------- MODULE SignVerify ------------------------------
(***************************************************************************)
(* One call of Sign or of Verify, in the default build (sign.c) and in the *)
(* memory efficient one (sign_memopt.c), which hold the executions one     *)
(* window at a time.  Any call made on the way may fail.                   *)
(*                                                                         *)
(* The line commitment, a module of its own, is here what it promises: the *)
(* commitment of execution e is the number e, its line x0[e] + x X,        *)
(* u0[e] + u1[e] X, and an opening is correct at the point it was made     *)
(* for.  A hash is the tuple of what was absorbed.                         *)
(***************************************************************************)
EXTENDS PIOPBitslice

CONSTANTS
  Keys,       \* pairs of a key and the lines: [K, x0, u0, u1]
  MSG         \* the message

\* A key that solves its own system, and lines in the field.
IsKey(key) ==
  /\ \A i \in Eqs : /\ DOMAIN key.K.A[i] = 0 .. N - 1
                     /\ \A j \in 0 .. N - 1 : key.K.A[i][j] \in [0 .. j -> Field]
                     /\ key.K.b[i] \in [0 .. N - 1 -> Field]
                     /\ key.K.y[i] = VectMult(T1(key.K, i), key.K.x, N)
  /\ key.K.x \in [0 .. N - 1 -> Field]
  /\ key.x0 \in [Execs -> [0 .. N - 1 -> Field]]
  /\ key.u0 \in [Execs -> [Rows -> Field]] /\ key.u1 \in [Execs -> [Rows -> Field]]

ASSUME SignAssumption == MSG \in Nat /\ \A k \in DOMAIN Keys : IsKey(Keys[k])

VARIABLES
  job,        \* the build, the key and the input of the call
  pc, ret,
  e, p,       \* the loops over windows and over batches of the PIOP
  com1,       \* an array of commitments: of a window, or of all executions
  ws,         \* the window, [x, u, v]: x0, u0, u1 or x_eval, u_eval, alpha1
  alpha0, alpha1,
  absorbed,   \* what presigid_ctx took in
  i_star,
  sig,
  active,     \* the XOF contexts that are open
  held        \* the objects that hold secrets

sv_vars == <<job, pc, ret, e, p, com1, ws, alpha0, alpha1, absorbed, i_star, sig, active, held>>

Key == Keys[job.key]
K == Key.K

Unwritten == -1
JunkRow(len) == [k \in 0 .. len - 1 |-> 0]
JunkRows(n, len) == [s \in 0 .. n - 1 |-> JunkRow(len)]

ZeroSig == [sig_id |-> [com1 |-> <<>>, com2 |-> <<>>, msg |-> 0], salt |-> 0,
            opening |-> [holds |-> "nothing", at |-> <<>>, alpha1 |-> <<>>]]

\* Elements at .. at + n - 1 of an array, and an array with some of its
\* elements, from at on, replaced.
Slice(array, at, n) == [k \in 0 .. n - 1 |-> array[at + k]]
Overwrite(array, at, part) ==
  [s \in DOMAIN array |-> IF s - at \in DOMAIN part THEN part[s - at] ELSE array[s]]

AsSeq(array) == [k \in 1 .. Cardinality(DOMAIN array) |-> array[k - 1]]

\* The hash inputs that identify a signature.
SigId(coms, a0, a1, msg) ==
  [com1 |-> coms, com2 |-> [k \in Execs |-> <<a0[k], a1[k]>>], msg |-> msg]

\* The challenge of a sig_id, one point for each execution.
Challenge(id) == [k \in Execs |-> (k + id.com2[k][1][0] + 2 * id.com2[0][2][0]) % 4]

\* P_x and P_u at a point.
At(row0, row1, r) == VectAdd(row0, ConstantVectMult(r, row1))

-----------------------------------------------------------------------------
(***************************************************************************)
(* The definition of a signature.  P_alpha is a line: alpha0 is its value  *)
(* at 0, alpha1 the difference with its value at 1.                        *)
(***************************************************************************)
PzAt(key, k, r) ==
  LET v == At(key.x0[k], key.K.x, r)
  IN  [i \in Eqs |-> Add(VectMult(VectAdd(MatMult(key.K.A[i], v), ConstantVectMult(r, key.K.b[i])), v, N),
                         Mult(key.K.y[i], Mult(r, r)))]

PAlphaAt(key, k, r) ==
  VectAdd([j \in Rows |-> VectMult(ExpandBatchingChallenge(k)[j], PzAt(key, k, r), NB_EQ)],
          At(key.u0[k], key.u1[k], r))

SignatureOf(key) ==
  LET a0 == [k \in Execs |-> PAlphaAt(key, k, 0)]
      a1 == [k \in Execs |-> VectAdd(PAlphaAt(key, k, 1), PAlphaAt(key, k, 0))]
      id == SigId(AsSeq([k \in Execs |-> k]), a0, a1, MSG)
  IN  [sig_id |-> id, salt |-> 1,
       opening |-> [holds |-> "opening", at |-> Challenge(id), alpha1 |-> a1]]

\* What a verifier may be given: bytes of the opening changed, among them those
\* of alpha1; the nonce, or another message, is changed in VerifierInput.
Tampered(s, how) ==
  CASE how = "alpha1" -> [s EXCEPT !.opening.alpha1[TAU - 1][ETA - 1] = Add(@, 1)]
    [] how = "path" -> [s EXCEPT !.opening.at[TAU - 1] = -1]
    [] OTHER -> s
MessageOf(how) == IF how = "message" THEN MSG + 1 ELSE MSG

-----------------------------------------------------------------------------
(***************************************************************************)
(* Builds.                                                                 *)
(***************************************************************************)
Signing == job.role = "sign"

\* SIGN_MEMOPT_BATCH and VERIFY_MEMOPT_BATCH: executions in a window.
BatchOf(j) == IF j.ot THEN j.blc_batch ELSE j.piop_batch

\* SIGN_MEMOPT_ALPHA_ALIASED: u0 and u1 are also alpha0 and alpha1.
ALPHA_ALIASED == job.memopt /\ job.ot /\ job.blc_batch >= TAU

SVInit(jobs, from) ==
  /\ job \in jobs
  /\ pc = from /\ ret = -1 /\ e = 0 /\ p = 0
  /\ com1 = [s \in 0 .. (IF job.memopt /\ job.stream THEN BatchOf(job) ELSE TAU) - 1 |-> Unwritten]
  /\ LET n == IF job.memopt THEN BatchOf(job) ELSE TAU
     IN  ws = [x |-> JunkRows(n, N), u |-> JunkRows(n, ETA), v |-> JunkRows(n, ETA)]
  /\ alpha0 = JunkRows(TAU, ETA) /\ alpha1 = JunkRows(TAU, ETA)
  /\ absorbed = <<>> /\ i_star = <<>>
  /\ sig = IF Signing THEN ZeroSig ELSE Tampered(SignatureOf(Key), job.tampered)
  /\ active = {} /\ held = {}

\* A step of calls that succeed, or of which one fails.
Reaches(to) == \/ pc' = to /\ ret' = 0
               \/ pc' = "err" /\ ret' = -1

-----------------------------------------------------------------------------
(***************************************************************************)
(* The start.                                                              *)
(***************************************************************************)

\* The allocation of the opening key, in builds that keep all trees.
KeyIsNull ==
  /\ pc = "enter" /\ Signing /\ ~job.memopt /\ job.keep
  /\ pc' = "done" /\ sig' = ZeroSig
  /\ UNCHANGED <<job, ret, e, p, com1, ws, alpha0, alpha1, absorbed, i_star, active, held>>

InitialContexts == IF job.memopt /\ job.stream THEN {"presigid_ctx"} ELSE {}

\* The salt goes to the signature, x and the message hash to the stack.  xof_ctx
\* is cleaned where it shares its place with x0; presigid_ctx is opened.
EnterSign ==
  /\ pc = "enter" /\ Signing
  /\ sig' = [sig EXCEPT !.salt = 1]
  /\ held' = {"x", "msg_hash", "key"} \cup (IF job.keep THEN {"key_heap"} ELSE {})
  /\ \/ /\ pc' = "window" /\ ret' = 0
        /\ active' = InitialContexts \cup (IF ~job.memopt /\ job.x0_in_sig THEN {"xof_ctx"} ELSE {})
     \/ /\ pc' = "err" /\ ret' = -1
              /\ active' \in {{}, {"xof_ctx"}, InitialContexts}
  /\ UNCHANGED <<job, e, p, com1, ws, alpha0, alpha1, absorbed, i_star>>

\* DeriveChallenge: a changed nonce is refused, or gives another challenge.
VerifierChallenge(nonce_changed) ==
  LET c == Challenge(sig.sig_id)
  IN  IF nonce_changed THEN [k \in Execs |-> (c[k] + 1) % 4] ELSE c

EnterVerify ==
  /\ pc = "enter" /\ ~Signing
  /\ i_star' = VerifierChallenge(job.tampered = "nonce")
  /\ \/ /\ pc' = "window" /\ ret' = 0
        /\ active' = InitialContexts
     \/ /\ pc' = "err" /\ ret' = -1
              /\ active' \in {{}, {"xof_ctx"}, InitialContexts}
  /\ UNCHANGED <<job, e, p, com1, ws, alpha0, alpha1, absorbed, sig, held>>

-----------------------------------------------------------------------------
(***************************************************************************)
(* The line commitment.                                                    *)
(***************************************************************************)

\* BLC_Eval of execution k: without the right opening, something else.
Opened(k) == sig.opening.at[k] = i_star[k]
EvalCom(k) == IF Opened(k) THEN k ELSE k + 100
EvalX(k) == IF Opened(k) THEN At(Key.x0[k], K.x, get_evaluation_point(i_star[k])) ELSE Key.x0[k]
EvalU(k) == At(Key.u0[k], Key.u1[k], get_evaluation_point(i_star[k]))

Coms(first, n) == [k \in 0 .. n - 1 |-> IF Signing THEN first + k ELSE EvalCom(first + k)]
Lines(first, n) ==
  IF Signing THEN [x |-> Slice(Key.x0, first, n), u |-> Slice(Key.u0, first, n),
                   v |-> Slice(Key.u1, first, n)]
  ELSE [x |-> [k \in 0 .. n - 1 |-> EvalX(first + k)], u |-> [k \in 0 .. n - 1 |-> EvalU(first + k)],
        v |-> [k \in {} |-> 0]]

\* Executions first .. first + n - 1 into slot at of the window, and their
\* commitments into com1.
Writes(first, n, at, com_at) ==
  LET line == Lines(first, n)
  IN  /\ com1' = Overwrite(com1, com_at, Coms(first, n))
      /\ ws' = [x |-> Overwrite(ws.x, at, line.x), u |-> Overwrite(ws.u, at, line.u),
                v |-> Overwrite(ws.v, at, line.v)]
      /\ held' = held \cup (IF Signing THEN {IF job.memopt THEN "ws" ELSE "workspaces"} ELSE {})

\* BLC_Commit and BLC_Eval: all executions.  x0 may be in the signature.
LinesOfAll ==
  /\ pc = "window" /\ ~job.memopt
  /\ Writes(0, TAU, 0, 0)
  /\ alpha1' = IF Signing THEN alpha1 ELSE sig.opening.alpha1
  /\ sig' = IF Signing /\ job.x0_in_sig THEN [sig EXCEPT !.opening.holds = "x0"] ELSE sig
  /\ Reaches("piop")
  /\ UNCHANGED <<job, e, p, alpha0, absorbed, i_star, active>>

\* The executions of one pass of the large tree.
Blc_batch == Min2(TAU - e, job.blc_batch)

\* The first execution of the window, and where SIGN_COM1_BATCH and
\* VFY_COM1_BATCH find its commitments.
WindowStart == IF job.ot THEN e ELSE e - (e % job.piop_batch)
COM1_BATCH == IF job.stream THEN 0 ELSE WindowStart

\* OT_BLC_Commit_memopt_partial and OT_BLC_Eval_memopt_partial.
LinesOfPass ==
  /\ pc = "window" /\ job.memopt /\ job.ot
  /\ Writes(e, Blc_batch, 0, COM1_BATCH)
  /\ Reaches("piop")
  /\ UNCHANGED <<job, e, p, alpha0, alpha1, absorbed, i_star, sig, active>>

\* CT_BLC_Commit_memopt_partial and CT_BLC_Eval_memopt_partial, and the test for
\* the end of a batch.
LinesOfExecution ==
  /\ pc = "window" /\ job.memopt /\ ~job.ot
  /\ Writes(e, 1, e - WindowStart, COM1_BATCH + (e - WindowStart))
  /\ IF e - WindowStart = job.piop_batch - 1 \/ e = TAU - 1
       THEN Reaches("piop") /\ UNCHANGED e
       ELSE Reaches("window") /\ e' = e + 1
  /\ UNCHANGED <<job, p, alpha0, alpha1, absorbed, i_star, sig, active>>

-----------------------------------------------------------------------------
(***************************************************************************)
(* P_alpha.                                                                *)
(***************************************************************************)

\* ComputePAlpha, of the build.
ComputePAlpha(x0, u0, u1) ==
  CASE job.piop.kind = "default" ->
         ComputePAlpha_default(K, com1, x0, u0, u1, job.piop.gamma_batch, job.piop.cached)
    [] job.piop.kind = "memopt" -> ComputePAlpha_memopt(K, com1, x0, u0, u1, job.piop.nb)
    [] job.piop.kind = "bitslice" -> ComputePAlpha_bitslice(K, job.piop, com1, x0, u0, u1)

RecomputePAlpha(x_eval, u_eval) ==
  CASE job.piop.kind = "default" ->
         RecomputePAlpha_default(K, com1, alpha1, i_star, x_eval, u_eval, job.piop.gamma_batch)
    [] job.piop.kind = "memopt" ->
         RecomputePAlpha_memopt(K, com1, alpha1, i_star, x_eval, u_eval, job.piop.nb)
    [] job.piop.kind = "bitslice" ->
         RecomputePAlpha_bitslice(K, job.piop, com1, alpha1, i_star, x_eval, u_eval)

\* All executions.  alpha0 and alpha1 are written over u0 and u1; x0 is wiped
\* from the signature.
SignPAlphaOfAll ==
  /\ pc = "piop" /\ ~job.memopt /\ Signing
  /\ \E a \in {ComputePAlpha(ws.x, ws.u, ws.v)} : alpha0' = a.alpha0 /\ alpha1' = a.alpha1
  /\ Reaches("hash")
  /\ sig' = IF pc' = "hash" THEN [sig EXCEPT !.opening.holds = "nothing"] ELSE sig
  /\ UNCHANGED <<job, e, p, com1, ws, absorbed, i_star, active, held>>

VerifyPAlphaOfAll ==
  /\ pc = "piop" /\ ~job.memopt /\ ~Signing
  /\ \E a \in {RecomputePAlpha(ws.x, ws.u)} : alpha0' = a
  /\ Reaches("hash")
  /\ UNCHANGED <<job, e, p, com1, ws, alpha1, absorbed, i_star, sig, active, held>>

\* The executions of the next batch of the PIOP: how many, and the first.
InWindow == IF job.ot THEN Blc_batch ELSE (e - WindowStart) + 1
Piop_batch == Min2(InWindow - p, job.piop_batch)
First == WindowStart + p

\* The end of a batch: at the end of the window com1 is absorbed.
EndOfBatch ==
  IF p + Piop_batch < InWindow
    THEN /\ p' = p + Piop_batch
         /\ Reaches("piop")
         /\ UNCHANGED <<e, absorbed>>
    ELSE /\ p' = 0
         /\ e' = WindowStart + InWindow
         /\ absorbed' = IF job.stream THEN absorbed \o AsSeq(Slice(com1, 0, InWindow)) ELSE absorbed
         /\ Reaches(IF e' < TAU THEN "window" ELSE "hash")

\* ComputePAlpha_partial_memopt.
SignPAlphaOfBatch ==
  /\ pc = "piop" /\ job.memopt /\ Signing
  /\ LET n == Piop_batch
     IN  \E a \in {ComputePAlpha_partial_memopt(K, n, Slice(com1, COM1_BATCH + p, n),
                     Slice(ws.x, p, n), Slice(ws.u, p, n), Slice(ws.v, p, n))} :
           IF ALPHA_ALIASED
             THEN /\ ws' = [ws EXCEPT !.u = Overwrite(@, First, a.alpha0), !.v = Overwrite(@, First, a.alpha1)]
                  /\ UNCHANGED <<alpha0, alpha1, held>>
             ELSE /\ alpha0' = Overwrite(alpha0, First, a.alpha0)
                  /\ alpha1' = Overwrite(alpha1, First, a.alpha1)
                  /\ held' = held \cup {"alpha"}
                  /\ UNCHANGED ws
  /\ EndOfBatch
  /\ UNCHANGED <<job, com1, i_star, sig, active>>

\* alpha1 is parsed from the opening for RecomputePAlpha_partial_memopt.
VerifyPAlphaOfBatch ==
  /\ pc = "piop" /\ job.memopt /\ ~Signing
  /\ LET n == Piop_batch
         a1 == Slice(sig.opening.alpha1, First, n)
     IN  /\ ws' = [ws EXCEPT !.v = Overwrite(@, p, a1)]
         /\ \E a \in {RecomputePAlpha_partial_memopt(K, n, Slice(com1, COM1_BATCH + p, n), a1,
                        Slice(i_star, First, n), Slice(ws.x, p, n), Slice(ws.u, p, n))} :
              alpha0' = Overwrite(alpha0, First, a)
  /\ EndOfBatch
  /\ UNCHANGED <<job, com1, alpha1, i_star, sig, active, held>>

-----------------------------------------------------------------------------
(***************************************************************************)
(* The hashes, the challenge and the end.                                  *)
(***************************************************************************)
Alpha0 == IF ALPHA_ALIASED THEN ws.u ELSE alpha0
Alpha1 == IF ALPHA_ALIASED THEN ws.v ELSE alpha1

\* The commitments in presig_id.
Committed == IF job.memopt /\ job.stream THEN absorbed ELSE AsSeq(com1)

\* xof_ctx takes the place of x0 or of x_eval; Hash_1, Hash_2 and Hash_4.  A
\* streaming build closes presigid_ctx.
HashesOpen ==
  \/ pc' # "err" /\ active' = {"xof_ctx"}
  \/ pc' = "err" /\ active' \in {active, active \cup {"xof_ctx"}, {"xof_ctx"}}

HashSign ==
  /\ pc = "hash" /\ Signing
  /\ ws' = [ws EXCEPT !.x = JunkRows(Cardinality(DOMAIN ws.x), N)]
  /\ sig' = [sig EXCEPT !.sig_id = SigId(Committed, Alpha0, Alpha1, MSG)]
  /\ held' = held \cup {"alpha_pair"}
  /\ Reaches("challenge") /\ HashesOpen
  /\ UNCHANGED <<job, e, p, com1, alpha0, alpha1, absorbed, i_star>>

\* A build with windows parses alpha1 again.  The verdict is the comparison.
HashVerify ==
  /\ pc = "hash" /\ ~Signing
  /\ ws' = [ws EXCEPT !.x = JunkRows(Cardinality(DOMAIN ws.x), N)]
  /\ LET a1 == IF job.memopt THEN sig.opening.alpha1 ELSE alpha1
         sig_id_ == SigId(Committed, alpha0, a1, MessageOf(job.tampered))
     IN  \/ pc' = "compared" /\ ret' = IF sig_id_ = sig.sig_id THEN 0 ELSE -1
         \/ pc' = "err" /\ ret' = -1
  /\ HashesOpen
  /\ UNCHANGED <<job, e, p, com1, alpha0, alpha1, absorbed, i_star, sig, held>>

\* SampleChallenge.  In the default build i_star takes the place of alpha0.
Sample ==
  /\ pc = "challenge"
  /\ i_star' = Challenge(sig.sig_id)
  /\ alpha0' = IF job.memopt THEN alpha0 ELSE JunkRows(TAU, ETA)
  /\ Reaches("open")
  /\ UNCHANGED <<job, e, p, com1, ws, alpha1, absorbed, sig, active, held>>

\* BLC_Open.
Open ==
  /\ pc = "open"
  /\ sig' = [sig EXCEPT !.opening = [holds |-> "opening", at |-> i_star, alpha1 |-> Slice(Alpha1, 0, TAU)]]
  /\ Reaches("opened")
  /\ UNCHANGED <<job, e, p, com1, ws, alpha0, alpha1, absorbed, i_star, active, held>>

\* (wrong on purpose) An early error forgets presigid_ctx.
Released_Forgets == {"xof_ctx"}

\* The contexts that the err label releases, when their flags are set, and what
\* it wipes.
Released == {"xof_ctx"} \cup (IF job.memopt /\ job.stream THEN {"presigid_ctx"} ELSE {})
Cleansed ==
  IF job.memopt
    THEN {"key", "x", "msg_hash", "ws", "alpha_pair"} \cup (IF ALPHA_ALIASED THEN {} ELSE {"alpha"})
    ELSE {"key", "key_heap", "x", "msg_hash", "workspaces", "alpha_pair"}

ExitSign ==
  /\ pc \in {"opened", "err"} /\ Signing
  /\ held' = held \ Cleansed
  /\ active' = active \ Released
  /\ sig' = IF ret # 0 THEN ZeroSig ELSE sig
  /\ pc' = "done"
  /\ UNCHANGED <<job, ret, e, p, com1, ws, alpha0, alpha1, absorbed, i_star>>

ExitVerify ==
  /\ pc \in {"compared", "err"} /\ ~Signing
  /\ active' = active \ Released
  /\ pc' = IF pc = "err" THEN "failed" ELSE "done"
  /\ UNCHANGED <<job, ret, e, p, com1, ws, alpha0, alpha1, absorbed, i_star, sig, held>>

SVNext ==
  \/ KeyIsNull \/ EnterSign \/ EnterVerify
  \/ LinesOfAll \/ LinesOfPass \/ LinesOfExecution
  \/ SignPAlphaOfAll \/ VerifyPAlphaOfAll \/ SignPAlphaOfBatch \/ VerifyPAlphaOfBatch
  \/ HashSign \/ HashVerify \/ Sample \/ Open \/ ExitSign \/ ExitVerify

-----------------------------------------------------------------------------
(***************************************************************************)
(* Properties.                                                             *)
(***************************************************************************)

\* Whatever build signs - windows of any size, commitments streamed or kept, one
\* array or two for u0 and alpha0, x0 in the signature, lanes or none - the
\* signature is that of the definition; and it is all zero when a call failed
\* (Sign_default, Sign_memopt).
SignatureExact ==
  pc = "done" /\ Signing => sig = IF ret = 0 THEN SignatureOf(Key) ELSE ZeroSig

\* Whatever build verifies, a signature is accepted if and only if neither it
\* nor the message was changed: the verifier recomputes, from one point of each
\* line, the very alpha0 of the signer (Verify_default, Verify_memopt).
VerdictExact ==
  /\ pc = "done" /\ ~Signing => (ret = 0 <=> job.tampered = "nothing")
  /\ pc = "failed" => ret # 0

\* A call that has returned, whatever failed, holds no context; and the signer
\* has wiped each object of its build, whether or not alpha0 shares the place of
\* u0 (the err labels of sign.c and sign_memopt.c).
NothingKept == pc \in {"done", "failed"} => active = {} /\ held = {}

=============================================================================
