------------------------------- MODULE BLCState -------------------------------
(***************************************************************************)
(* The state that the implementations of the batch line commitment share:  *)
(* a signer commits, opens at a challenge, and a verifier evaluates the    *)
(* opening.  Each of the three calls may be made to any implementation,    *)
(* whatever served the call before, except that a key is opened by the     *)
(* implementation that made it.                                            *)
(*                                                                         *)
(* The trees are what the GGM modules show of them: the leaf seeds come in *)
(* logical order, the hidden one as zeroes, or the call fails.             *)
(***************************************************************************)
EXTENDS LineAlgebra

CONSTANTS
  Families,      \* "CT", "OT": the parameter set decides
  Builds,        \* the implementations, as records
  Challenges     \* the hidden evaluations to try, [Execs -> Evals]

\* What the build files and the #error lines allow (blc_memopt.h, 22;
\* blc_ct_memopt.c, 30; ggm_tree_small_incr_batch.h, 17; blc_ot_memopt.h, 25).
ASSUME BuildsAssumption ==
  /\ Families \subseteq {"CT", "OT"}
  /\ Challenges \subseteq [Execs -> Evals]
  /\ \A b \in Builds :
       /\ b.impl \in {"default", "memopt"}
       /\ b.keep \in BOOLEAN /\ b.cache \in BOOLEAN /\ b.fast \in BOOLEAN
       /\ b.h7 \in Nat \ {0} /\ b.batch \in Nat \ {0}
       /\ b.par \in Nat \ {0} /\ b.sim \in Nat \ {0}
       /\ b.impl = "memopt" => ~b.keep /\ NB_EVALS % b.par = 0
                               /\ NB_EVALS % b.sim = 0 /\ b.sim % b.par = 0

VARIABLES
  fam, build,    \* the parameter set, the implementation of the call
  call, pc,      \* the call in progress and where it stands
  exec,          \* e, or e_start of a pass over several executions
  rc,            \* the variable ret of the code: 0 or -1
  oom,           \* an allocation failed after a call that succeeded
  held,          \* heap buffers and cipher contexts not yet released
  dirty,         \* buffers with secrets in them
  key,           \* blc_key_t: delta_x, and ls_com where the build keeps it
  com1, line,    \* what Commit returned, for each execution it got to
  i_star,        \* the challenge
  opening,
  com1_v, evals, alpha1_v    \* what Eval returned

outputs == <<key, com1, line, i_star, opening, com1_v, evals, alpha1_v>>
control == <<fam, build, oom>>

\* f overridden by g, and at one point.
Merge(f, g) == [k \in DOMAIN f \cup DOMAIN g |-> IF k \in DOMAIN g THEN g[k] ELSE f[k]]
Put(f, a, v) == Merge(f, [k \in {a} |-> v])

NoKey == [delta_x |-> <<>>, ls_com |-> <<>>]
NoOpening == [ls_com |-> <<>>, delta_x |-> <<>>, alpha1 |-> <<>>]

\* The hidden evaluation of e, for the verifier.
None == -1
HiddenOf(e) == IF call = "eval" THEN i_star[e] ELSE None

\* The leaf seeds of execution e as the tree of the call returns them.
LeafSeed(e, i) == IF i = HiddenOf(e) THEN ZeroSeed ELSE Seed(e, i)

\* PIOP material to be opened with the line: one value for each execution.
Alpha1 == [e \in Execs |-> e]

Fails == rc' = -1

-----------------------------------------------------------------------------
(***************************************************************************)
(* Calls.                                                                  *)
(***************************************************************************)
StateInit ==
  /\ fam \in Families
  /\ build \in Builds
  /\ call = "none" /\ pc = "done"
  /\ exec = 0 /\ rc = -1 /\ oom = FALSE
  /\ held = {} /\ dirty = {}
  /\ key = NoKey
  /\ com1 = <<>> /\ line = <<>>
  /\ i_star = [e \in Execs |-> 0]
  /\ opening = NoOpening
  /\ com1_v = <<>> /\ evals = <<>> /\ alpha1_v = <<>>

\* The call before this one returned 0.
Returned(c) == call = c /\ pc = "done" /\ rc = 0

Enter(c) ==
  /\ call' = c
  /\ exec' = 0 /\ rc' = -1
  /\ UNCHANGED <<fam, oom, com1, line, com1_v, evals, alpha1_v>>

StartCommit ==
  /\ call = "none"
  /\ Enter("commit")
  /\ UNCHANGED <<build, key, i_star, opening>>

\* The challenge is drawn from the commitments.  A signer that was told 0 by a
\* Commit that wrote nothing is not followed further.
StartOpen ==
  /\ Returned("commit") /\ ~oom
  /\ Enter("open")
  /\ i_star' \in Challenges
  /\ UNCHANGED <<build, key, opening>>

\* The verifier is another program; it has the opening, the salt and the
\* challenge.
StartEval ==
  /\ Returned("open")
  /\ Enter("eval")
  /\ build' \in Builds
  /\ UNCHANGED <<key, i_star, opening>>

\* The err label of a call: release and wipe, then return.
Return(released, wiped) ==
  /\ pc = "cleanup"
  /\ pc' = "done"
  /\ held' = held \ released
  /\ dirty' = dirty \ wiped
  /\ UNCHANGED <<control, outputs, call, exec, rc>>

-----------------------------------------------------------------------------
(***************************************************************************)
(* Opening: the parts of it that are not the path.                         *)
(***************************************************************************)
\* Kept from Commit, or computed again from the seed of the hidden leaf, which
\* the walk that extracts the path returns.
HiddenCommitment(e) ==
  IF build.keep THEN key.ls_com[e][i_star[e] + 1]
                ELSE SeedCommit(e, Seed(e, i_star[e]))

\* The loop over the executions; without a kept tree it derives the path and
\* commits to the hidden seed.
OpenExec ==
  /\ call = "open" /\ pc = "open"
  /\ \/ /\ exec < TAU
        /\ opening' = [ls_com  |-> Put(opening.ls_com, exec, HiddenCommitment(exec)),
                       delta_x |-> Put(opening.delta_x, exec, key.delta_x[exec]),
                       alpha1  |-> Put(opening.alpha1, exec, Alpha1[exec])]
        /\ exec' = exec + 1
        /\ rc' = 0
        /\ UNCHANGED pc
        /\ held' = IF build.keep THEN held ELSE held \cup {"seedcommit_ctx"}
        /\ dirty' = IF build.keep THEN dirty ELSE dirty \cup {"hidden_lseeds"}
     \/ /\ exec = TAU
        /\ pc' = "cleanup" /\ rc' = 0
        /\ UNCHANGED <<opening, exec, held, dirty>>
     \/ /\ exec < TAU
        /\ pc' = "cleanup" /\ Fails
        /\ held' \in {held, IF build.keep THEN held ELSE held \cup {"seedcommit_ctx"}}
        /\ dirty' = IF build.keep THEN dirty ELSE dirty \cup {"hidden_lseeds"}
        /\ UNCHANGED <<opening, exec>>
  /\ UNCHANGED <<control, call, key, com1, line, i_star, com1_v, evals, alpha1_v>>

OpenCleanup == call = "open" /\ Return({"seedcommit_ctx"}, {"hidden_lseeds"})

-----------------------------------------------------------------------------
(***************************************************************************)
(* The end of a conversion.                                                *)
(***************************************************************************)
\* The signer's line of execution e, from P0, the last accumulator and the
\* commitments coms: x0, u0, u1, and delta_x, which goes to the key.
SignedLine(e, p0, sum, coms) ==
  \E delta_x \in {[b \in XBlocks |-> Xor(Witness[b], sum[b])]} :
    /\ line' = Put(line, e, [p0 |-> p0, u1 |-> sum[UBlock], delta_x |-> delta_x])
    /\ key' = [delta_x |-> Put(key.delta_x, e, Sent(fam, delta_x)),
               ls_com |-> IF build.keep THEN Put(key.ls_com, e, coms) ELSE <<>>]

\* The last loop of Eval parses what was sent along.
ParsedAlpha1 == opening.alpha1

=============================================================================
