------------------------------- MODULE BLCMemopt ------------------------------
(***************************************************************************)
(* The memory-optimised implementations: the leaves come out of an         *)
(* iterator, are committed to and folded as they come, and only contexts   *)
(* of a few blocks are kept.                                               *)
(*                                                                         *)
(* A pass goes over one tree.  CT: a pass for each execution, the tree     *)
(* gives `sim` leaves at a time and they are taken `par` at a time.  OT:   *)
(* the one tree interleaves all executions; a pass serves `batch` of them, *)
(* with a slot for each, and skips the leaves of the others.               *)
(***************************************************************************)
EXTENDS BLCState

VARIABLES
  sc,            \* slot -> the hash of the commitments
  fold,          \* slot -> accumulator, buckets (fast) or P0 (slow)
  lseed_buf,     \* slot -> leaf seeds not processed yet; buf_count is its length
  flush_count,   \* slot -> how many times it was processed
  abs_leaf,      \* leaves drawn from the tree
  contexts       \* the cipher and hash contexts alive: <<kind, slot>>

streams == <<sc, fold, lseed_buf, flush_count>>
pass    == <<streams, abs_leaf, contexts>>

MemoptInit ==
  /\ sc = <<>> /\ fold = <<>> /\ lseed_buf = <<>> /\ flush_count = <<>>
  /\ abs_leaf = 0
  /\ contexts = {}

ot_batch_min(a, b) == IF a < b THEN a ELSE b

\* The executions of the pass that starts at exec, the leaves of its tree.
Batch  == IF fam = "CT" THEN 1 ELSE ot_batch_min(build.batch, TAU - exec)
Slots  == 0..Batch - 1
Leaves == IF fam = "CT" THEN NB_EVALS ELSE TAU * NB_EVALS

InMemopt(p) == build.impl = "memopt" /\ call \in {"commit", "eval"} /\ pc = p

-----------------------------------------------------------------------------
(***************************************************************************)
(* The two streams of a slot.                                              *)
(***************************************************************************)
InitSeedCommit(e)    == [e |-> e, absorbed |-> <<>>]
InitializeFolding(e) == [e |-> e, acc |-> ZeroRow, data |-> ZeroBuckets, p0 |-> ZeroExt]

\* The commitments of seeds, the first one of leaf i; that of the hidden leaf is
\* replaced before it is hashed.
SeedCommitThenAbsorb(s, i, seeds) ==
  [s EXCEPT !.absorbed = @ \o
     [k \in DOMAIN seeds |-> IF i + k - 1 = HiddenOf(s.e) THEN opening.ls_com[s.e]
                             ELSE SeedCommit(s.e, seeds[k])]]

\* Slow folding has no buckets: each snapshot is scaled and added at once.
SlowFold(p0, snapshots, pos) ==
  LET v[k \in 0..Len(snapshots)] ==
        IF k = 0 THEN p0 ELSE ExtAdd(v[k - 1], Scaled(pos[k], snapshots[k]))
  IN  v[Len(snapshots)]

\* The rows of seeds, the first one of leaf i; the hidden one adds nothing.
SeedExpandThenAccumulate(f, i, seeds) ==
  LET rows == [k \in DOMAIN seeds |-> IF i + k - 1 = HiddenOf(f.e) THEN ZeroRow
                                      ELSE Row(fam, KeysOf(f.e), seeds[k])]
      pos  == [k \in DOMAIN seeds |-> get_gray_code_bit_position(i + k - 1)]
      snapshots == Snapshots(f.acc, rows)
  IN  [e    |-> f.e,
       acc  |-> Last(snapshots),
       data |-> IF build.fast THEN Bucketed(f.data, snapshots, pos) ELSE f.data,
       p0   |-> IF build.fast THEN f.p0 ELSE SlowFold(f.p0, snapshots, pos)]

\* P0 of a slot: from the buckets, or already there.
P0Of(f) == IF build.fast THEN FoldedP0(f.data) ELSE f.p0

-----------------------------------------------------------------------------
(***************************************************************************)
(* Calls and passes.                                                       *)
(***************************************************************************)
MemoptCommit ==
  /\ build.impl = "memopt"
  /\ StartCommit
  /\ pc' = "pass"
  /\ key' = NoKey
  /\ UNCHANGED <<held, dirty, pass>>

MemoptEval ==
  /\ StartEval
  /\ build'.impl = "memopt"
  /\ pc' = "pass"
  /\ UNCHANGED <<held, dirty, pass>>

\* What the signer's pass leaves on its stack.
PassLocals == {"fold_ctx", "tree_ctx", "lseeds"}

\* The contexts of a pass, one pair for each slot and the tree's.  A failure
\* comes after those of a part of the slots.
InitPass ==
  /\ InMemopt("pass") /\ exec < TAU
  /\ sc'          = [b \in Slots |-> InitSeedCommit(exec + b)]
  /\ fold'        = [b \in Slots |-> InitializeFolding(exec + b)]
  /\ lseed_buf'   = [b \in Slots |-> <<>>]
  /\ flush_count' = [b \in Slots |-> 0]
  /\ abs_leaf' = 0
  /\ \/ /\ rc' = 0
        /\ pc' = "leaves"
        /\ contexts' = {"sc_ctx", "fold_ctx", "tree_ctx"} \X Slots
     \/ /\ Fails
        /\ pc' = "pass_err"
        /\ \E b \in Slots : contexts' = {"sc_ctx", "fold_ctx"} \X (0..b)
  /\ UNCHANGED <<control, outputs, call, exec, held, dirty>>

Tainted == IF call = "commit" THEN dirty \cup PassLocals ELSE dirty

\* CT: `sim` leaves, processed `par` at a time.
NextLeafs ==
  /\ InMemopt("leaves") /\ fam = "CT" /\ abs_leaf < Leaves
  /\ LET chunks   == build.sim \div build.par
         first(c) == abs_leaf + (c - 1) * build.par
         seeds(c) == [k \in 1..build.par |-> LeafSeed(exec, first(c) + k - 1)]
         s[c \in 0..chunks] ==
           IF c = 0 THEN sc[0] ELSE SeedCommitThenAbsorb(s[c - 1], first(c), seeds(c))
         f[c \in 0..chunks] ==
           IF c = 0 THEN fold[0] ELSE SeedExpandThenAccumulate(f[c - 1], first(c), seeds(c))
     IN  /\ sc' = [sc EXCEPT ![0] = s[chunks]]
         /\ fold' = [fold EXCEPT ![0] = f[chunks]]
  /\ abs_leaf' = abs_leaf + build.sim
  /\ dirty' = Tainted
  /\ UNCHANGED <<control, outputs, call, pc, exec, rc, held, lseed_buf, flush_count,
                 contexts>>

\* OT: one leaf.
exec_e == abs_leaf % TAU
LeafSeedAt(leaf) == LeafSeed(leaf % TAU, leaf \div TAU)

SkipLeaf ==
  /\ InMemopt("leaves") /\ fam = "OT" /\ abs_leaf < Leaves
  /\ exec_e \notin exec..exec + Batch - 1
  /\ abs_leaf' = abs_leaf + 1
  /\ dirty' = Tainted
  /\ UNCHANGED <<control, outputs, call, pc, exec, rc, held, streams, contexts>>

\* A leaf of the batch; the seeds of a slot are processed when there are `par`
\* of them.
TakeLeaf ==
  /\ InMemopt("leaves") /\ fam = "OT" /\ abs_leaf < Leaves
  /\ exec_e \in exec..exec + Batch - 1
  /\ LET b     == exec_e - exec
         seeds == Append(lseed_buf[b], LeafSeedAt(abs_leaf))
         i     == flush_count[b] * build.par
     IN  IF Len(seeds) < build.par
         THEN /\ lseed_buf' = [lseed_buf EXCEPT ![b] = seeds]
              /\ UNCHANGED <<sc, fold, flush_count>>
         ELSE /\ sc' = [sc EXCEPT ![b] = SeedCommitThenAbsorb(@, i, seeds)]
              /\ fold' = [fold EXCEPT ![b] = SeedExpandThenAccumulate(@, i, seeds)]
              /\ lseed_buf' = [lseed_buf EXCEPT ![b] = <<>>]
              /\ flush_count' = [flush_count EXCEPT ![b] = @ + 1]
  /\ abs_leaf' = abs_leaf + 1
  /\ dirty' = Tainted
  /\ UNCHANGED <<control, outputs, call, pc, exec, rc, held, contexts>>

\* The iterator, a cipher or a hash fails; a finished iterator is a failure too.
PassFails ==
  /\ InMemopt("leaves")
  /\ Fails
  /\ pc' = "pass_err"
  /\ dirty' = Tainted
  /\ UNCHANGED <<control, outputs, call, exec, held, pass>>

-----------------------------------------------------------------------------
(***************************************************************************)
(* The end of a pass.                                                      *)
(***************************************************************************)
\* The slots in order, delta_x hashed after the commitments.
FinalizeSign ==
  /\ InMemopt("leaves") /\ abs_leaf = Leaves /\ call = "commit"
  /\ LET these      == exec..exec + Batch - 1
         delta_x(e) == [c \in XBlocks |-> Xor(Witness[c], fold[e - exec].acc[c])]
     IN  /\ line' = Merge(line, [e \in these |->
                      [p0 |-> P0Of(fold[e - exec]), u1 |-> fold[e - exec].acc[UBlock],
                       delta_x |-> delta_x(e)]])
         /\ key' = [key EXCEPT !.delta_x = Merge(@, [e \in these |-> Sent(fam, delta_x(e))])]
         /\ com1' = Merge(com1, [e \in these |->
                      Hash_7(sc[e - exec].e, sc[e - exec].absorbed, Sent(fam, delta_x(e)))])
  /\ rc' = 0
  /\ pc' = "pass_err"
  /\ UNCHANGED <<control, call, exec, held, dirty, i_star, opening, com1_v, evals,
                 alpha1_v, pass>>

FinalizeVerify ==
  /\ InMemopt("leaves") /\ abs_leaf = Leaves /\ call = "eval"
  /\ LET these == exec..exec + Batch - 1
     IN  /\ evals' = Merge(evals, [e \in these |->
                       EvaluatedAt(i_star[e], P0Of(fold[e - exec]), fold[e - exec].acc,
                                   opening.delta_x[e])])
         /\ com1_v' = Merge(com1_v, [e \in these |->
                       Hash_7(sc[e - exec].e, sc[e - exec].absorbed, opening.delta_x[e])])
  /\ rc' = 0
  /\ pc' = "pass_err"
  /\ UNCHANGED <<control, call, exec, held, dirty, key, com1, line, i_star, opening,
                 alpha1_v, pass>>

\* (wrong on purpose) Only the first slot is cleaned.
Cleaned_First == {"sc_ctx", "fold_ctx"} \X {0} \cup {"tree_ctx"} \X Slots

\* Both contexts of every slot, and the tree's.
Cleaned == {"sc_ctx", "fold_ctx", "tree_ctx"} \X Slots

\* Clean-up of a pass; the next one, or the end of the call.
PassErr ==
  /\ InMemopt("pass_err")
  /\ contexts' = contexts \ Cleaned
  /\ dirty' = dirty \ PassLocals
  /\ IF rc = 0
     THEN exec' = exec + Batch /\ pc' = "pass"
     ELSE pc' = "done" /\ UNCHANGED exec
  /\ UNCHANGED <<control, outputs, call, rc, held, streams, abs_leaf>>

PassesEnd ==
  /\ InMemopt("pass") /\ exec = TAU
  /\ alpha1_v' = IF call = "eval" THEN ParsedAlpha1 ELSE alpha1_v
  /\ rc' = 0
  /\ pc' = "done"
  /\ UNCHANGED <<control, call, exec, held, dirty, key, com1, line, i_star, opening,
                 com1_v, evals, pass>>

MemoptNext ==
  \/ MemoptCommit
  \/ MemoptEval
  \/ InitPass
  \/ NextLeafs
  \/ SkipLeaf
  \/ TakeLeaf
  \/ PassFails
  \/ FinalizeSign
  \/ FinalizeVerify
  \/ PassErr
  \/ PassesEnd

=============================================================================
