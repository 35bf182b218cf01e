------------------------------ MODULE BLCDefault ------------------------------
(***************************************************************************)
(* The default implementations: whole trees on the heap, then execution    *)
(* after execution ConvertToLine (ConvertToLineEval for the verifier) in   *)
(* groups of GROUP leaves.                                                 *)
(*                                                                         *)
(* Two builds: with keep the key holds the trees and the leaf commitments, *)
(* and Hash_7 is computed for all executions after the loop; without it    *)
(* the commitments of an execution are in one buffer, hashed at once.  The *)
(* cache holds the key schedules of SeedExpand by block only and is        *)
(* emptied between executions.                                             *)
(***************************************************************************)
EXTENDS BLCState

CONSTANT GROUP
ASSUME GroupAssumption == GROUP = 8

VARIABLES
  todo,              \* the allocations still to be made, in order
  group,             \* first leaf of the next group
  cache,             \* block -> the key whose schedule is in its cell
  acc, data_folding,
  ls_com,            \* of this execution
  lsc_ptrs,          \* what waits for the verifier's next batch of Hash_7
  batch_start        \* the execution of its first entry

folding == <<group, acc, data_folding>>
batched == <<lsc_ptrs, batch_start>>
work    == <<todo, folding, cache, ls_com, batched>>

NoCache    == <<>>
EmptyCache == [b \in Blocks |-> None]

DefaultInit ==
  /\ todo = <<>> /\ group = 0
  /\ cache = NoCache
  /\ acc = ZeroRow /\ data_folding = ZeroBuckets
  /\ ls_com = <<>> /\ lsc_ptrs = <<>> /\ batch_start = 0

InDefault(c, p) == build.impl = "default" /\ call = c /\ pc = p
At(p)   == build.impl = "default" /\ pc = p
Signing == call = "commit"

ConvertLocals   == {"exp", "acc", "data_folding"}
ConvertContexts == {"ctx_sc1", "ctx_sc2"}

-----------------------------------------------------------------------------
(***************************************************************************)
(* Allocations and trees.                                                  *)
(***************************************************************************)
Unless(cond, s) == IF cond THEN <<>> ELSE s

\* What Commit allocates before it derives a tree.
CommitAllocations ==
  IF fam = "CT"
  THEN Unless(build.keep, <<"node_e", "ls_com_e">>) \o <<"lseed">>
  ELSE <<"lseed_all">> \o Unless(build.keep, <<"ls_com_e">>)

EvalAllocations ==
  IF fam = "CT" THEN <<"lseed", "ls_com_batch">>
                ELSE <<"lseed_all", "lseed_e", "ls_com_batch">>

\* init_SeedExpand_cache of build c: NULL is as good as no cache.
InitCache(c) ==
  \/ cache' = NoCache /\ UNCHANGED held
  \/ c.cache /\ cache' = EmptyCache /\ held' = held \cup {"cache"}

DefaultCommit ==
  /\ build.impl = "default"
  /\ StartCommit
  /\ pc' = "alloc"
  /\ todo' = CommitAllocations
  /\ key' = NoKey
  /\ dirty' = dirty \cup IF fam = "CT" THEN {"delta"} ELSE {}
  /\ UNCHANGED <<held, folding, cache, ls_com, batched>>

DefaultEval ==
  /\ StartEval
  /\ build'.impl = "default"
  /\ pc' = "alloc"
  /\ todo' = EvalAllocations
  /\ lsc_ptrs' = <<>> /\ batch_start' = 0
  /\ InitCache(build')
  /\ UNCHANGED <<dirty, folding, ls_com>>

\* ERR_NULL leaves ret as it is.
Allocate ==
  /\ At("alloc") /\ todo # <<>>
  /\ \/ /\ held' = held \cup {Head(todo)}
        /\ todo' = Tail(todo)
        /\ UNCHANGED <<pc, oom>>
     \/ /\ pc' = "cleanup"
        /\ oom' = (rc = 0)
        /\ UNCHANGED <<held, todo>>
  /\ UNCHANGED <<fam, build, outputs, call, exec, rc, dirty, folding, cache, ls_com,
                 batched>>

\* All is allocated: to the loop, or (OT) to the tree of all executions first.
Allocated ==
  /\ At("alloc") /\ todo = <<>>
  /\ pc' = IF fam = "OT" /\ rc = -1 THEN "tree" ELSE "loop"
  /\ IF Signing /\ pc' = "loop" THEN InitCache(build) ELSE UNCHANGED <<cache, held>>
  /\ UNCHANGED <<control, outputs, call, exec, rc, dirty, todo, folding, ls_com, batched>>

\* OT: one expansion for all executions; Commit allocates once more after it.
ExpandAll ==
  /\ At("tree")
  /\ dirty' = IF Signing THEN dirty \cup {"lseed_all"} ELSE dirty
  /\ \/ /\ rc' = 0
        /\ pc' = "alloc"
        /\ todo' = IF Signing THEN <<"lseed_e">> ELSE <<>>
     \/ Fails /\ pc' = "cleanup" /\ UNCHANGED todo
  /\ UNCHANGED <<control, outputs, call, exec, held, folding, cache, ls_com, batched>>

\* The secrets that the leaves of an execution put on the heap.
LeafBuffers ==
  IF fam = "OT" THEN {"lseed_e"}
  ELSE IF build.keep THEN {"lseed"} ELSE {"lseed", "node_e"}

\* The leaf seeds of one execution: CT derives its tree, OT picks every TAU-th
\* leaf.  ConvertToLine then schedules the two keys of SeedCommit.
LeavesOfExec ==
  /\ At("loop") /\ exec < TAU
  /\ dirty' = IF Signing THEN dirty \cup LeafBuffers ELSE dirty
  /\ acc' = ZeroRow /\ data_folding' = ZeroBuckets /\ ls_com' = <<>>
  /\ group' = 0
  /\ \/ pc' = "group" /\ held' = held \cup ConvertContexts /\ rc' = 0
     \/ pc' = "cleanup" /\ Fails /\ UNCHANGED held
  /\ UNCHANGED <<control, outputs, call, exec, todo, cache, batched>>

-----------------------------------------------------------------------------
(***************************************************************************)
(* ConvertToLine.                                                          *)
(***************************************************************************)
\* SeedExpand_key_sched: an active cell is used as it is, another is filled.
Scheduled(b) ==
  IF cache # NoCache /\ cache[b] # None THEN cache[b] ELSE IndexIdentifier(exec, b)

\* The row of leaf i; the verifier zeroes that of the hidden leaf.
ExpandedRow(i) ==
  IF i = HiddenOf(exec) THEN ZeroRow
  ELSE Row(fam, [b \in Blocks |-> Scheduled(b)], LeafSeed(exec, i))

\* The commitment of leaf i; that of the hidden one is in the opening.
LeafCommitment(i) ==
  IF i = HiddenOf(exec) THEN opening.ls_com[exec] ELSE SeedCommit(exec, LeafSeed(exec, i))

\* The bucket of the leaf at place p of a group: the first seven are the ruler
\* sequence, the last is computed.
gpos(i) == IF (i + 1) % GROUP = 0 THEN get_gray_code_bit_position(i)
           ELSE <<0, 1, 0, 2, 0, 1, 0>>[(i % GROUP) + 1]

ConvertGroup ==
  /\ At("group") /\ group < NB_EVALS
  /\ LET leaf(p) == group + p - 1
     IN  \E snapshots \in {Snapshots(acc, [p \in 1..GROUP |-> ExpandedRow(leaf(p))])} :
           /\ acc' = Last(snapshots)
           /\ data_folding' = Bucketed(data_folding, snapshots,
                                       [p \in 1..GROUP |-> gpos(leaf(p))])
           /\ ls_com' = ls_com \o [p \in 1..GROUP |-> LeafCommitment(leaf(p))]
  /\ cache' = IF cache = NoCache THEN cache ELSE [b \in Blocks |-> Scheduled(b)]
  /\ group' = group + GROUP
  /\ dirty' = IF Signing THEN dirty \cup ConvertLocals ELSE dirty
  /\ UNCHANGED <<control, outputs, call, pc, exec, rc, held, todo, batched>>

\* A cipher call of the group fails: ConvertToLine wipes and releases its own.
ConvertFails ==
  /\ At("group") /\ group < NB_EVALS
  /\ Fails
  /\ pc' = "cleanup"
  /\ held' = held \ ConvertContexts
  /\ dirty' = dirty \ ConvertLocals
  /\ UNCHANGED <<control, outputs, call, exec, work>>

\* x0, u0, u1 and delta_x; for the verifier x_eval and u_eval.
ConvertEnd ==
  /\ At("group") /\ group = NB_EVALS
  /\ IF Signing
     THEN /\ SignedLine(exec, FoldedP0(data_folding), acc, ls_com)
          /\ UNCHANGED evals
     ELSE /\ evals' = Put(evals, exec, EvaluatedAt(i_star[exec], FoldedP0(data_folding),
                                                   acc, opening.delta_x[exec]))
          /\ UNCHANGED <<key, line>>
  /\ pc' = "hash"
  /\ held' = held \ ConvertContexts
  /\ dirty' = dirty \ ConvertLocals
  /\ UNCHANGED <<control, call, exec, rc, com1, i_star, opening, com1_v, alpha1_v, work>>

-----------------------------------------------------------------------------
(***************************************************************************)
(* Hash_7, and the next execution.                                         *)
(***************************************************************************)
\* (wrong on purpose) The schedules stay for the next execution.
reset_SeedExpand_cache_Kept(c) == c

\* Every cell of the cache is invalidated.
reset_SeedExpand_cache(c) == IF c = NoCache THEN c ELSE EmptyCache

NextExec ==
  /\ cache' = reset_SeedExpand_cache(cache)
  /\ exec' = exec + 1
  /\ pc' = "loop"

\* Commit: a buffer of commitments that is used again is hashed now.
HashSign ==
  /\ InDefault("commit", "hash")
  /\ com1' = IF build.keep THEN com1
             ELSE Put(com1, exec, Hash_7(exec, ls_com, key.delta_x[exec]))
  /\ NextExec
  /\ UNCHANGED <<control, call, rc, held, dirty, key, line, i_star, opening, com1_v,
                 evals, alpha1_v, todo, folding, ls_com, batched>>

\* (wrong on purpose) The entries are numbered from 0.
BLC_Hash_com1_batch_FromZero(base, entries) ==
  [e \in base..base + Len(entries) - 1 |->
     Hash_7(e - base, entries[e - base + 1].ls_com, entries[e - base + 1].delta_x)]

\* The digests of entries, the first of them of execution base.
BLC_Hash_com1_batch(base, entries) ==
  [e \in base..base + Len(entries) - 1 |->
     Hash_7(e, entries[e - base + 1].ls_com, entries[e - base + 1].delta_x)]

\* Eval: in batches of h7, and what is left after the last execution.
HashEval ==
  /\ InDefault("eval", "hash")
  /\ LET entries == Append(lsc_ptrs, [ls_com |-> ls_com, delta_x |-> opening.delta_x[exec]])
     IN  IF Len(entries) = build.h7 \/ exec = TAU - 1
         THEN /\ com1_v' = Merge(com1_v, BLC_Hash_com1_batch(batch_start, entries))
              /\ lsc_ptrs' = <<>>
              /\ batch_start' = exec + 1
         ELSE /\ lsc_ptrs' = entries
              /\ UNCHANGED <<com1_v, batch_start>>
  /\ NextExec
  /\ UNCHANGED <<control, call, rc, held, dirty, key, com1, line, i_star, opening,
                 evals, alpha1_v, todo, folding, ls_com>>

\* After the loop: Commit of a build that keeps the commitments hashes them all,
\* Eval parses what was sent along.
LoopEnd ==
  /\ At("loop") /\ exec = TAU
  /\ com1' = IF Signing /\ build.keep
             THEN BLC_Hash_com1_batch(0, [k \in 1..TAU |-> [ls_com  |-> key.ls_com[k-1],
                                                            delta_x |-> key.delta_x[k-1]]])
             ELSE com1
  /\ alpha1_v' = IF Signing THEN alpha1_v ELSE ParsedAlpha1
  /\ rc' = 0
  /\ pc' = "cleanup"
  /\ UNCHANGED <<control, call, exec, held, dirty, key, line, i_star, opening, com1_v,
                 evals, work>>

\* A hash fails, that of an execution or that of all.
HashFails ==
  /\ \/ At("hash")
     \/ InDefault("commit", "loop") /\ exec = TAU /\ build.keep
  /\ Fails
  /\ pc' = "cleanup"
  /\ UNCHANGED <<control, outputs, call, exec, held, dirty, work>>

-----------------------------------------------------------------------------
CommitReleases ==
  IF fam = "CT" THEN {"cache", "node_e", "ls_com_e", "lseed"}
                ELSE {"cache", "lseed_all", "lseed_e", "ls_com_e"}

CommitWipes ==
  IF fam = "CT" THEN {"delta", "node_e", "lseed"} ELSE {"lseed_all", "lseed_e"}

EvalReleases == {"cache", "lseed", "lseed_all", "lseed_e", "ls_com_batch"}

DefaultCleanup ==
  /\ build.impl = "default"
  /\ \/ call = "commit" /\ Return(CommitReleases, CommitWipes)
     \/ call = "eval" /\ Return(EvalReleases, {})
  /\ UNCHANGED work

DefaultNext ==
  \/ DefaultCommit
  \/ DefaultEval
  \/ Allocate
  \/ Allocated
  \/ ExpandAll
  \/ LeavesOfExec
  \/ ConvertGroup
  \/ ConvertFails
  \/ ConvertEnd
  \/ HashSign
  \/ HashEval
  \/ LoopEnd
  \/ HashFails
  \/ DefaultCleanup

=============================================================================
