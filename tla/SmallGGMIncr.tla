----------------------------- MODULE SmallGGMIncr -----------------------------
(***************************************************************************)
(* The iterators over a small tree, which keep the path to the last leaf   *)
(* only (src/ggm_tree/ggm_tree_small_incr.c), and those that return a      *)
(* whole subtree per call (ggm_tree_small_incr_batch.c).  The signer's has *)
(* the master seed, the verifier's an opening (partial).                   *)
(***************************************************************************)
EXTENDS SmallGGMExpand

CONSTANT BatchLogs  \* the builds: values of BATCH_LOG

ASSUME BatchAssumption == BatchLogs \subseteq 0..LOG-1

VARIABLES
  BATCH_LOG,         \* SMALL_GGM_TREE_NB_SIMULTANEOUS_LEAVES_LOG of the build;
                     \* 0 for the one-leaf iterators
  partial,           \* which of the two contexts is driven
  \* small_ggmtree_ctx_t and small_ggmtree_ctx_partial_t, whose opening and
  \* i_star are those of the tree
  active, num_leaf, path,
  lseeds, ret,       \* what the last call wrote and returned
  key_failed         \* a call has returned 0 although a key schedule failed

iterator == <<BATCH_LOG, partial, active, num_leaf, path, lseeds, ret, key_failed>>
vars == <<treeVars, iterator>>

Batch == Pow2[BATCH_LOG]
Units == NB_EVALS \div Batch  \* calls that return leaves
PATH  == LOG - BATCH_LOG      \* level of the root of what a call returns

-----------------------------------------------------------------------------
(***************************************************************************)
(* The keys a context keeps from one call to the next: the level whose     *)
(* tweaked salt is in each slot.  The one-leaf iterators keep the salts of *)
(* the first levels and the key schedules of the others, the batch ones    *)
(* the key schedules of the last levels, from the leaves up.               *)
(***************************************************************************)
SALTS == LOG - 1 - NB_ENC_CTX  \* GGMTREE_NB_TWEAKED_SALTS_IN_MEMORY

tweaked_salts == [s \in 0..LOG |-> IF s < SALTS THEN s + 1 ELSE Junk]
ctx_enc == [s \in 0..LOG |-> IF s >= NB_ENC_CTX THEN Junk
                             ELSE IF BATCH_LOG = 0 THEN s + 1 + SALTS ELSE LOG - 1 - s]

\* (wrong on purpose) One level more is looked up in the cache.
Cached_Inclusive(lev) == LOG - 1 <= lev + NB_ENC_CTX

Cached(lev) == LOG - 1 < lev + NB_ENC_CTX

KeyOf(lev) ==
  IF BATCH_LOG = 0
  THEN IF lev < SALTS + 1 THEN tweaked_salts[lev - 1] ELSE ctx_enc[lev - 1 - SALTS]
  ELSE IF Cached(lev) THEN ctx_enc[LOG - 1 - lev] ELSE lev

-----------------------------------------------------------------------------
(***************************************************************************)
(* From a path to leaves.                                                  *)
(***************************************************************************)
\* The node of a path at level l, from the one above.
DeriveNode(p, l) == [p EXCEPT ![l] = SeedDerive(KeyOf(l - 1), p[l - 1])]

\* The path derived from level lev down to level `to`.
DeriveDown(p, lev, to) ==
  LET down[l \in 0..to-lev] == IF l = 0 THEN p ELSE DeriveNode(down[l - 1], lev + l)
  IN  down[to - lev]

Children(lev, seed) == LET left == SeedDerive(KeyOf(lev), seed)
                     IN  <<left, XorBlocks(seed, left)>>

\* One level of a subtree from the one above.
NextLevel(seeds, lev) ==
  [c \in 1..2*Len(seeds) |-> Children(lev, seeds[(c + 1) \div 2])[2 - (c % 2)]]

Subtree(root) ==
  LET level[l \in 0..BATCH_LOG] ==
        IF l = 0 THEN <<root>> ELSE NextLevel(level[l - 1], PATH + l - 1)
  IN  level[BATCH_LOG]

\* (wrong on purpose) The opening is not put back, so a level below the hidden
\* node is all noise but one zero.
Corrected_ZeroOnly(seeds, lev) ==
  LET hidden_node_idx == (i_star \div Pow2[LOG - 1 - lev]) % Len(seeds)
  IN  [seeds EXCEPT ![hidden_node_idx + 1] = ZeroSeed]

\* Below the hidden node the level is corrected: the seed of the opening beside
\* the hidden one, zero for the hidden one.
Corrected(seeds, lev) ==
  LET hidden_node_idx == (i_star \div Pow2[LOG - 1 - lev]) % Len(seeds)
  IN  [seeds EXCEPT ![Sibling(hidden_node_idx) + 1] = opening[LOG - 1 - lev],
                    ![hidden_node_idx + 1] = ZeroSeed]

HiddenSubtree ==
  LET level[l \in 0..BATCH_LOG] ==
        IF l = 0 THEN <<ZeroSeed>>
        ELSE Corrected(NextLevel(level[l - 1], PATH + l - 1), PATH + l - 1)
  IN  level[BATCH_LOG]

-----------------------------------------------------------------------------
(***************************************************************************)
(* Initialisation and the calls.                                           *)
(***************************************************************************)
\* A context is initialised once the opening is there; the build and the side
\* it is for are fixed.
Init ==
  /\ TreeInit
  /\ BATCH_LOG \in BatchLogs
  /\ partial \in BOOLEAN /\ (~partial => i_star = 0)
  /\ active = FALSE /\ num_leaf = Junk
  /\ path = Unwritten(0..PATH)
  /\ lseeds = <<>> /\ ret = "idle" /\ key_failed = FALSE

Given == UNCHANGED <<treeVars, BATCH_LOG, partial>>

\* The signer's path gets its first two nodes, the verifier's is not touched,
\* nor is num_leaf by the one-leaf iterators.  Initialisation may fail, and is
\* done again, on another context and for another buffer, after Clean.
InitIncremental ==
  /\ pc = "done" /\ ret # "running"
  /\ \/ /\ ret' = "ready"
        /\ active' = FALSE
        /\ num_leaf' = IF BATCH_LOG = 0 THEN num_leaf ELSE 0
        /\ path' = IF partial THEN path
                   ELSE [Unwritten(0..PATH) EXCEPT ![0] = delta, ![1] = SeedDerive(0, mseed)]
     \/ /\ ret' = "error"
        /\ UNCHANGED <<active, num_leaf, path>>
  /\ key_failed' = FALSE
  /\ UNCHANGED lseeds /\ Given

\* A failed iterator is cleaned by its caller, never called again.
Call ==
  /\ ret \notin {"idle", "running", "error"}
  /\ ret' = "running"
  /\ UNCHANGED <<active, num_leaf, path, lseeds, key_failed>> /\ Given

\* (wrong on purpose) The last unit is never returned.
Exhausted_OneEarly == active /\ num_leaf + 2 >= Units

Exhausted == active /\ num_leaf + 1 >= Units

\* The first level at which the paths to two units part.
Fork(u, v) == CHOOSE lev \in 1..PATH :
  /\ u \div Pow2[PATH - lev] # v \div Pow2[PATH - lev]
  /\ \A l \in 1..lev-1 : u \div Pow2[PATH - l] = v \div Pow2[PATH - l]

NextUnit == IF active THEN num_leaf + 1 ELSE 0
From     == IF active THEN Fork(num_leaf, num_leaf + 1) ELSE 1
Hidden   == i_star \div Batch

\* The left child at level lev becomes the right one.
TurnRight(p, lev) == [p EXCEPT ![lev] = XorBlocks(p[lev - 1], p[lev])]

\* The path a call derives on, and the level it starts from.  A unit that holds
\* the hidden leaf has no path, only a subtree.
Resumed == [from |-> From, path |-> IF active THEN TurnRight(path, From) ELSE path]

\* (wrong on purpose) The opening is used only on entering a subtree from above.
ResumedPartial_FromAboveOnly ==
  LET higher == Fork(NextUnit, Hidden)
  IN  IF From < higher
      THEN [from |-> higher, path |-> [path EXCEPT ![higher] = opening[LOG - higher]]]
      ELSE [from |-> From, path |-> TurnRight(path, From)]

\* A unit in a subtree entered just now starts from the opening; one in the
\* subtree of the unit before goes on from its path.
ResumedPartial ==
  LET higher == Fork(NextUnit, Hidden)
  IN  IF From <= higher
      THEN [from |-> higher, path |-> [path EXCEPT ![higher] = opening[LOG - higher]]]
      ELSE [from |-> From, path |-> TurnRight(path, From)]

Started == IF ~partial THEN Resumed
           ELSE IF NextUnit = Hidden THEN [from |-> PATH, path |-> path]
           ELSE ResumedPartial

Begun ==
  /\ ret = "running"
  /\ ~Exhausted
  /\ active' = TRUE /\ num_leaf' = NextUnit
  /\ Given

GetNextLeaf ==
  /\ Begun
  /\ ~partial
  /\ path' = DeriveDown(Started.path, Started.from, PATH)
  /\ lseeds' = Subtree(path'[PATH])
  /\ ret' = "leaf"
  /\ UNCHANGED key_failed

GetNextLeafPartial ==
  /\ Begun
  /\ partial
  /\ path' = DeriveDown(Started.path, Started.from, PATH)
  /\ lseeds' = IF NextUnit = Hidden THEN HiddenSubtree ELSE Subtree(path'[PATH])
  /\ ret' = "leaf"
  /\ UNCHANGED key_failed

\* A key schedule or the cipher fails at level lev: the leaf number has moved on,
\* the path is derived down to there, the subtree half written.  The batch
\* iterators leave by ERR_NULL when they cannot compute a schedule they have not
\* cached: ret is then still 0 from the derivation before, if there was one.
GetNextLeafFails ==
  /\ Begun
  /\ \E lev \in Started.from..LOG-1 :
       /\ path' = DeriveDown(Started.path, Started.from, IF lev < PATH THEN lev ELSE PATH)
       /\ lseeds' = IF lev < PATH THEN lseeds ELSE <<>>
       /\ \/ ret' = "error" /\ UNCHANGED key_failed
          \/ /\ BATCH_LOG > 0 /\ ~Cached(lev) /\ lev > Started.from
             /\ ret' = "leaf" /\ key_failed' = TRUE

GetNextLeafDone ==
  /\ ret = "running"
  /\ Exhausted
  /\ ret' = "done"
  /\ UNCHANGED <<active, num_leaf, path, lseeds, key_failed>> /\ Given

Iterate ==
  \/ InitIncremental \/ Call
  \/ GetNextLeaf \/ GetNextLeafPartial \/ GetNextLeafDone
  \/ GetNextLeafFails

Next == (TreeNext /\ UNCHANGED iterator) \/ Iterate

Spec == Init /\ [][Next]_vars
             /\ WF_vars(GetNextLeaf \/ GetNextLeafPartial \/ GetNextLeafDone)

-----------------------------------------------------------------------------
\* Once active, the context's leaf number is one of its units.
TypeOK ==
  /\ TreeTypeOK
  /\ BATCH_LOG \in BatchLogs /\ partial \in BOOLEAN /\ active \in BOOLEAN
  /\ num_leaf \in 0..Units-1 \/ (num_leaf = Junk /\ ~active)
  /\ path \in [0..PATH -> SmallSeeds]
  /\ lseeds \in Seq(SmallSeeds)
  /\ ret \in {"idle", "ready", "running", "leaf", "done", "error"}
  /\ key_failed \in BOOLEAN

Root(u, l) == (Units + u) \div Pow2[PATH - l]

\* What the next call relies on: the signer's path is the path to the unit
\* returned last; the verifier's is from where it leaves the hidden one.
PathIsCurrent ==
  active /\ ret # "error" /\ ~key_failed =>
    \A l \in 1..PATH :
      ~partial \/ (num_leaf # Hidden /\ l >= Fork(num_leaf, Hidden)) =>
        path[l] = Root(num_leaf, l)

\* A context holds what the next call relies on: a leaf number that is one of its
\* units, and the path to that unit.
PathInvariant == TypeOK /\ PathIsCurrent

\* Every unit is returned with the seeds of its leaves in the kept tree, the
\* hidden leaf with zero.
Unit(u) == [l \in 1..Batch |->
  LET leaf == u * Batch + l - 1
  IN  IF partial /\ leaf = i_star THEN ZeroSeed ELSE NB_EVALS + leaf]

Stream == INSTANCE LeafStream WITH
  expected  <- [u \in 0..Units-1 |-> Unit(u)],
  num_leaf  <- IF active /\ ~key_failed THEN num_leaf + 1 ELSE 0,
  lseed_out <- IF key_failed THEN <<>> ELSE lseeds,
  ret       <- IF key_failed THEN "error" ELSE IF ret = "idle" THEN "ready" ELSE ret

\* The iterators return the leaves in order, each once, and then stop; a call in
\* which a key schedule fails is a failed one, whatever it returns.
LeavesInOrder == Stream!Spec
=============================================================================
