---------------------------- MODULE SmallGGMTree ----------------------------
(***************************************************************************)
(* The small GGM tree of the CT family, one per execution: its seeds, the  *)
(* key each level is derived under, and the opening of all leaves but one  *)
(* (src/ggm_tree/ggm_tree_small.c, ggm_tree_common.h).                     *)
(*                                                                         *)
(* The tree is a perfect heap of 2^LOG leaves without its root: the seed   *)
(* of node k is represented by k, and delta, which stands where the root   *)
(* would be when siblings are XORed, by 1.                                 *)
(***************************************************************************)
EXTENDS Integers, FiniteSets, Sequences

CONSTANTS
  LOG,         \* MQOM3_PARAM_NB_EVALS_LOG
  NB_ENC_CTX   \* GGMTREE_NB_ENC_CTX_IN_MEMORY: levels whose key schedule is kept

\* The powers of two, by a recursion that can be reasoned about.
Pow2[n \in 0..LOG+1] == IF n = 0 THEN 1 ELSE 2 * Pow2[n - 1]

NB_EVALS == Pow2[LOG]

ASSUME SmallTreeAssumption ==
  /\ LOG \in Nat /\ LOG >= 2
  /\ NB_ENC_CTX \in 0..LOG-2

LeafNumbers == 0..NB_EVALS-1
SmallNodes  == 2..2*NB_EVALS-1
Levels      == 0..LOG-1

delta == 1
mseed == -2
ZeroSeed == 0
Junk  == -1     \* a block that is no seed of the tree, or was never written
SmallSeeds == SmallNodes \cup {delta, mseed, ZeroSeed, Junk}

AtLevel(k, j) == k \in Pow2[j]..Pow2[j + 1]-1
Sibling(k) == IF k % 2 = 0 THEN k + 1 ELSE k - 1

\* SeedDerive under the key of level j: of a node at that level it is its left
\* child; level 0 derives from the master seed.
SeedDerive(key, seed) ==
  IF seed = mseed THEN (IF key = 0 THEN 2 ELSE Junk)
  ELSE IF key \in 1..LOG-1 /\ AtLevel(seed, key) THEN 2 * seed ELSE Junk

\* A child XOR its parent is its sibling.
XorBlocks(parent, child) ==
  IF child \in SmallNodes /\ child \div 2 = parent THEN Sibling(child) ELSE Junk

-----------------------------------------------------------------------------
\* The ancestor of leaf i at height j above the leaves.
Ancestor(i, j) == (NB_EVALS + i) \div Pow2[j]

\* (wrong on purpose) The ancestors themselves are revealed.
SmallGGMTree_Open_Ancestors(node, i_star) == [j \in Levels |-> node[Ancestor(i_star, j)]]

\* The siblings of the hidden path, from the leaf up.
SmallGGMTree_Open(node, i_star) == [j \in Levels |-> node[Sibling(Ancestor(i_star, j))]]

\* ExpandPath walks down from the root without a tree: at level j it derives
\* both children of `parent` and follows bit LOG-1-j of the leaf.
StepDown(i_star, acc, j) ==
  LET node0 == SeedDerive(j, IF j = 0 THEN mseed ELSE acc.parent)
      node1 == XorBlocks(acc.parent, node0)
      bit   == (i_star \div Pow2[LOG - 1 - j]) % 2
  IN  [parent |-> IF bit = 0 THEN node0 ELSE node1,
       path   |-> [acc.path EXCEPT ![LOG - 1 - j] = IF bit = 0 THEN node1 ELSE node0]]

SmallGGMTree_ExpandPath(i_star) ==
  LET walked[j \in 0..LOG] ==
        IF j = 0 THEN [parent |-> delta, path |-> [l \in Levels |-> Junk]]
        ELSE StepDown(i_star, walked[j - 1], j - 1)
  IN  walked[LOG]

=============================================================================
