---------------------------- MODULE LargeGGMTree ----------------------------
(***************************************************************************)
(* The large GGM tree of the OT family: its layout, the nodes that must    *)
(* stay secret when TAU leaves are hidden, and its seeds                   *)
(* (src/ggm_tree/ggm_tree_large.h, ggm_tree_large_common_impl.c).          *)
(*                                                                         *)
(* The tree has M = TAU * N leaves and is a heap: the children of node k   *)
(* are 2k and 2k+1, the root is 1.  M is not a power of two in general, so *)
(* its leaves are at two depths.                                           *)
(***************************************************************************)
EXTENDS Integers, FiniteSets, Sequences, SequencesExt

CONSTANTS
  TAU,     \* MQOM3_PARAM_TAU: hidden leaves, one per execution
  N,       \* MQOM3_PARAM_NB_EVALS: leaves per execution
  H,       \* LARGE_GGM_H = ceil(log2(TAU * N))
  T_OPEN   \* MQOM3_PARAM_LARGE_GGM_T_OPEN: seeds in an opening

M == TAU * N

\* The powers of two, by a recursion that can be reasoned about.
Pow2[n \in 0..H] == IF n = 0 THEN 1 ELSE 2 * Pow2[n - 1]

TwoH == Pow2[H]

ASSUME TreeAssumption ==
  /\ {TAU, N, H} \subseteq Nat \ {0}
  /\ T_OPEN \in Nat
  /\ TwoH \div 2 < M /\ M <= TwoH
  /\ T_OPEN <= M - TAU

Leaves == 0..M-1
Nodes  == 1..2*M-1

NB_DEEP_LEAVES == 2 * M - TwoH

\* Tree index of logical leaf i: the deep leaves come first.
LeafPosition(i) == IF i < NB_DEEP_LEAVES THEN TwoH + i ELSE TwoH + i - M

\* Logical index of leaf node k.
FromLeafPosition(k) == IF k < TwoH THEN k - TwoH + M ELSE k - TwoH

LeafDepth(i) == IF i < NB_DEEP_LEAVES THEN H ELSE H - 1

\* (wrong on purpose) The first shallow leaf taken for an internal node.
IsLeaf_Strict(k) == k > M

IsLeaf(k) == k >= M

-----------------------------------------------------------------------------
(***************************************************************************)
(* GetSensitiveNodeIndexes: the nodes on the path from the root to a       *)
(* hidden leaf.  The leaves are taken in increasing order; leaf_path keeps *)
(* the path of the last one, and a new path is walked upwards only until   *)
(* it meets it.                                                            *)
(***************************************************************************)

\* (wrong on purpose) The path of the leaf before is compared level by level
\* from the root, so the walk stops at the root.
WalkUp_StopsAtRoot(acc, i) ==
  LET depth == LeafDepth(i)
      up == [j \in 0..depth |-> LeafPosition(i) \div Pow2[depth - j]]
      merge_pos == IF acc.leaf_path[0] = up[0] THEN 0 ELSE -1
  IN  [leaf_path |-> [j \in 0..H |-> IF j <= depth THEN up[j]
                                                   ELSE acc.leaf_path[j]],
       nodes |-> acc.nodes \o [j \in 1..depth-merge_pos |-> up[merge_pos + j]]]

WalkUp(acc, i) ==
  LET depth == LeafDepth(i)
      \* The ancestor of the leaf at depth j.
      up == [j \in 0..depth |-> LeafPosition(i) \div Pow2[depth - j]]
      met == {j \in 0..depth : acc.leaf_path[j] = up[j]}
      merge_pos == IF met = {} THEN -1 ELSE CHOOSE j \in met : \A l \in met : l <= j
  IN  [leaf_path |-> [j \in 0..H |-> IF j \in merge_pos+1..depth
                                     THEN up[j] ELSE acc.leaf_path[j]],
       nodes |-> acc.nodes \o [j \in 1..depth-merge_pos |-> up[merge_pos + j]]]

\* walked[i] is what the leaves below i leave behind.
GetSensitiveNodeIndexes(hidden) ==
  LET walked[i \in 0..M] ==
        IF i = 0 THEN [leaf_path |-> [j \in 0..H |-> 0], nodes |-> <<>>]
        ELSE IF i - 1 \in hidden THEN WalkUp(walked[i - 1], i - 1) ELSE walked[i - 1]
  IN  walked[M].nodes

\* The number of seeds an opening needs at least: the nodes that hang off the
\* hidden paths.  The callers give up when it exceeds T_OPEN.
OpeningSize(hidden) == Len(GetSensitiveNodeIndexes(hidden)) - 2 * TAU + 1

LargeGGMIsValidOpeningSet(hidden) == OpeningSize(hidden) <= T_OPEN

-----------------------------------------------------------------------------
(***************************************************************************)
(* GetNodeIndexesInPath: the nodes of an opening, in the order of a        *)
(* left-first walk from the root.  hidden_nodes is the set of sensitive    *)
(* nodes; size is what the walk would reveal from where it is.             *)
(***************************************************************************)

\* A node that is not on a hidden path is revealed, unless the budget lets its
\* two children be revealed in its place.
Revealed(hidden_nodes, k, size) ==
  k \notin hidden_nodes /\ ~(size < T_OPEN /\ ~IsLeaf(k))

WalkRound(hidden_nodes, acc) ==
  LET k == Last(acc.stack)
      rest == Front(acc.stack)
  IN  IF acc.stack = <<>> THEN acc
      ELSE IF Revealed(hidden_nodes, k, acc.size)
      THEN [acc EXCEPT !.stack = rest, !.nodes = Append(@, k)]
      ELSE IF IsLeaf(k) THEN [acc EXCEPT !.stack = rest]
      ELSE [acc EXCEPT !.stack = rest \o <<2 * k + 1, 2 * k>>,
                       !.size = IF k \in hidden_nodes THEN @ ELSE @ + 1]

\* Before its first round.
WalkStart(hidden_nodes) ==
  [stack |-> <<1>>, nodes |-> <<>>, size |-> Cardinality(hidden_nodes) - 2 * TAU + 1]

\* No walk has more rounds than the tree has nodes.
GetNodeIndexesInPath(hidden_nodes) ==
  LET walk[i \in 0..2*M] == IF i = 0 THEN WalkStart(hidden_nodes)
                                      ELSE WalkRound(hidden_nodes, walk[i - 1])
  IN  walk[2*M].nodes

\* hidden_leaf_idxs: TAU * i_star[e] + e for every execution e.
HiddenLeaves(i_star) == {TAU * i_star[e] + e : e \in 0..TAU-1}
OpeningSets == {HiddenLeaves(i_star) : i_star \in [0..TAU-1 -> 0..N-1]}

-----------------------------------------------------------------------------
(***************************************************************************)
(* Seeds.  The seed the signer's tree has at node k is represented by k,   *)
(* the all-zero block by ZeroSeed, and any block that is no seed of the    *)
(* tree by Junk.                                                           *)
(***************************************************************************)
ZeroSeed == 0
Junk == -1
Seeds == Nodes \cup {ZeroSeed, Junk}

\* The left child is the seed encrypted under the key of node k; the right
\* one is the left one XOR the parent.
LeftSeed(k, seed) == IF seed = k THEN 2 * k ELSE Junk
XorBlocks(left, seed) == IF left = 2 * seed THEN left + 1 ELSE Junk

=============================================================================
