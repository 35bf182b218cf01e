----------------------------- MODULE LargeGGMBfs -----------------------------
(***************************************************************************)
(* The breadth-first expansion of the large tree                           *)
(* (src/ggm_tree/ggm_tree_large_bfs.c), as a signature that keeps no tree  *)
(* uses it: the signer commits to the leaves (ExpandLeavesOnly), expands   *)
(* the tree again to open it (ExpandPath), and the verifier derives every  *)
(* leaf the opening determines (PartiallyExpand).  Levels are derived in   *)
(* batches of independent nodes.  One step is one level of the signer, or  *)
(* one node, batch or part of a tail of the verifier.                      *)
(***************************************************************************)
EXTENDS LargeGGMTree

CONSTANT Widths  \* values of batch_width: 4, or 8 with LARGE_TREE_BFS_X8

ASSUME WidthsAssumption == Widths \subseteq {4, 8}

\* The variables of the code, with b_ before their names.
VARIABLES
  b_width,
  b_hidden,                          \* the hidden leaf of every execution
  b_cur, b_nxt, b_lseed,             \* ExpandLeavesOnly: buffers, leaves
  b_node, b_path, b_hidden_lseeds,           \* ExpandPath
  b_vnode, b_assigned, b_batch, b_vlseed,    \* PartiallyExpand
  b_j, b_ki,                         \* level, and position in it
  b_pc                               \* the function running, or how it all ended

rolling  == <<b_cur, b_nxt>>
revealed == <<b_path, b_hidden_lseeds>>
bfs_vars == <<b_width, b_hidden, rolling, b_lseed, b_node, revealed,
              b_vnode, b_assigned, b_batch, b_vlseed, b_j, b_ki, b_pc>>

BFS_MAX_LEVEL_NODES == Pow2[H - 1]
BFS_NB_INT_H1 == NB_DEEP_LEAVES \div 2
Executions == 0..TAU-1

LevelArray == 0..BFS_MAX_LEVEL_NODES-1
Unwritten(S) == [n \in S |-> Junk]

\* hidden_leaf_idxs, the leaf hidden in each execution.
HiddenLeaf(e) == TAU * b_hidden[e] + e
HiddenNodes == ToSet(GetSensitiveNodeIndexes({HiddenLeaf(e) : e \in Executions}))

BfsInit ==
  /\ b_width \in Widths
  /\ b_hidden \in [Executions -> 0..N-1]
  /\ b_cur = [Unwritten(LevelArray) EXCEPT ![0] = 1]
  /\ b_nxt = Unwritten(LevelArray)
  /\ b_node = [Unwritten(0..2*M-1) EXCEPT ![1] = 1]
  /\ b_lseed = Unwritten(Leaves) /\ b_vlseed = Unwritten(Leaves)
  /\ b_path = <<>> /\ b_hidden_lseeds = Unwritten(Executions)
  /\ b_vnode = Unwritten(0..2*M-1)
  /\ b_assigned = {} /\ b_batch = <<>>
  /\ b_j = 0 /\ b_ki = 0
  /\ b_pc = "leaves"

Child(k, seed, side) ==
  LET left == LeftSeed(k, seed) IN IF side = 0 THEN left ELSE XorBlocks(left, seed)

\* bfs_derive_level: the children of src[0..count-1], nodes base, base+1, ...
\* Its groups of 8, 4 and 1 parents follow one another from parent 0 to the
\* last, each parent under its own tweak into its own place of dst: here they
\* are the level they add up to.
DeriveLevel(base, src, count, dst) ==
  [n \in DOMAIN dst |-> IF n < 2 * count
                        THEN Child(base + n \div 2, src[n \div 2], n % 2) ELSE dst[n]]

\* (wrong on purpose) The shallow leaves are taken for parents.
Internal_WholeLevel(level) == Pow2[level]

\* Nodes of a level that have children.
Internal(level) == IF level < H - 1 THEN Pow2[level] ELSE BFS_NB_INT_H1

BfsFails ==
  /\ b_pc \in {"leaves", "expand", "partial"}
  /\ b_pc' = "error"
  /\ UNCHANGED <<b_width, b_hidden, rolling, b_lseed, b_node, revealed, b_vnode,
                 b_assigned, b_batch, b_vlseed, b_j, b_ki>>

-----------------------------------------------------------------------------
(***************************************************************************)
(* ExpandLeavesOnly_bfs and ExpandPath_bfs.                                *)
(***************************************************************************)
VerifierIdle == UNCHANGED <<b_vnode, b_assigned, b_batch, b_vlseed, b_ki>>

\* The level is derived into the other buffer, and the buffers swap.
LeavesLevel ==
  /\ b_pc = "leaves" /\ b_j < H - 1
  /\ b_cur' = DeriveLevel(Pow2[b_j], b_cur, Pow2[b_j], b_nxt)
  /\ b_nxt' = b_cur
  /\ b_j' = b_j + 1
  /\ UNCHANGED <<b_width, b_hidden, b_lseed, b_node, revealed, b_pc>>
  /\ VerifierIdle

\* (wrong on purpose) The shallow leaves keep their position in the level.
ShallowSlot_InLevel(k) == k

ShallowSlot(k) == k + BFS_NB_INT_H1

\* The last level holds the parents of the deep leaves, then the shallow ones.
LeavesLast ==
  /\ b_pc = "leaves" /\ b_j = H - 1
  /\ LET deep == DeriveLevel(BFS_MAX_LEVEL_NODES, b_cur, BFS_NB_INT_H1,
                             Unwritten(0..NB_DEEP_LEAVES-1))
         shallow == BFS_NB_INT_H1..BFS_MAX_LEVEL_NODES-1
     IN  b_lseed' = [i \in Leaves |->
           IF i < NB_DEEP_LEAVES THEN deep[i]
           ELSE IF \E k \in shallow : ShallowSlot(k) = i
           THEN b_cur[CHOOSE k \in shallow : ShallowSlot(k) = i] ELSE Junk]
  /\ b_pc' = "expand" /\ b_j' = 0
  /\ UNCHANGED <<b_width, b_hidden, rolling, b_node, revealed>>
  /\ VerifierIdle

\* In place: the nodes of a level are followed by those of the next.
ExpandLevel ==
  /\ b_pc = "expand" /\ b_j < H
  /\ b_node' = LET base == Pow2[b_j] IN
       [n \in DOMAIN b_node |-> IF n \div 2 \in base..base+Internal(b_j)-1
                              THEN Child(n \div 2, b_node[n \div 2], n % 2) ELSE b_node[n]]
  /\ b_j' = b_j + 1
  /\ UNCHANGED <<b_width, b_hidden, rolling, b_lseed, revealed, b_pc>>
  /\ VerifierIdle

\* GetNodeIndexesInPath refuses a set over the budget; the length is checked at
\* the end.
ExpandPathEnds ==
  /\ b_pc = "expand" /\ b_j = H
  /\ \E nodes \in {GetNodeIndexesInPath(HiddenNodes)} :
       IF Cardinality(HiddenNodes) - 2 * TAU + 1 <= T_OPEN /\ Len(nodes) = T_OPEN
       THEN /\ b_path' = [pos \in 1..T_OPEN |-> b_node[nodes[pos]]]
            /\ b_hidden_lseeds' =
                 [e \in Executions |-> b_node[LeafPosition(HiddenLeaf(e))]]
            /\ b_pc' = "opened"
       ELSE b_pc' = "error" /\ UNCHANGED revealed
  /\ UNCHANGED <<b_width, b_hidden, rolling, b_lseed, b_node, b_j>>
  /\ VerifierIdle

-----------------------------------------------------------------------------
(***************************************************************************)
(* PartiallyExpand_bfs.                                                    *)
(***************************************************************************)
SignerIdle == UNCHANGED <<b_width, b_hidden, rolling, b_lseed, b_node, revealed>>

CopyPath ==
  /\ b_pc = "opened"
  /\ \E nodes \in {GetNodeIndexesInPath(HiddenNodes)} :
       /\ b_vnode' = [n \in DOMAIN b_vnode |->
            IF \E pos \in 1..Len(nodes) : nodes[pos] = n
            THEN b_path[CHOOSE pos \in 1..Len(nodes) : nodes[pos] = n] ELSE b_vnode[n]]
       /\ b_assigned' = ToSet(nodes)
  /\ b_j' = 0 /\ b_ki' = 0
  /\ b_pc' = "partial"
  /\ UNCHANGED <<b_batch, b_vlseed>> /\ SignerIdle

\* (wrong on purpose) The children of a batch are not marked.
Marked_No(ks) == b_assigned

Marked(ks) == b_assigned \cup {2 * k : k \in ks} \cup {2 * k + 1 : k \in ks}

\* The children of the nodes ks are derived and marked.
Derive(ks) ==
  /\ b_vnode' = [n \in DOMAIN b_vnode |-> IF n \div 2 \in ks
                 THEN Child(n \div 2, b_vnode[n \div 2], n % 2) ELSE b_vnode[n]]
  /\ b_assigned' = Marked(ks)

Scanning == b_pc = "partial" /\ b_j < H /\ b_ki < Internal(b_j)

\* A node joins the batch, which is derived when it is full.
Scan ==
  /\ Scanning
  /\ LET k == Pow2[b_j] + b_ki
         joined == IF k \in b_assigned THEN Append(b_batch, k) ELSE b_batch
     IN  IF Len(joined) = b_width
         THEN b_batch' = <<>> /\ Derive(ToSet(joined))
         ELSE b_batch' = joined /\ UNCHANGED <<b_vnode, b_assigned>>
  /\ b_ki' = b_ki + 1
  /\ UNCHANGED <<b_vlseed, b_j, b_pc>> /\ SignerIdle

\* The whole level has been scanned, and what is in the batch is its tail.
Swept == b_pc = "partial" /\ b_j < H /\ b_ki = Internal(b_j)

\* (wrong on purpose) The rest is not shifted: the first nodes are taken again.
ShiftedDown_Not == [b \in 1..Len(b_batch)-4 |-> b_batch[b]]

\* batch[b - 4] = batch[b], and batch_n -= 4.
ShiftedDown == [b \in 1..Len(b_batch)-4 |-> b_batch[b + 4]]

\* Of a tail of 4 to 7 nodes, the first four together (LARGE_TREE_BFS_X8: a
\* batch of four is never left over).
TailOfFour ==
  /\ Swept /\ Len(b_batch) >= 4
  /\ Derive({b_batch[b] : b \in 1..4})
  /\ b_batch' = ShiftedDown
  /\ UNCHANGED <<b_vlseed, b_j, b_ki, b_pc>> /\ SignerIdle

\* The 0 to 3 nodes that are left, one by one.
TailNode ==
  /\ Swept /\ Len(b_batch) \in 1..3
  /\ Derive({Head(b_batch)})
  /\ b_batch' = Tail(b_batch)
  /\ UNCHANGED <<b_vlseed, b_j, b_ki, b_pc>> /\ SignerIdle

LevelEnds ==
  /\ Swept /\ b_batch = <<>>
  /\ b_j' = b_j + 1 /\ b_ki' = 0
  /\ UNCHANGED <<b_vnode, b_assigned, b_batch, b_vlseed, b_pc>> /\ SignerIdle

CopyLeaves ==
  /\ b_pc = "partial" /\ b_j = H
  /\ b_vlseed' = [i \in Leaves |-> IF LeafPosition(i) \in b_assigned
                                 THEN b_vnode[LeafPosition(i)] ELSE ZeroSeed]
  /\ b_pc' = "done"
  /\ UNCHANGED <<b_vnode, b_assigned, b_batch, b_j, b_ki>> /\ SignerIdle

BfsNext ==
  \/ LeavesLevel \/ LeavesLast \/ ExpandLevel \/ ExpandPathEnds
  \/ CopyPath \/ Scan \/ TailOfFour \/ TailNode \/ LevelEnds \/ CopyLeaves
  \/ BfsFails

BfsSpec == BfsInit /\ [][BfsNext]_bfs_vars

-----------------------------------------------------------------------------
\* A batch holds fewer nodes than its width, all of the level being scanned.
BfsTypeOK ==
  /\ b_width \in Widths
  /\ b_hidden \in [Executions -> 0..N-1]
  /\ {b_cur, b_nxt} \subseteq [LevelArray -> Seeds]
  /\ {b_node, b_vnode} \subseteq [0..2*M-1 -> Seeds]
  /\ {b_lseed, b_vlseed} \subseteq [Leaves -> Seeds]
  /\ b_assigned \subseteq Nodes
  /\ Len(b_batch) < b_width /\ ToSet(b_batch) \subseteq Pow2[b_j]..Pow2[b_j]+b_ki-1
  /\ b_j \in 0..H /\ b_ki \in 0..BFS_MAX_LEVEL_NODES
  /\ b_pc \in {"leaves", "expand", "opened", "partial", "done", "error"}

\* The two expansions of the signer agree: what it opens and hides are the
\* leaves it committed to.
SameTree ==
  b_pc \in {"opened", "partial", "done"} =>
    /\ \A i \in Leaves : b_lseed[i] = b_node[LeafPosition(i)]
    /\ \A e \in Executions : b_hidden_lseeds[e] = b_lseed[HiddenLeaf(e)]

\* The verifier marks a node only when it holds the seed of that node, and
\* marks every node below the path that its sweep has reached.
MarkedIsDerived ==
  b_pc \in {"partial", "done"} =>
    /\ \A k \in b_assigned : b_vnode[k] = k
    /\ \A k \in b_assigned :
         2 * k < 2 * M /\ k < Pow2[b_j] => {2 * k, 2 * k + 1} \subseteq b_assigned

\* What the arrays and the marks hold between levels.
LevelInvariant == BfsTypeOK /\ SameTree /\ MarkedIsDerived

\* When all succeed, the verifier holds the committed leaves, and zero for the
\* hidden one of each execution.
LeavesRecovered ==
  b_pc = "done" =>
    \A i \in Leaves :
      b_vlseed[i] = IF \E e \in Executions : i = HiddenLeaf(e) THEN ZeroSeed ELSE b_lseed[i]
=============================================================================
