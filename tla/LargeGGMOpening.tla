--------------------------- MODULE LargeGGMOpening ---------------------------
(***************************************************************************)
(* An opening of the large tree, from both ends: the signer reveals T_OPEN *)
(* seeds from which every leaf but the TAU hidden ones can be recomputed   *)
(* (ExpandPath_dfs, or GetNodeIndexesInPath and Open when the tree was     *)
(* kept), the verifier's iterator consumes them (GetNextLeafPartial).      *)
(*                                                                         *)
(* The path carries no node indices: the two traversals agree on what each *)
(* entry is only because they visit the same nodes in the same order and   *)
(* spend the same budget, expanding nodes they could have revealed until   *)
(* exactly T_OPEN entries remain to be revealed.                           *)
(*                                                                         *)
(* The iterator of the signer, who commits to the leaves before there is   *)
(* a challenge, is the same walk from a root that is known (GetNextLeaf):  *)
(* hidden is then empty and there is no path.                              *)
(*                                                                         *)
(* LargeGGMPair adds the iterators that derive two nodes per cipher call,  *)
(* and the specification of the whole.                                     *)
(***************************************************************************)
EXTENDS LargeGGMTree

VARIABLES
  hidden,        \* the hidden leaves, fixed by the challenge, if there is one
  hidden_nodes,  \* their GetSensitiveNodeIndexes, computed by both sides
  \* the signer
  s_stack, s_size, s_ret, path, hidden_lseeds,
  \* large_ggmtree_incr_partial_ctx_t of the verifier
  stack, size, path_idx, num_leaf,
  \* the verifier's call in progress
  lseed_out, ret

signer   == <<s_stack, s_size, s_ret, path, hidden_lseeds>>
verifier == <<stack, size, path_idx, num_leaf, lseed_out, ret>>
opening  == <<hidden, hidden_nodes, signer, verifier>>

\* The seed of a node whose known flag is not set.
Unknown == -2

Frame(k, seed) == [k |-> k, seed |-> seed]

\* (wrong on purpose) A free leaf is not revealed while budget is left.
Reveals_KeepsLeaves(k, sz) == k \notin hidden_nodes /\ sz >= T_OPEN

\* (wrong on purpose) Any node is revealed once the budget is spent.
Reveals_BudgetOnly(k, sz) == ~(sz < T_OPEN /\ ~IsLeaf(k))

\* Reveal a node that is not on a hidden path, unless the budget lets its two
\* children be revealed in its place.
Reveals(k, sz) == Revealed(hidden_nodes, k, sz)

\* Expanding a free node costs one more entry of the path.
SizeAfter(k, sz) == IF k \notin hidden_nodes THEN sz + 1 ELSE sz

\* (wrong on purpose) The node stays below its children.
WithChildren_KeepsNode(s, k, seed) ==
  LET left == LeftSeed(k, seed)
  IN  s \o <<Frame(k, seed)>> \o IF seed = Unknown
           THEN <<Frame(2 * k + 1, Unknown), Frame(2 * k, Unknown)>>
           ELSE <<Frame(2 * k + 1, XorBlocks(left, seed)), Frame(2 * k, left)>>

\* Right, then left on top.
WithChildren(s, k, seed) ==
  LET left == LeftSeed(k, seed)
  IN  s \o IF seed = Unknown
           THEN <<Frame(2 * k + 1, Unknown), Frame(2 * k, Unknown)>>
           ELSE <<Frame(2 * k + 1, XorBlocks(left, seed)), Frame(2 * k, left)>>

-----------------------------------------------------------------------------
(***************************************************************************)
(* The signer.  ExpandPath_dfs derives the seeds on its way; Open and      *)
(* GetNodeIndexesInPath make the same walk and copy them from the tree.    *)
(***************************************************************************)
SignerTop == Last(s_stack)

SignerRunning == s_ret = "running" /\ s_stack # <<>>

\* On a full path GetNodeIndexesInPath fails, and ExpandPath_dfs takes its
\* error exit with ret still 0 from the derivation before.
SignerReveals ==
  /\ SignerRunning
  /\ Reveals(SignerTop.k, s_size)
  /\ s_stack' = Front(s_stack)
  /\ IF Len(path) >= T_OPEN
     THEN s_ret' \in {"ok", "error"} /\ UNCHANGED path
     ELSE path' = Append(path, SignerTop.seed) /\ UNCHANGED s_ret
  /\ UNCHANGED <<hidden, hidden_nodes, s_size, hidden_lseeds, verifier>>

SignerExpands ==
  /\ SignerRunning
  /\ ~IsLeaf(SignerTop.k)
  /\ ~Reveals(SignerTop.k, s_size)
  /\ s_size' = SizeAfter(SignerTop.k, s_size)
  /\ s_stack' = WithChildren(Front(s_stack), SignerTop.k, SignerTop.seed)
  /\ UNCHANGED <<hidden, hidden_nodes, s_ret, path, hidden_lseeds, verifier>>

\* (wrong on purpose) The execution is the row of the leaf, not its column.
ExecutionOf_Row(k) == FromLeafPosition(k) \div N

ExecutionOf(k) == FromLeafPosition(k) % TAU

\* The seed of a hidden leaf goes to the execution the leaf belongs to.
SignerKeepsHidden ==
  /\ SignerRunning
  /\ IsLeaf(SignerTop.k)
  /\ ~Reveals(SignerTop.k, s_size)
  /\ hidden_lseeds' =
       [hidden_lseeds EXCEPT ![ExecutionOf(SignerTop.k)] = SignerTop.seed]
  /\ s_stack' = Front(s_stack)
  /\ UNCHANGED <<hidden, hidden_nodes, s_size, s_ret, path, verifier>>

\* A derivation fails.
SignerFails ==
  /\ SignerRunning
  /\ ~IsLeaf(SignerTop.k)
  /\ ~Reveals(SignerTop.k, s_size)
  /\ s_ret' = "error"
  /\ UNCHANGED <<hidden, hidden_nodes, s_stack, s_size, path, hidden_lseeds,
                 verifier>>

\* The sanity check: the opening has its fixed length.
SignerEnds ==
  /\ s_ret = "running"
  /\ s_stack = <<>>
  /\ s_ret' = IF Len(path) = T_OPEN THEN "ok" ELSE "error"
  /\ UNCHANGED <<hidden, hidden_nodes, s_stack, s_size, path, hidden_lseeds,
                 verifier>>

-----------------------------------------------------------------------------
(***************************************************************************)
(* The verifier, once it holds the signer's path.                          *)
(***************************************************************************)
VTop == Last(stack)

\* InitIncrementalExpansion: the root, with the master seed.
SignerIteratorInit ==
  /\ hidden = {}
  /\ ret \notin {"running", "ready"}
  /\ stack' = <<Frame(1, 1)>>
  /\ num_leaf' = 0
  /\ ret' = "ready"
  /\ UNCHANGED <<hidden, hidden_nodes, signer, size, path_idx, lseed_out>>

\* InitIncrementalPartialExpansion, refused when the set is over the budget.
VerifierInit ==
  /\ s_ret = "ok" /\ hidden # {}
  /\ ret \notin {"running", "ready"}
  /\ size' = Cardinality(hidden_nodes) - 2 * TAU + 1
  /\ path_idx' = 0
  /\ num_leaf' = 0
  /\ IF size' > T_OPEN
     THEN ret' = "error" /\ UNCHANGED stack
     ELSE ret' = "ready" /\ stack' = <<Frame(1, Unknown)>>
  /\ UNCHANGED <<hidden, hidden_nodes, signer, lseed_out>>

\* A call of GetNextLeaf, GetNextLeafPartial or one of their _batch forms.
Call ==
  /\ ret \in {"ready", "leaf", "done"}
  /\ ret' = "running"
  /\ UNCHANGED <<hidden, hidden_nodes, signer, stack, size, path_idx, num_leaf,
                 lseed_out>>

InCall == ret = "running" /\ stack # <<>>

\* (wrong on purpose) The flag of the node is not consulted.
ReadsPath_IgnoresKnown == hidden # {} /\ Reveals(VTop.k, size)

\* A node without a seed takes the next entry of the path when the signer
\* revealed it there.
ReadsPath == VTop.seed = Unknown /\ Reveals(VTop.k, size)

VSeed == IF ReadsPath THEN path[path_idx + 1] ELSE VTop.seed

TakePath ==
  /\ path_idx' = IF ReadsPath THEN path_idx + 1 ELSE path_idx
  /\ size' = IF VTop.seed = Unknown /\ ~ReadsPath THEN SizeAfter(VTop.k, size)
                                                 ELSE size

\* The guard against running off the path.
PathInBounds == ReadsPath => path_idx < T_OPEN

DescendNode ==
  /\ InCall
  /\ PathInBounds
  /\ ~IsLeaf(VTop.k)
  /\ TakePath
  /\ stack' = WithChildren(Front(stack), VTop.k, VSeed)
  /\ UNCHANGED <<hidden, hidden_nodes, signer, num_leaf, lseed_out, ret>>

\* The path is overrun, or a derivation below a known node fails: the node was
\* already popped.
RoundFails ==
  /\ InCall
  /\ PathInBounds => ~IsLeaf(VTop.k) /\ VSeed # Unknown
  /\ IF PathInBounds THEN TakePath ELSE UNCHANGED <<size, path_idx>>
  /\ stack' = Front(stack)
  /\ ret' = "error"
  /\ UNCHANGED <<hidden, hidden_nodes, signer, num_leaf, lseed_out>>

\* A hidden leaf is returned as zeroes.
ReturnLeaf ==
  /\ InCall
  /\ PathInBounds
  /\ IsLeaf(VTop.k)
  /\ TakePath
  /\ stack' = Front(stack)
  /\ num_leaf' = num_leaf + 1
  /\ lseed_out' = IF VSeed = Unknown THEN ZeroSeed ELSE VSeed
  /\ ret' = "leaf"
  /\ UNCHANGED <<hidden, hidden_nodes, signer>>

Exhausted ==
  /\ ret = "running"
  /\ stack = <<>>
  /\ ret' = "done"
  /\ UNCHANGED <<hidden, hidden_nodes, signer, stack, size, path_idx, num_leaf,
                 lseed_out>>

-----------------------------------------------------------------------------
\* ExpandPath refuses a set over the budget, otherwise starts at the root; it
\* has no part in the signer's iterator.
Init ==
  /\ hidden \in OpeningSets \cup {{}}
  /\ hidden_nodes = ToSet(GetSensitiveNodeIndexes(hidden))
  /\ s_size = OpeningSize(hidden)
  /\ s_stack = <<Frame(1, 1)>>
  /\ s_ret = IF hidden = {} THEN "none"
             ELSE IF s_size > T_OPEN THEN "error" ELSE "running"
  /\ path = <<>>
  /\ hidden_lseeds = [e \in 0..TAU-1 |-> Junk]
  /\ stack = <<>> /\ size = 0 /\ path_idx = 0 /\ num_leaf = 0
  /\ lseed_out = Junk
  /\ ret = "none"

SignerProgress ==
  SignerReveals \/ SignerExpands \/ SignerKeepsHidden \/ SignerEnds

\* A round of the plain iterators that returns no error.
PlainProgress == DescendNode \/ ReturnLeaf \/ Exhausted

-----------------------------------------------------------------------------
\* Both traversals fit an array of H + 1 frames, however their budget goes.
StacksFit == Len(s_stack) <= H + 1 /\ Len(stack) <= H + 1

\* Every index is in range: nodes of the tree, entries of the path, leaves,
\* frames of the stacks.
TypeOK ==
  /\ hidden \subseteq Leaves
  /\ StacksFit
  /\ hidden_nodes \subseteq Nodes
  /\ s_size \in Int /\ size \in Int
  /\ path \in Seq(Seeds)
  /\ Len(path) <= T_OPEN
  /\ hidden_lseeds \in [0..TAU-1 -> Seeds]
  /\ \A s \in {s_stack, stack} : \A j \in 1..Len(s) : s[j].k \in Nodes
  /\ s_ret \in {"none", "running", "ok", "error"}
  /\ path_idx \in 0..T_OPEN
  /\ num_leaf \in 0..M
  /\ ret \in {"none", "ready", "running", "leaf", "done", "error"}

Ancestors(k) == {k \div Pow2[j] : j \in 0..H} \ {0}

\* The walk of GetSensitiveNodeIndexes that merges paths finds each ancestor of
\* each hidden leaf, once: the size of an opening is the number of subtrees
\* hanging off those paths.
SensitiveNodesExact ==
  hidden # {} =>
  /\ hidden_nodes = UNION {Ancestors(LeafPosition(i)) : i \in hidden}
  /\ Len(GetSensitiveNodeIndexes(hidden)) = Cardinality(hidden_nodes)
  /\ OpeningSize(hidden) =
       Cardinality({k \in Nodes \ hidden_nodes : k \div 2 \in hidden_nodes})

\* Nothing that is revealed lets anyone derive a hidden leaf.
NothingHiddenRevealed ==
  \A j \in 1..Len(path) :
    \A i \in hidden : path[j] \notin Ancestors(LeafPosition(i))

\* The budget is exact. What is left to reveal always fits in what is left of
\* the path, a valid set always yields an opening of exactly T_OPEN seeds, and
\* neither the signer nor the verifier ever meets its overrun guard.
BudgetExact ==
  /\ s_ret = "running" /\ s_stack # <<>> /\ Reveals(SignerTop.k, s_size) =>
       Len(path) < T_OPEN
  /\ s_ret = "running" /\ s_stack = <<>> =>
       Len(path) = T_OPEN /\ s_size = T_OPEN
  /\ InCall => PathInBounds
  /\ ret = "done" => num_leaf = M /\ (hidden # {} => path_idx = T_OPEN)

\* The size of an opening is computed, and spent, exactly.
OpeningExact == SensitiveNodesExact /\ BudgetExact

\* Each execution is handed the seed of its own hidden leaf.
HiddenSeedsPlaced ==
  s_ret = "ok" =>
    \A e \in 0..TAU-1 :
      \E i \in hidden : i % TAU = e /\ hidden_lseeds[e] = LeafPosition(i)

\* The hidden leaves are kept from the path and handed to their executions.
HiddenLeavesKept == NothingHiddenRevealed /\ HiddenSeedsPlaced

Stream == INSTANCE LeafStream WITH
  expected <- [i \in Leaves |-> IF i \in hidden THEN ZeroSeed
                                                ELSE LeafPosition(i)],
  ret <- IF ret = "none" THEN "ready" ELSE ret

\* The signer's iterator returns leaf i with the seed of its node; the verifier
\* recomputes, in order, exactly these leaves, with zeroes in place of the
\* hidden ones.
LeavesInOrder == Stream!Spec

=============================================================================
