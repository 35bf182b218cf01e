----------------------------- MODULE LargeGGMPair -----------------------------
(***************************************************************************)
(* The iterators that derive two nodes per cipher call                     *)
(* (src/ggm_tree/ggm_tree_large_incr_batch.c), next to the plain ones they *)
(* replace: a stack of pairs of siblings and a buffer of two leaves.  The  *)
(* signer's starts from the two children of the root.  The verifier's      *)
(* consumes the path the signer opened: it keeps the one-node stack of the *)
(* plain iterator for the nodes it has no seed for, and hands the subtree  *)
(* of every node it has one for to the pair engine.  One step is one round *)
(* of a loop; the stack, the budget and the place in the path are those of *)
(* LargeGGMOpening.                                                        *)
(*                                                                         *)
(* The depth-first expansions (src/ggm_tree/ggm_tree_large_dfs.c) are the  *)
(* third build: one call that writes all leaves into an array.             *)
(***************************************************************************)
EXTENDS LargeGGMOpening

\* The check of the source: an odd number of leaves is refused at compile time.
ASSUME PairAssumption == M % 2 = 0

VARIABLES
  build,              \* "plain", "batch" (two nodes per cipher call), "bulk"
  lseed,              \* the array a bulk expansion fills
  inner,              \* inner_stack of the verifier, stack of the signer
  buf, buf_pos        \* buf_count is the length of buf

engine == <<inner, buf, buf_pos>>
bulk   == <<build, lseed>>
vars   == <<opening, bulk, engine>>

batch == build = "batch"

IsSigner == hidden = {}

-----------------------------------------------------------------------------
(***************************************************************************)
(* Pairs.                                                                  *)
(***************************************************************************)
Pair(kA, seedA, kB, seedB) ==
  [kA |-> kA, seedA |-> seedA, kB |-> kB, seedB |-> seedB]

\* The two children of node k.
ChildPair(k, seed) ==
  LET left == LeftSeed(k, seed)
  IN  Pair(2 * k, left, 2 * k + 1, XorBlocks(left, seed))

\* InitIncrementalExpansion_batch derives the children of the root, which may
\* fail.
PairSignerInit ==
  /\ batch /\ IsSigner
  /\ ret \notin {"running", "ready"}
  /\ stack' = <<>>
  /\ num_leaf' = 0
  /\ inner' = <<ChildPair(1, 1)>>
  /\ buf' = <<>> /\ buf_pos' = 0
  /\ ret' \in {"ready", "error"}
  /\ UNCHANGED <<hidden, hidden_nodes, signer, size, path_idx, lseed_out, bulk>>

\* InitIncrementalPartialExpansion_batch: as the plain one, with no pair yet.
PairVerifierInit ==
  /\ batch
  /\ VerifierInit
  /\ inner' = <<>> /\ buf' = <<>> /\ buf_pos' = 0
  /\ UNCHANGED bulk

Buffered == buf_pos < Len(buf)
InEngine == batch /\ ret = "running" /\ ~Buffered /\ inner # <<>>
InOuter  == batch /\ ret = "running" /\ ~Buffered /\ inner = <<>> /\ stack # <<>>
Fixed    == UNCHANGED <<hidden, hidden_nodes, signer, bulk>>
OuterIdle == Fixed /\ UNCHANGED <<stack, size, path_idx>>

\* The second leaf of a pair.
FromBuffer ==
  /\ batch /\ ret = "running" /\ Buffered
  /\ lseed_out' = buf[buf_pos + 1]
  /\ buf_pos' = buf_pos + 1
  /\ num_leaf' = num_leaf + 1
  /\ ret' = "leaf"
  /\ UNCHANGED <<inner, buf>> /\ OuterIdle

-----------------------------------------------------------------------------
(***************************************************************************)
(* run_pair_engine.                                                        *)
(***************************************************************************)
Top == Last(inner)

\* Both are leaves: the first is returned, the second stays in the buffer.
EngineLeaves ==
  /\ InEngine
  /\ IsLeaf(Top.kA)
  /\ inner' = Front(inner)
  /\ buf' = <<Top.seedA, Top.seedB>>
  /\ buf_pos' = 1
  /\ lseed_out' = Top.seedA
  /\ num_leaf' = num_leaf + 1
  /\ ret' = "leaf"
  /\ OuterIdle

\* (wrong on purpose) The pairs are the two left and the two right children.
PushPairs_AcrossParents(p) ==
  LET a == ChildPair(p.kA, p.seedA)
      b == ChildPair(p.kB, p.seedB)
  IN  <<Pair(a.kB, a.seedB, b.kB, b.seedB), Pair(a.kA, a.seedA, b.kA, b.seedA)>>

\* kB's children are deferred, kA's on top.
PushPairs(p) == <<ChildPair(p.kB, p.seedB), ChildPair(p.kA, p.seedA)>>

EngineDerives ==
  /\ InEngine
  /\ ~IsLeaf(Top.kA)
  /\ inner' = Front(inner) \o PushPairs(Top)
  /\ buf' = <<>>
  /\ UNCHANGED <<buf_pos, lseed_out, num_leaf, ret>> /\ OuterIdle

EngineFails ==
  /\ InEngine
  /\ ~IsLeaf(Top.kA)
  /\ inner' = Front(inner)
  /\ buf' = <<>>
  /\ ret' = "error"
  /\ UNCHANGED <<buf_pos, lseed_out, num_leaf>> /\ OuterIdle

-----------------------------------------------------------------------------
(***************************************************************************)
(* The verifier's outer stack, whose nodes have no seed.                   *)
(***************************************************************************)
Node == VTop.k

\* A leaf: the next seed of the path, or zeroes when it is hidden.
OuterLeaf ==
  /\ InOuter
  /\ IsLeaf(Node)
  /\ PathInBounds
  /\ stack' = Front(stack)
  /\ lseed_out' = IF Reveals(Node, size) THEN path[path_idx + 1] ELSE ZeroSeed
  /\ path_idx' = IF Reveals(Node, size) THEN path_idx + 1 ELSE path_idx
  /\ num_leaf' = num_leaf + 1
  /\ ret' = "leaf"
  /\ Fixed /\ UNCHANGED <<size, engine>>

\* A node the path has a seed for: its subtree goes to the engine, which runs
\* at once.
OuterKnown ==
  /\ InOuter
  /\ ~IsLeaf(Node)
  /\ Reveals(Node, size)
  /\ path_idx < T_OPEN
  /\ stack' = Front(stack)
  /\ path_idx' = path_idx + 1
  /\ inner' = <<ChildPair(Node, path[path_idx + 1])>>
  /\ Fixed /\ UNCHANGED <<size, num_leaf, buf, buf_pos, lseed_out, ret>>

\* The path is overrun, or the children of a known node cannot be derived.
OuterFails ==
  /\ InOuter
  /\ Reveals(Node, size)
  /\ IF path_idx >= T_OPEN THEN UNCHANGED path_idx
                           ELSE ~IsLeaf(Node) /\ path_idx' = path_idx + 1
  /\ stack' = Front(stack)
  /\ ret' = "error"
  /\ Fixed /\ UNCHANGED <<size, num_leaf, lseed_out, engine>>

OuterUnknown ==
  /\ InOuter
  /\ ~IsLeaf(Node)
  /\ ~Reveals(Node, size)
  /\ stack' = WithChildren(Front(stack), Node, Unknown)
  /\ size' = SizeAfter(Node, size)
  /\ Fixed /\ UNCHANGED <<path_idx, num_leaf, lseed_out, ret, engine>>

\* The signer's engine empties its buffer before it finds its stack empty.
PairExhausted ==
  /\ batch /\ ret = "running" /\ ~Buffered
  /\ inner = <<>> /\ stack = <<>>
  /\ buf' = IF IsSigner THEN <<>> ELSE buf
  /\ ret' = "done"
  /\ UNCHANGED <<buf_pos, lseed_out, num_leaf, inner>> /\ OuterIdle

PairProgress ==
  \/ FromBuffer \/ EngineLeaves \/ EngineDerives
  \/ OuterLeaf \/ OuterKnown \/ OuterUnknown \/ PairExhausted

-----------------------------------------------------------------------------
(***************************************************************************)
(* The expansions in one call.                                             *)
(***************************************************************************)
\* (wrong on purpose) The children go where their parent's number says.
StoredAt_Node(k) == k - M

\* ExpandLeavesOnly asks its iterator for one leaf after the other;
\* PartiallyExpand stores each leaf it meets under its logical number.
StoredAt(k) == IF IsSigner THEN num_leaf ELSE FromLeafPosition(k)

BulkInit ==
  /\ build = "bulk"
  /\ SignerIteratorInit \/ VerifierInit
  /\ lseed' = [i \in Leaves |-> Junk]
  /\ UNCHANGED <<build, engine>>

BulkLeaf ==
  /\ build = "bulk"
  /\ ReturnLeaf
  /\ lseed' = [lseed EXCEPT ![StoredAt(VTop.k)] = lseed_out']
  /\ UNCHANGED <<build, engine>>

BulkRound ==
  /\ build = "bulk"
  /\ DescendNode \/ Exhausted
  /\ UNCHANGED <<bulk, engine>>

\* The loops of the caller: the next leaf.
BulkCall ==
  /\ build = "bulk"
  /\ ret # "done"
  /\ Call
  /\ UNCHANGED <<bulk, engine>>

BulkFails ==
  /\ build = "bulk"
  /\ RoundFails
  /\ UNCHANGED <<bulk, engine>>

\* Expand keeps the whole tree: the children of node k, for k = 1 to M - 1.
ExpandedTree ==
  LET children(node, k) ==
        LET left == LeftSeed(k, node[k])
        IN  [node EXCEPT ![2 * k] = left, ![2 * k + 1] = XorBlocks(left, node[k])]
      expanded[k \in 0..M-1] ==
        IF k = 0 THEN [n \in Nodes |-> IF n = 1 THEN 1 ELSE Junk]
                 ELSE children(expanded[k - 1], k)
  IN  expanded[M - 1]

\* The leaves it extracts.
ExpandedLeaves == [i \in Leaves |-> ExpandedTree[LeafPosition(i)]]

-----------------------------------------------------------------------------
PairInit ==
  /\ Init
  /\ build \in {"plain", "batch", "bulk"}
  /\ lseed = [i \in Leaves |-> Junk]
  /\ inner = <<>> /\ buf = <<>> /\ buf_pos = 0

Plain ==
  /\ build = "plain"
  /\ \/ SignerIteratorInit
     \/ VerifierInit
     \/ Call
     \/ PlainProgress
     \/ RoundFails
  /\ UNCHANGED <<bulk, engine>>

PairCall == batch /\ Call /\ UNCHANGED <<bulk, engine>>

\* The signer's opening is the same in all builds.
Signer == (SignerProgress \/ SignerFails) /\ UNCHANGED <<bulk, engine>>

Next ==
  \/ Signer
  \/ Plain
  \/ PairSignerInit \/ PairVerifierInit \/ PairCall
  \/ PairProgress \/ EngineFails \/ OuterFails
  \/ BulkInit \/ BulkCall \/ BulkLeaf \/ BulkRound \/ BulkFails

\* A loop that was entered goes on.
IteratorProgress ==
  \/ build = "plain" /\ PlainProgress /\ UNCHANGED <<bulk, engine>>
  \/ PairProgress
  \/ BulkLeaf \/ BulkRound

Spec == /\ PairInit /\ [][Next]_vars
        /\ WF_vars(SignerProgress /\ UNCHANGED <<bulk, engine>>)
        /\ WF_vars(IteratorProgress)

-----------------------------------------------------------------------------
\* The stack of pairs fits its array with room to spare; at most two leaves are
\* buffered.
EngineTypeOK ==
  /\ Len(inner) <= H
  /\ \A i \in 1..Len(inner) : {inner[i].kA, inner[i].kB} \subseteq Nodes
  /\ Len(buf) <= 2 /\ buf_pos \in 0..2

\* A pair is always two siblings with their own seeds, both leaves or neither,
\* so that looking at the first decides for both.  In the verifier no hidden
\* node is among them, whatever subtree the engine was handed.
PairsTogether ==
  \A i \in 1..Len(inner) :
    /\ inner[i].kB = inner[i].kA + 1 /\ inner[i].kA % 2 = 0
    /\ inner[i].seedA = inner[i].kA /\ inner[i].seedB = inner[i].kB
    /\ IsLeaf(inner[i].kA) <=> IsLeaf(inner[i].kB)
    /\ {inner[i].kA, inner[i].kB} \cap hidden_nodes = {}

\* The outer stack holds only nodes without a seed, so that a node the path
\* has a seed for always reaches the engine; the overrun guard is never met,
\* and an enumeration that ends has used the whole path, up to its last entry.
PathUsedUp ==
  batch => /\ \A i \in 1..Len(stack) : stack[i].seed = Unknown
           /\ InOuter /\ Reveals(Node, size) => path_idx < T_OPEN
           /\ ret = "done" /\ ~IsSigner => path_idx = T_OPEN

\* What the two stacks, the buffer and the path hold between rounds.
EngineInvariant == EngineTypeOK /\ PairsTogether /\ PathUsedUp

\* An expansion in one call that reports success has written every leaf, at its
\* number, as the kept tree has it, and zeroes for the hidden ones.
BulkExact ==
  build = "bulk" /\ num_leaf = M =>
    lseed = [i \in Leaves |-> IF i \in hidden THEN ZeroSeed ELSE ExpandedLeaves[i]]

=============================================================================
