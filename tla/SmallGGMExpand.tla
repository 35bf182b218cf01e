---------------------------- MODULE SmallGGMExpand ----------------------------
(***************************************************************************)
(* The small tree kept in memory (src/ggm_tree/ggm_tree_small.c): the      *)
(* signer expands it level by level, in bulk derivations of at most CHUNK  *)
(* nodes, and opens all leaves but one; the verifier copies the opening    *)
(* into a tree of its own and derives every node it can, in runs on either *)
(* side of the hidden one.  One step is one bulk derivation.               *)
(***************************************************************************)
EXTENDS SmallGGMTree, FiniteSetsExt

CONSTANT CHUNK  \* SMALL_GGM_TREE_LEVEL_CHUNK

ASSUME ChunkAssumption == \E b \in 0..LOG : CHUNK = Pow2[b]

VARIABLES
  i_star,         \* the leaf to hide; the last value is out of range
  node, lseed,    \* the signer's tree and leaves
  opening,        \* the siblings of the hidden path, from the leaf up
  vnode, vlseed,  \* the verifier's tree and leaves
  j, part, k,     \* level, side of the hidden node and first node of a run
  pc              \* "expand", "open", "partial" in progress, or how it ended

treeVars == <<i_star, node, lseed, opening, vnode, vlseed, j, part, k, pc>>

Indexes == 0..2*NB_EVALS-1
Unwritten(S) == [n \in S |-> Junk]

TreeInit ==
  /\ i_star \in 0..NB_EVALS
  /\ node = Unwritten(Indexes) /\ lseed = Unwritten(LeafNumbers)
  /\ opening = Unwritten(Levels)
  /\ vnode = Unwritten(Indexes) /\ vlseed = Unwritten(LeafNumbers)
  /\ j = 0 /\ part = 0 /\ k = 0
  /\ pc = "expand"

\* A ciphertext, and the child it gives once XORed with the seed's LinOrtho.
Encrypted(key, seed) == IF SeedDerive(key, seed) = Junk THEN Junk ELSE -10 - seed
Unmasked(c, seed) == IF c = -10 - seed THEN 2 * seed ELSE Junk

\* A bulk derivation of `run` nodes from `from` on: their ciphertexts are
\* written side by side where the children go,
Ciphertexts(tree, key, from, run) ==
  [n \in Indexes |-> IF n \in 2*from..2*from+run-1 THEN Encrypted(key, tree[n - from])
                                                   ELSE tree[n]]

\* and a pass over them makes each into two children.
Interleaved(tree, from, p) ==
  LET left == Unmasked(tree[from + p], tree[p])
  IN  [tree EXCEPT ![2*p] = left, ![2*p + 1] = XorBlocks(tree[p], left)]

\* (wrong on purpose) The pass goes forward, over ciphertexts not yet used.
SeedDerive_nb_Forward(tree, key, from, run) ==
  LET pass[i \in 0..run] == IF i = 0 THEN Ciphertexts(tree, key, from, run)
                            ELSE Interleaved(pass[i - 1], from, from + i - 1)
  IN  pass[run]

\* In place, so it goes backward.
SeedDerive_nb(tree, key, from, run) ==
  LET pass[i \in 0..run] == IF i = 0 THEN Ciphertexts(tree, key, from, run)
                            ELSE Interleaved(pass[i - 1], from, from + run - i)
  IN  pass[run]

MaxRun == Min({Pow2[j], CHUNK})

VerifierIdle == UNCHANGED <<vnode, vlseed, part>>

-----------------------------------------------------------------------------
(***************************************************************************)
(* SmallGGMTree_Expand.                                                    *)
(***************************************************************************)
ExpandRoot ==
  /\ pc = "expand" /\ j = 0
  /\ node' = LET left == SeedDerive(0, mseed)
             IN  [node EXCEPT ![2] = left, ![3] = XorBlocks(delta, left)]
  /\ j' = 1 /\ k' = 2
  /\ UNCHANGED <<i_star, lseed, opening, pc>> /\ VerifierIdle

\* k runs through the level; at its end the next level starts.
ExpandChunk ==
  /\ pc = "expand" /\ j \in 1..LOG-1
  /\ node' = SeedDerive_nb(node, j, k, MaxRun)
  /\ IF k + MaxRun < Pow2[j + 1] THEN k' = k + MaxRun /\ UNCHANGED j
                               ELSE j' = j + 1 /\ k' = Pow2[j + 1]
  /\ UNCHANGED <<i_star, lseed, opening, pc>> /\ VerifierIdle

CopyLeaves ==
  /\ pc = "expand" /\ j = LOG
  /\ lseed' = [i \in LeafNumbers |-> node[NB_EVALS + i]]
  /\ pc' = "open"
  /\ UNCHANGED <<i_star, node, opening, j, k>> /\ VerifierIdle

ExpandFails ==
  /\ pc = "expand" /\ j < LOG
  /\ pc' = "error"
  /\ UNCHANGED <<i_star, node, lseed, opening, j, k>> /\ VerifierIdle

-----------------------------------------------------------------------------
(***************************************************************************)
(* The opening, from the tree that was kept or walked again from the root. *)
(***************************************************************************)
\* Open, ExpandPath and PartiallyExpand check the leaf they are given.
Refused ==
  /\ pc \in {"open", "opened"} /\ i_star >= NB_EVALS
  /\ pc' = "error"
  /\ UNCHANGED <<i_star, node, lseed, opening, j, k>> /\ VerifierIdle

Open ==
  /\ pc = "open" /\ i_star < NB_EVALS
  /\ opening' \in {SmallGGMTree_Open(node, i_star), SmallGGMTree_ExpandPath(i_star).path}
  /\ pc' = "opened"
  /\ UNCHANGED <<i_star, node, lseed, j, k>> /\ VerifierIdle

\* The walk from the root fails: the entries of the levels it has left are
\* written.
OpenFails ==
  /\ pc = "open" /\ i_star < NB_EVALS
  /\ \E l \in Levels : opening' = [h \in Levels |->
       IF h > LOG - 1 - l THEN SmallGGMTree_ExpandPath(i_star).path[h] ELSE opening[h]]
  /\ pc' = "error"
  /\ UNCHANGED <<i_star, node, lseed, j, k>> /\ VerifierIdle

-----------------------------------------------------------------------------
(***************************************************************************)
(* SmallGGMTree_PartiallyExpand.                                           *)
(***************************************************************************)
SignerIdle == UNCHANGED <<i_star, node, lseed, opening>>

\* (wrong on purpose) The hole of the level below.
Hole_LevelBelow(level) == Ancestor(i_star, LOG - level - 1)

\* The hidden leaf's ancestor at a level, which is never derived from.
Hole(level) == Ancestor(i_star, LOG - level)

\* (wrong on purpose) The right part starts at the hole.
RunStart_AtHole(level, side) == IF side = 0 THEN Pow2[level] ELSE Hole(level)

RunStart(level, side) == IF side = 0 THEN Pow2[level] ELSE Hole(level) + 1
RunEnd(level, side)   == IF side = 0 THEN Hole(level) ELSE Pow2[level + 1]

CopyPath ==
  /\ pc = "opened"
  /\ vnode' = [n \in Indexes |->
       IF \E h \in Levels : n = Sibling(Ancestor(i_star, h))
       THEN opening[CHOOSE h \in Levels : n = Sibling(Ancestor(i_star, h))]
       ELSE vnode[n]]
  /\ j' = 1 /\ part' = 0 /\ k' = 2
  /\ pc' = "partial"
  /\ UNCHANGED vlseed /\ SignerIdle

\* (wrong on purpose) Every run has the full width.
RunLength_NotClamped == MaxRun

RunLength == Min({RunEnd(j, part) - k, MaxRun})

DeriveRun ==
  /\ pc = "partial" /\ j < LOG
  /\ k < RunEnd(j, part)
  /\ vnode' = SeedDerive_nb(vnode, j, k, RunLength)
  /\ k' = k + MaxRun
  /\ UNCHANGED <<vlseed, j, part, pc>> /\ SignerIdle

\* The part left of the hole is done, then the one right of it, then the level.
NextPart ==
  /\ pc = "partial" /\ j < LOG
  /\ k >= RunEnd(j, part)
  /\ IF part = 0 THEN part' = 1 /\ UNCHANGED j /\ k' = RunStart(j, 1)
                 ELSE part' = 0 /\ j' = j + 1 /\ k' = RunStart(j + 1, 0)
  /\ UNCHANGED <<vnode, vlseed, pc>> /\ SignerIdle

CopyKnownLeaves ==
  /\ pc = "partial" /\ j = LOG
  /\ vlseed' = [i \in LeafNumbers |-> IF i = i_star THEN ZeroSeed ELSE vnode[NB_EVALS + i]]
  /\ pc' = "done"
  /\ UNCHANGED <<vnode, j, part, k>> /\ SignerIdle

\* The tree cannot be allocated, or a key schedule or the cipher fails.
PartialFails ==
  /\ pc \in {"opened", "partial"} /\ j <= LOG
  /\ pc' = "error"
  /\ UNCHANGED <<vnode, vlseed, j, part, k>> /\ SignerIdle

TreeNext ==
  \/ ExpandRoot \/ ExpandChunk \/ CopyLeaves \/ ExpandFails
  \/ Refused \/ Open \/ OpenFails
  \/ CopyPath \/ DeriveRun \/ NextPart \/ CopyKnownLeaves \/ PartialFails


-----------------------------------------------------------------------------
\* A run starts at most one run past its level, so no bulk derivation writes
\* past the tree; the arrays hold seeds.
TreeTypeOK ==
  /\ i_star \in 0..NB_EVALS
  /\ {node, vnode} \subseteq [Indexes -> SmallSeeds]
  /\ {lseed, vlseed} \subseteq [LeafNumbers -> SmallSeeds]
  /\ opening \in [Levels -> SmallSeeds]
  /\ j \in 0..LOG /\ part \in {0, 1}
  /\ k \in 0..Pow2[j + 1] + CHUNK - 1
  /\ pc \in {"expand", "open", "opened", "partial", "done", "error"}

\* Both ways of opening reveal the same seeds, those of the siblings of the
\* hidden path; the walk ends at the hidden leaf's own seed.
OpeningsAgree ==
  pc = "open" /\ i_star < NB_EVALS =>
    LET walk == SmallGGMTree_ExpandPath(i_star)
    IN  /\ walk.path = SmallGGMTree_Open(node, i_star)
        /\ walk.parent = lseed[i_star]
        /\ walk.path = [h \in Levels |-> Sibling(Ancestor(i_star, h))]

\* No seed from which the hidden leaf could be derived is revealed.
HiddenPathSecret ==
  pc \notin {"expand", "open"} =>
    \A h, l \in Levels : opening[h] # Ancestor(i_star, l)

\* A bulk derivation of the verifier reads only seeds that were written: never
\* the hole of its level, nor a node below it.
ReadsOnlyWritten ==
  [][DeriveRun =>
       \A p \in k..k+RunLength-1 : vnode[p] # Junk]_treeVars

\* When all succeed, the leaves the signer commits to are the tree's, and the
\* verifier holds them, with zero for the hidden one.
LeavesRecovered ==
  pc = "done" =>
    /\ lseed = [i \in LeafNumbers |-> NB_EVALS + i]
    /\ vlseed = [lseed EXCEPT ![i_star] = ZeroSeed]

\* The kept tree: both openings agree, hide the leaf, and give the others back.
KeptTreeOpens == OpeningsAgree /\ HiddenPathSecret /\ LeavesRecovered
=============================================================================
