# A TLA+ model of MQOM v3

MQOM v3 is a post-quantum signature scheme: MPC-in-the-head over a multivariate
quadratic system, in C, for two families of parameters. The *CT* family commits
to TAU small GGM trees, one per execution; the *OT* family to a single large one.
The code is sequential and has no persistent state. What is hard in it is
elsewhere: contexts fed by a caller in arbitrary pieces, iterators that keep a
stack instead of a tree, two sides that must walk a structure in the same order
because nothing on the wire says where they are, buffers that hold secrets until
the last line, batched builds that must behave as the plain one, and an error
exit after every call. These modules are about those.

The modules and the code they model are paired, line by line, in `PROJECT.json`
("map"). Definitions keep the names of the C code.

## Inventory

| Component | State | Operations | Correct when | Here |
|---|---|---|---|---|
| streaming verifier, CT (`verify_stream_ct.c`) | chunk counter, reassembly buffer, batch slots, two open hashes, latch | Init, Update, Finalize, Clean | it answers what one-shot verification would, for every way of cutting the signature | `StreamedVerifyCT`, proved |
| streaming verifier, OT (`verify_stream_ot.c`) | the same with three phases and a heap buffer released after the second | the same | the same, and the buffer is neither used after release nor leaked | `StreamedVerifyOT`, proved |
| large GGM tree (`ggm_tree_large*.c`) | stack of pending nodes, path cursor, opening budget; pairs and a leaf buffer; level arrays and marks | leaf iterators, opening, partial expansion, each by one node, by two, or by level | leaf *i* is the seed of its node; an opening has fixed size, hides what it must and lets everything else be recomputed | `LargeGGMTree`, `LargeGGMOpening`, `LargeGGMPair`, `LargeGGMBfs`, proved |
| small GGM trees (`ggm_tree_small*.c`) | a tree, or one root-to-leaf path and some key schedules | expansion, both openings, partial expansion, four iterators | as above, one hidden leaf per tree; the kept tree and the walks agree | `SmallGGMTree`, `SmallGGMExpand`, `SmallGGMIncr`, proved |
| pre-signatures (`sign_pre.c`) | the caller's presig buffers | prepare, finalize, at two levels | one message per commitment; nothing in clear; a finalised presig is the direct signature | `PreSign`, proved |
| grinding (`sample_challenge_*.h`) | nonce counter, last derived challenge | search, re-derivation | all builds choose the same nonce; the signer opens the challenge the verifier derives | `Grinding`, proved |
| batch line commitment (`blc/`) | the opening key; in a call: trees, leaf commitments, a key-schedule cache, Gray-code buckets, hash contexts | Commit, Open, Eval, in four implementations | each line is the sum over its own leaves; Eval of an opening is on the line; nothing is left on the heap or stack | `LineAlgebra`, `BLCState`, `BLCDefault`, `BLCMemopt`, `BLC`, proved |
| PIOP (`piop/`) | none between calls; cached products, batches of gammas, words of lanes | ComputePAlpha, RecomputePAlpha, in three implementations | batching and bit-slicing over executions change nothing | `PIOP`, `PIOPBitslice` |
| one-shot sign and verify (`sign.c`, `sign_memopt.c`) | windows of executions, two hash contexts, storage shared by dead and live values | Sign, Verify | both pipelines make one signature; no secret or context is left after a failure (proved) | `SignVerify`; as an abstract operation `VerifyOnce!Judge`, `PreSign!DirectSign` |
| public API (`crypto_sign.c`) | the caller's memory, with overlapping buffers | sign, open, signature, verify | the message comes back; lengths and buffers are consistent on failure | `CryptoSign`, proved |
| key generation, equations (`keygen.c`, `expand_mq.c`) | PRG carry, a row of the matrix, a partial sum | KeyGen, ExpandEquations | the streamed and the plain expansion agree; a key pair or nothing | `ExpandMQ`, `KeyGen`, proved |
| PRG, seed expansion (`prg.c`, `seed_expand*.h`) | carried block; key-schedule cache | chunked generation, one to eight seeds at once | chunking, width and caching change nothing | `PRGStream`, `SeedExpandBatch`, proved |
| fields (`fields/`, `fields_bitsliced/`) | none; registers, masked tails, panels, tiles | vectors and matrices over four fields, in four builds, and bit-sliced circuits | every build computes the sum of products of the definition and touches its own bytes only | `FieldLanes`, `FieldsRef`, `FieldsAvx2`, `FieldsAvx512`, `FieldsNeon`, `FieldCalls`, `FieldsBitsliced` |
| block ciphers (`rijndael/`) | key schedules in a context; registers, lanes, packed keys | key schedules, one block, several under as many keys, a buffer under one key, in several builds | every build computes the blocks of the reference | `Rijndael` (reference, AES-NI and VAES builds) |
| hashes (`sha3/`, `xof.c`) | | | | idealised |
| allocation tracking (`common.h`) | | | | not modelled |
| benchmarks, KAT, scripts (`benchmark/`, `generator/`, `*.py`, `integration/`) | | | | out of scope |

How they interact: a caller calls the public API, a pre-signature or a streaming
context. Signing commits (BLC) by pulling leaves out of a GGM tree or iterator, each
expanded by `SeedExpand` and folded into a line, computes the PIOP polynomials,
hashes, grinds for a challenge that BLC accepts as an opening set, and opens.
Verification derives the challenge from the nonce, feeds
the opening to the partial iterator, recomputes, hashes and compares. All calls
are synchronous; everything is shared by pointer with the one caller.

## Conventions

*Bytes and computations.* A byte of a signature is its offset; whatever is
computed from bytes is the record of what it was computed from. Two computations
agree exactly when their inputs do. This is the ideal-hash view of the code: a
bug that feeds a hash something else, in another order, or twice shows; a
collision does not. In `IdMatches` the comparison of identifiers succeeds only
when every hash input is the signer's. Seeds of a tree are the number of their
node, and `Junk` is any block that is no seed of the tree.

*Linear data.* Where the code adds, a value is the set of what was added, under
symmetric difference: in `LineAlgebra` a block is a set of encryptions under named
keys; in `FieldLanes` an element of GF(256) is a set of products of symbols, in
`FieldsBitsliced` a bit is a set of products of bits. One equality of such sets is
the equality for all values of the symbols, and a term taken twice, missed or read
from the neighbour changes the set. In the vector code every byte that is not the
caller's is `Outside`, which stays in any sum or product it enters, even one with
zero: it is the access that counts, not the value. The PIOP is computed on numbers
instead, in GF(4), because its equations are of degree two in data it also branches
and caches on.

*Ciphers.* In `Rijndael` the reference gives bytes their names: byte, block, key and
number of rounds done. The byte a round computes has the next name only when the four
bytes and the round key it is made of are those of the reference, and is `Garbled`
otherwise, for good. A word of a key schedule is the set of what it is the exclusive
or of: key words, S-box images and round constants.

*Bytes in a stream.* A byte of a PRG stream is its key, block and offset
(`PRGStream`); a counter that was never encrypted and what a buffer held before are
values of their own.

*Calls and steps.* A call that only fails or only returns is one step. A call
whose loop can be observed half way (an internal failure leaves it there) takes
one step per round, with `ret = "running"` until it returns; no other call on
that object is possible in between. Every internal call may fail: the failing
variant of each step leaves exactly what the code has written by then.

*Fairness.* Only rounds in which nothing fails are weakly fair: the loop is
straight-line code of the calling thread, so once entered it runs. Nothing
obliges a caller to call, or a call to fail. `UpdateReturns`, `SearchEnds` and
the return of every iterator call (the fairness of `LeafStream`, through
`LeavesInOrder`) rest on it.

*Mutated definitions.* A definition marked `(wrong on purpose)` is a plausible
slip in the definition after it. It is used by no specification; substituting it
must break the property `PROJECT.json` ("mutants") names, which shows that the
property sees that code.

## Modules

**`VerifyOnce`** is what a verifying context promises: bytes are taken, never
past the end of the signature; the verdict is given once, by Finalize on a
complete signature, and is "accepted" exactly for a genuine signature of the
message with no failed call; after a rejection every call is refused. Its
`Judge` is `Verify_default()` of `sign.c`.

**`StreamedVerifyCT`** is `verify_stream_ct.c`. The first chunk is the header,
the TAU others one execution each; `unprocessed` is the reassembly buffer. The
evaluations and alphas of up to `STREAM_VERIFY_BATCH` executions wait in slots
and are flushed to both hashes together. The variables are the fields of
`CT_stream_verify_ctx_t` plus the caller's side (which signature it feeds, what
it has fed, the call in progress). `UpdateRefused`, `UpdateCall`,
`UpdateOverlong`, `UpdateBuffer`, `ProcessHeader` and `ProcessExecution` are the
paths through Update; `ProcessHeader(TRUE)` and `ProcessExecutionFails` its
error exits, with the hashes as far as they had got.

**`StreamedVerifyOT`** is `verify_stream_ot.c`: the header and the prefix (path,
hidden commitments, offsets of all executions) share a heap buffer that is freed
once the prefix has been evaluated in passes of `BLC_OT_BATCH_SIZE`; the alphas
then arrive one execution at a time. `heap` is what is allocated, `prefix_ptr`
whether the context points to the buffer.

**`LargeGGMTree`** has the layout, the node set of an opening and the seeds of
the large tree, without state. TAU * N is not a power of two, so leaves are at
two depths and the deep ones come first.

**`LeafStream`** is what any leaf iterator promises: all leaves (or groups of
leaves), in order, once, with the expected seeds, and then the end; a failure ends
it early. Each of the library's leaf iterators is shown to implement it.

**`LargeGGMOpening`** composes both ends of an opening. The signer walks the tree
(`LargeGGMTree_ExpandPath` in `ggm_tree_large_dfs.c`; `GetNodeIndexesInPath` and
`LargeGGMTree_Open` make the same walk over a tree that was kept), the verifier's
partial iterator consumes the path. `Init` ranges over every opening set a
challenge can give, and over the empty one, for which there is no opening and the
iterator is the signer's own (`LargeGGMTree_GetNextLeaf`, the same loop on nodes
that are all known). `Reveals` is the decision both sides take at a free node.

**`LargeGGMPair`** is `ggm_tree_large_incr_batch.c`: `inner` the stack of sibling
pairs of `run_pair_engine`, `buf` the leaf that waits for the next call; the verifier's
stack of nodes without a seed is `stack` again. A subtree the path has a seed for is
handed from it to the engine, which empties `inner` before the outer stack goes on. `build`
chooses between this one, the plain iterators of `LargeGGMOpening`, and the calls of
`ggm_tree_large_dfs.c` that write all leaves into an array.

**`LargeGGMBfs`** is `ggm_tree_large_bfs.c`, in the order in which a signature that
keeps no tree uses it: `ExpandLeavesOnly_bfs` to commit, `ExpandPath_bfs` (and so
`Expand_bfs`) to open, `PartiallyExpand_bfs` to verify. `width` is the build's
batch, of four or eight nodes; the verifier scans a level node by node, batches
those it has a seed for and derives the batch when it is full. At the end of a level
`TailOfFour` derives the first four of a tail of four to seven nodes and shifts the rest
down, and `TailNode` derives what is left node by node, so that any of these calls can
be the one that fails. The full levels of the signer are not cut that way:
`bfs_derive_level` has its groups of 8, 4 and 1 follow one another from the first parent
to the last, and `DeriveLevel` is the level they add up to. Its
variables start with `b_` and its specification is `BfsSpec`, so that one module can
prove things about it and about the traversals by depth.

**`SmallGGMTree`** has the seeds of a small tree, the key each level is derived
under, and its two openings, without state. `SeedDerive` gives `Junk` under the
wrong level's key or for a block that is no seed of that level.

**`SmallGGMExpand`** is `ggm_tree_small.c`: the signer's expansion, the opening from
the kept tree or by `ExpandPath`, the verifier's `PartiallyExpand`, one bulk
derivation per step. A bulk derivation is the in-place pass of
`ggm_tree_common_ecb.h`: ciphertexts are laid where children go and interleaved
backward. The walks of `SmallGGMTree`, the pass and the iterators' paths and levels are
recursive functions of one argument whose step has a name of its own (`StepDown`,
`Interleaved`, `DeriveNode`, `NextLevel`, `Corrected`), which is what the proofs need.

**`SmallGGMIncr`** extends it with the iterators of `ggm_tree_small_incr.c`
(`BATCH_LOG = 0`) and `ggm_tree_small_incr_batch.c` (otherwise), for the signer and
the verifier, on the opening `SmallGGMExpand` produced. `path` is the path to the
last unit, `Resumed` and `ResumedPartial` where a call takes it up again, `KeyOf`
the caches of tweaked salts and key schedules.

**`PreSign`** is `sign_pre.c` and its caller. A buffer is its clear `rnd` and four
slots; masks and fields are symbolic, so that a payload in clear, under the wrong
mask, or read at the wrong place is visible. The caller may copy live buffers and
mix the two levels of the API; `kept` counts what it keeps that way.

**`Grinding`** is the search of `SampleChallenge` in its builds: `K` nonces per
trial, or one on the scalar path, which returns errors differently. The cipher and
the hash are a fixed but arbitrary `class` of each nonce.

**`PRGStream`** is `prg.c`: `PRG` at once, and `PRG_memopt` with the block it
carries from one call to the next.

**`SeedExpandBatch`** is `SeedExpand` for one seed, two, four and eight, its rounds
of blocks, its output in slices and its cache of key schedules
(`seed_expand_impl.h`, `seed_expand_xn_impl.h`, `seed_expand_cache.h`). The cache
answers by block number alone, so a batch is a number of calls that share one.

**`ExpandMQ`** and **`KeyGen`** are `expand_mq.c` and `keygen.c`: all equations in
batches of eight, four and one, against a context that returns one row at each
update; the system evaluated whole, against row by row; every failure of both, and
`crypto_sign_keypair`.

**`LineAlgebra`** has the data of a batch line commitment and what it should be:
`Row`s of leaves, Gray-code buckets, the line of an execution. Its recursion, and that of
the folding in `BLCMemopt`, are recursive functions, so that they can be reasoned about.

**`BLCState`** has the state that all implementations share and the exchange: a
signer commits and opens, a verifier evaluates, each call in any build.
**`BLCDefault`** is `blc_ct_default.c` and `blc_ot_default.c` (whole trees on the
heap, groups of `GROUP` leaves), **`BLCMemopt`** is `blc_ct_memopt.c` and
`blc_ot_memopt.c` (leaves out of an iterator, a slot for each execution of a pass).
A step is one execution or one round of a pass; every allocation, context and
cipher call may fail. **`BLC`** puts them together and states the properties.

**`PIOP`** is `piop_default.c` and `piop_memopt.c` over GF(4), with the operations of
`fields.h` they use, **`PIOPBitslice`** is
`piop_bitslice.c` with `fields_bitsliced.h`: packing executions into lanes, x among
them, and the leftover executions one by one. They are functions without state.

**`SignVerify`** is `Sign` and `Verify` of `sign.c` and `sign_memopt.c` over a PIOP
of the three kinds and a line commitment that is what `BLC` promises. `x0`, `u0`
and `u1` are places that alphas, windows and the opening overwrite in some builds;
`active` are the XOF contexts open and `held` the objects with secrets, so that an
error exit can leave something behind.

**`CryptoSign`** is `crypto_sign.c` over one memory: the message, the signed message
and what is opened are intervals of it that may overlap in any way. `too_long` is a
length so large that it leaves no room for the signature below `SIZE_MAX`, which is
refused before anything is read; the comparisons of `crypto_sign_verify` and
`crypto_sign_open` with `SIZE_MAX`, compiled only where `size_t` is narrower than the
length, are left out.

**`FieldLanes`** has elements, memory, registers and the macros of
`fields_common.h`. **`FieldsRef`**, **`FieldsAvx2`**, **`FieldsAvx512`** and
**`FieldsNeon`** are the four builds of every vector and matrix function: words and
tiles, registers and masked tails, panels whose multiples are kept, triangular rows.
Registers are scaled to `Reg` bytes. **`FieldCalls`** dispatches a call as
`fields.h` does, gives it its arguments and says what it should return;
packing, parsing and serialization (on machines of both endiannesses) and the
tables of logarithms are there too.

**`FieldsBitsliced`** are the circuits of `fields_bitsliced/`: products of two
secrets, by a secret constant (masks) and by a public one (branches on the
constant), in the basis of the standard and of the composite representation, next
to the scalar product they stand for.

**`Rijndael`** is AES-128, AES-256 and Rijndael-256 in the C reference, with AES-NI, and
with VAES in registers of 128, 256 or 512 bits: the key schedules, of one key or of
several packed in the lanes of registers; the rounds on half blocks with the
permutation that makes the ShiftRows of AES that of Rijndael-256; the ladder of group
sizes in which a buffer under one key is encrypted.

**`StreamedVerifyCTProofs`**, **`StreamedVerifyOTProofs`**, **`PreSignProofs`** and
**`BLCProofs`** hold the proofs about the modules they are named after,
**`LargeGGMProofs`** those about `LargeGGMTree`, `LargeGGMOpening`, `LargeGGMPair` and
`LargeGGMBfs`, **`SmallGGMProofs`** those about `SmallGGMTree`, `SmallGGMExpand` and
`SmallGGMIncr`, **`KernelProofs`** those about `PRGStream`, `SeedExpandBatch`, `ExpandMQ`,
`KeyGen` and `Grinding`, **`SignatureProofs`** those about `SignVerify` and `CryptoSign`.

**`MCBLC`**, **`MCKernels`**, **`MCPreSign`** and **`MCSignature`** choose the
instances that a configuration file cannot write down. The other runs check a
module directly.

## Runs

| Run | Instance | States | Shows |
|---|---|---|---|
| `stream_ct` | 5 executions, batch 2, header 3 bytes, chunk 2, parts of 0..14 bytes (one more than a signature) | 672 | type correctness, `BuffersHoldPending` (`Reassembled`, `SlotsHoldPending`), `TranscriptIsPrefix`, refinement of `VerifyOnce`, Update returns |
| `stream_ot` | 5 executions, batch 2, passes of 3, header 2, prefix 4, alpha 2, parts of 0..17 | 858 | `BufferInvariant` (`TypeOK`, `PrefixBufferOwned`), `TranscriptIsPrefix`, refinement of `VerifyOnce` |
| `ggm_opening` | TAU 3, N 4: 12 leaves at two depths, T_OPEN 5, all 64 opening sets and the signer's iterator; one node, two nodes, one call | 19 278 | stacks fit; `OpeningExact` (`SensitiveNodesExact`, `BudgetExact`), `HiddenLeavesKept` (`NothingHiddenRevealed`, `HiddenSeedsPlaced`), `EngineInvariant` (`PairsTogether`, `PathUsedUp`), `BulkExact`; all iterators refine `LeafStream` |
| `ggm_bfs` | TAU 2, N 12: 24 leaves, 16 deep and 8 shallow, T_OPEN 7, batches of 4 and of 8, all 144 hidden pairs | 28 008 | `LevelInvariant` (`SameTree`, `MarkedIsDerived`), `LeavesRecovered` |
| `small_ggm` | 16 leaves, bulk derivations of at most 4 nodes, one cached key schedule, one and four leaves per call, every hidden leaf and one out of range | 9 252 | `KeptTreeOpens` (`OpeningsAgree`, `HiddenPathSecret`, `LeavesRecovered`), `ReadsOnlyWritten`, `PathInvariant` (`TypeOK`, `PathIsCurrent`), refinement of `LeafStream` by the iterators |
| `blc` | 3 executions of 16 leaves, groups of 8, 13 builds, 3 challenges, any call failing | 50 443 | `CommitIsLine`, `EvalIsOnLine`, `NothingLeft` |
| `blc_alloc` | the same, OT only | | a counterexample to `SuccessMeansWritten` |
| `presign` | two buffers, two messages, two keys, two commitments, one copy each | 12 915 | `NoPlaintextLeft`, `UsedOncePerPresig`, `AnswersAreSignatures` (`TypeOK`, `MatchesDirectSign`, `AnswerComplete`) |
| `presign_reuse` | the same | | a counterexample to `ReusedBufferFails` |
| `grinding` | 8 nonces, one, two and four per trial, all 3^8 classifications | 282 631 | `SearchExact` (`NonceIsFirst`, `FailureMeansNone`), `SameChallenge`, `SearchEnds` |
| `signature` | 5 executions, 2 unknowns and 2 equations over GF(4), two keys, windows of 1 to 5 and of more than there are, words of 2 to 8 lanes, each part of the signature changed or none; memory of 7 cells | 70 278 | `SignatureExact`, `VerdictExact`, `NothingKept`, `OpenReturnsMessage` |
| `kernels` | registers of 4 bytes, vectors of up to 12 elements, blocks of 3 bytes, 5 unknowns, 13 equations; three ciphers in nine builds, up to 8 keys, buffers of 1 to 8, 15, 16, 23 and 31 blocks | 21 577 | `RowsAreSlices`, `KeyPairExact`, `ExpandsAlike`, `VectorsExact`, `CiphersExact` |

Why the bounds are enough. In both streaming runs TAU is a multiple of neither
the batch nor the pass, so full and partial batches occur; header, chunks and
prefix differ in size; a part can be empty, end anywhere, span several chunks and
go past the end. The byte values are offsets, so larger chunks add nothing but
offsets. The large trees have leaves at both depths, hidden leaves of one execution
next to each other and far apart, and budgets that leave opening sets below, at and
above them. With 24 leaves the breadth-first levels are wide enough for a
full batch of eight or four, and for tails of less than four nodes, of four, and of
more, which are split and shifted down. Sixteen leaves
and chunks of four give levels below, at and above a chunk, a hidden node at either
end of a run and inside it; four leaves per call leave two levels above a unit and
two below, one with a cached schedule and one without. Two commitments, buffers and
keys are what it takes to confuse one with another; `MaxKept` 1 lets the caller
break single use once. Eight nonces make eight, four or two trials: a nonce can be
first, last, in another trial or in none, and the counter wraps.

Sixteen leaves in groups of eight make two groups of an execution, so that what one
group leaves in a cache or a buffer meets the next; three executions are not a
multiple of a pass of two, and the challenges hide the first and the last leaf, the
last of a group, the first of the next and one inside. Five executions make every
window from one to five partial or whole, and fill words of two to eight lanes in
each way: leftover executions alone, x in a word of its own, x in the last lane.
Thirteen equations are a batch of eight, one of four and one of one; rows of one to
five elements of two bytes start and end at each offset of a block of three and
span up to four of them. Twelve elements of one or two bytes are up to six registers
of four, three panels of two, two tiles of eight, and with every smaller length each
tail; the code's loops look at nothing but the register size, which is scaled from
16, 32 or 64, and no tail is handled by a rule that depends on more than "whole
lanes" and "bytes left". A bit-sliced circuit is evaluated on symbols, so for all
elements; when it branches on a constant it is so for every constant of GF(256), and
for GF(256^2) for halves with no bit, one bit and all bits. The tables of logarithms are taken as the powers of the generator and all
pairs are multiplied. Buffers of 1 to 8, 15, 16, 23 and 31 blocks end after every group of
the ladders, which have groups of 16, 8, 6, 4, 2 and 1, and one block before; eight
keys, all different, tell every lane and register from the others.

Deadlock is checked except where the system stops: a finished search (`grinding`),
an opening refused as too large (`ggm_opening`), one pass of an expansion (`ggm_bfs`,
`small_ggm`), the end of an exchange or of a call (`blc`, `signature`, `kernels`).

### An observation on the small batch iterators

In `ggm_tree_small_incr_batch.c` the key schedules that are not cached are computed
into a pointer that is NULL on failure, and `ERR_NULL` (`common.h:252`) jumps to the
exit without setting `ret`. When an earlier derivation of the same call has left
`ret = 0` there (lines 162, 176, 250, 265), the call returns 0 and the caller's
leaves are not written, or only in part. `GetNextLeafFails` has that outcome and
`key_failed` records it; `LeavesInOrder` counts such a call as failed whatever it
returns, so no property is broken by the code that returns 0 there, and the hazard is
listed without one. No document claims otherwise and no key schedule of the repository fails on
a valid context, so this is not listed as a finding.

### The findings

`README.md` says of `crypto_sign_finalize()` that the buffer is wiped after use
and that "reusing that same buffer fails cleanly instead of silently succeeding"
(lines 139-142, again at 172). `presign_reuse` shows prepare, finalize, finalize,
the last returning 0: a wiped buffer is unmasked into noise and nothing between
`sign_pre.c:262` and `sign_pre.c:343` can tell noise from a commitment key. The
result is not a reopening of the commitment, which the wipe does prevent
(`UsedOncePerPresig`), but it is not a failure either. `sign_pre.h:128-131` says
no more than that zeroed data is processed.

`api.h:49` says that signing "Returns 0 (success)". `blc_alloc` shows the default OT
build returning 0 from a commitment that was not computed: `OT_BLC_Commit_default`
(`blc_ot_default.c:72`) allocates `lseed_e` after the expansion of the tree has set
`ret` to 0, and `ERR_NULL` only jumps to the exit. When that allocation is refused,
`com1`, `x0`, `u0`, `u1` and `delta_x` are what they were, and the callers go on to a
signature. `CommitIsLine` is therefore stated for calls in which no allocation failed
at that place (`~oom`).

## Proofs

`StreamedVerifyCTProofs` proves, for every TAU, batch size, chunk sizes, maximal
part and message set allowed by `CTAssumption` (all sizes positive):

- `TypeCorrect`, `BuffersCorrect`, `TranscriptCorrect`: the invariants of the
  `stream_ct` run;
- `Implements`: `Spec => OneShot!Spec`, the refinement of `VerifyOnce`.

The inductive invariant `IInv` is the conjunction of those (`BuffersHoldPending`
being two) with two more:
`RunningIsActive` (a call in progress is an Update of an active context with bytes
left) and `HeaderSeen` (an active context past its first chunk has a good header,
and no call of its session failed). None of them is inductive alone: that the
transcripts are prefixes needs the slots to hold the right executions, these need
the buffer to hold the right bytes, and that needs a chunk to start only where
the last one ended. The refinement then is a case split over the actions under
`IInv`; the Finalize step needs that with `num_current_chunk = TAU + 1` nothing is
pending, so both transcripts are the one-shot ones and the verdicts agree. The
lemmas `Sizes` and `Offsets` are the arithmetic of chunks.

`KernelProofs` proves about `Grinding`, for every number of nonces and every set of
builds whose batch sizes divide it (`GrindingAssumption`):

- `TypeCorrect`, `SearchCorrect`, `ChallengesAgree`: the invariants of the
  `grinding` run.

The inductive invariant adds to them `NothingMissed` (as long as no failed call
was mistaken for a rejection, no good nonce lies below the counter of a running
search, and none below the nonce of a finished one) and `SearchAnswered` (what a search
that succeeded has returned). The step that matters is the end of a batch: the
counter is a multiple of `K` and so is the number of nonces (`Boundary`), so it
wraps to 0 after the last batch and at no other time. That the first and the last
nonce of a set exist (`Smallest`, `Largest`) comes from the well-foundedness of
the naturals, and from a bound for the last.

`StreamedVerifyOTProofs` proves, for every TAU, batch, pass and chunk sizes allowed by
`OTAssumption` (positive, the header no longer than the prefix):

- `BuffersCorrect`, `TranscriptCorrect`: the invariants of the `stream_ot` run;
- `Implements`: the refinement of `VerifyOnce`.

The invariant has the parts of the CT proof and `CommitmentsMade`: in the third phase
the context has the commitment of every execution, made out of a buffer that is gone.
It is needed because the alphas, and so both transcripts, are computed from these
commitments. The step that establishes it is the release of the prefix;
`PassesCover` is its arithmetic: passes of `OT_BATCH` executions, the last one
shorter, cover all of them. That the buffer is on the heap exactly while the context
points to it (`PrefixBufferOwned`) is inductive only together with the phase the
failing steps leave.

`PreSignProofs` proves, for every finite set of buffers, any keys and messages, and any
bound on commitments and copies (`PreSignAssumption`):

- `NothingInClear`, `OneUse`, `Answers`: the invariants of the `presign` run.

They speak of idle states. `IInv` says what holds in the middle of a call: `Contents`
(each buffer is zeroed or sealed as a whole under one key and one commitment, but for
the one `Sign_Prepare` is filling), `Fresh` (a commitment not made yet is nowhere),
`Counts` (the uses of a commitment and the buffers that hold it are at most one more
than the copies kept, where a presig whose use is counted but which is not wiped yet is
not counted twice), `Scratch` and `SigWhole` (what the plaintext copy and the
signature hold at each step). The counting is why `Buf` has to be finite: the steps
that seal, copy and wipe a buffer change a cardinality by one.

`KernelProofs` proves about the expansions, for every block length, row size, number of unknowns and
equations that are positive (`PRGAssumption`, `ExpandMQAssumption`), in every build, and
for every call of seed expansion (`AllJobs`: any function, width, number of seeds, length
and cache):

- `RowsCorrect`, `KeyPairCorrect`: the invariants of `KeyGen` in the `kernels` run;
  `KeyGenInvariant`: the inductive invariant `KGInv` they follow from;
- `SeedExpandCorrect`: that of `SeedExpandBatch`; `SeedExpandInvariant`: its `SEInv`.

What a call to the PRG returns is a slice of one stream. That `PRG_memopt`, called once
for each row, continues the slice of the call before is `SliceExact`: the block it
carries begins where the division of the bytes given so far by the block length says,
whatever the lengths. `KGInv` says at each step which rows are there, which are multiplied
(`RowsParsed`, `RowsMultiplied`), what each equation has added (`Evaluation`) and what is
written of the keys; `SEInv` that a cell of the cache, when it is set, has the schedule of
its block (`CellsRight`) and which bytes of each seed are written (`WrittenSoFar`).

`SignatureProofs` proves, for every number of executions, unknowns and equations
(`PIOPAssumption`), every key that solves its system and every set of lines
(`SignAssumption`), every window and every build:

- `SignaturesExact`, `VerdictsExact`: the invariants `SignatureExact` and `VerdictExact`
  of the `signature` run, from the inductive invariant of `SignVerifyExact`;
- `SignVerifyInvariant`: the invariant `SVInv`, by which at each step the contexts open
  and the secrets held are among those that the end of the call releases and wipes;
  `NothingIsKept`: so none is left by a call that has returned; `FailuresAreReported`:
  a call that failed on the way returns an error and a signature of zeroes;
- `CryptoSignInvariant`: what is in memory at each step (`CSInv`), for all places and
  lengths of the caller's buffers; `OpenCorrect`: what `crypto_sign_open` returns is the
  message that was signed, or nothing. `CSInv` has to follow the message through both
  moves, since a move may go over its own source.

The argument about signatures has three parts. *Algebra*: sums over a range satisfy their
recursion (`TotalSteps`, from the existence and uniqueness of the recursive function), so
products of vectors are linear, `P_z` is a line because the square of `x` solves the
equations (`SquareVanishes`, `PzIsLine`), `P_alpha` is one too, and its value at a point
with `alpha1` gives its value at zero (`AlphaExact`). This part holds in any field of
characteristic two; it is carried out in GF(4), the field of `PIOP`. *Builds*: gammas in
groups, cached products, executions in batches (`DefaultSigns`, `BatchesSign` and their
counterparts for a verifier), and the lanes (`SlicedSigns`, `SlicedVerifies`). For lanes,
`LaneVector` says that a vector is in lane `k` of an array of words, and every operation
on words is the operation of the vectors in each lane; the executions left over, and a
lane taken for `x` or by none, are cases of the same statement. *Calls*: `Exact` says
what a call has at each step. Of the window, the executions that are there
(`FilledSlots`), at their slots of `ws` and of `com1` (`LinesReady`), except `u0` and
`u1` where the alphas of this window have already taken their place; of the windows
before, the commitments, kept or absorbed (`ComsReady`), and the alphas of all batches
done (`AlphasReady`). A window that is shorter than the batch, a window start that is a
remainder (`Remainders`) and the concatenation of what was absorbed (`AbsorbedExact`) are
where an index could be off by one. What a signer is to compute is said by the key alone
(`Alpha0Of`, `Alpha1Of`), what a verifier is to compute by the key, the points and what
was changed, whether or not it opens; `VerdictOf` then says when the two hash inputs are
the same. Neither property is inductive by itself: they speak of the last step only.

`BLCProofs` proves, for both families, every number of executions, at least eight
leaves (`LineAssumption`: TAU at most 64, which `common.h:393` demands), every set of
builds and of challenges allowed by `BuildsAssumption` (a build without trees takes leaves
in chunks that divide their number) and groups of eight (`GroupAssumption`, the width the code is written for):

- `BatchControl`, `BatchHeld`, `BatchInvariant`: three invariants of every call, the
  last two relative to the first;
- `BatchNothingLeft`, `CommitCorrect`, `EvalCorrect`: the invariants of the `blc` run.

`Control` is which call is at which point, with which execution. `HeldInv` says that
what a call holds at a point is among what its end releases and wipes. `LineInv` says what
each call has computed: the lines, the commitments, the opening and the evaluations of the
executions below `exec`; in the default build the folding of the leaves of the groups
done, and that the cache has no other execution's schedule; in the low-memory
build that each slot of a pass has absorbed and folded the leaves processed (`Folded`,
`Absorbed`), and has in its buffer the others it was given (`Taken`, how many of the first
leaves of the interleaved tree are of one execution). None of the three properties is
inductive without it. The arithmetic is in the lemmas before it:

- after *m* leaves the accumulator is their sum and bucket *p* the sum of those whose
  bit *p* of the Gray code is not that of leaf *m* (`FoldStart`, `AccStep`,
  `BucketsStep`); after the last leaf, the rows whose point has bit *p* (`BucketsEnd`).
  From leaf to leaf one bit turns, that of the lowest bit set in the index
  (`LowestBit`, `GrayStep`), and the table and the position counted agree on it
  (`PlacesExact`);
- folding in groups through snapshots, leaf by leaf, and without buckets gives those sums
  (`SnapshotsExact`, `BucketedExact`, `SlowFoldExact`, `FoldedP0Exact`);
- the verifier's sums lack the hidden row, and with what was sent of `delta_x` they are
  still the value of the line at the hidden point (`HiddenSum`, `EvaluatedExact`); in the
  CT family the first block of `delta_x` is not sent, and is known because the leaves of a
  correlated tree add up to the witness (`CorrelatedTotal`).

Sums are over sets, so none of this is an induction over data; the recursive functions of
the model (`Pow2`, the snapshots, the rounds of a pass) are used through the
equations they satisfy, which hold because a function with these equations exists
(`PowersExist`, `AlikeThroughout`).

`LargeGGMProofs` proves, for every number of executions, of leaves per execution and of
seeds in an opening that `TreeAssumption` allows (*H* is the least height that holds
`TAU * N` leaves, and the budget is at most the leaves that are not hidden) and an even
number of leaves (`PairAssumption`, which `ggm_tree_large_incr_batch.c` checks when it is
compiled), for every challenge, in every build:

- `GGMTypeOK`, `GGMOpeningExact`, `GGMHiddenLeavesKept`, `GGMEngineInvariant`,
  `GGMBulkExact`: the invariants of the `ggm_opening` run;
- `GGMStream`: every iterator is a `LeafStream`, step by step; what it leaves to the run's
  `LeavesInOrder` is that a call returns;
- `GGMInvariant`: the inductive invariant `GGMInv` all of them follow from.

The argument is about one sequence of rounds. `GetNodeIndexesInPath` defines it (`IsWalk`
is a function with its equations); `SignerInv` says that a signer who has not failed is at
its last round so far, and `VerifierInv` that a verifier is at one of the rounds the signer
has made (`WalkAt`): its stack, its budget and its place in the path are those the signer
had there. So what the signer did at the node is what the verifier does, and the path,
which names no node, has the seed of this one next (`FollowWalk`). In the plain iterators
the nodes that have seeds lie on top of those of the walk (`StackOf`), in the pair iterators
they are in the second stack (`NodesOf`). The other half is order: the nodes on the stacks
and the leaf in the buffer cover exactly the leaves that were not returned, the next one on
top (`InOrder`). Neither half is inductive alone. The facts they rest on:

- *layout*: `LeafPosition` is a bijection from the leaves to the leaf nodes, in the order
  in which a left-first walk meets them although they are at two depths (`Positions`,
  `LevelOrder`, `SiblingOrder`); a stack of a walk has a node of a deeper level at each
  place, so at most *H* + 1 (`Heights`, `PushKeeps`), and a stack of pairs at most *H*
  (`PairsPush`);
- *hidden paths*: merging each path into the one before finds each ancestor of a hidden
  leaf once (`WalkUpInv`, `SensitiveNodes`); the number of them determines the size of the
  frontier (`FrontierSize`), since each node of a hidden path that is no leaf has two
  children and TAU of them are leaves (`HiddenLeafCount`);
- *budget*: the size is at any round what was revealed plus what is pending (`WalkOK`), so a
  node that is revealed fits the path (`RevealedFits`); a walk that has ended with budget
  left would have revealed every leaf that is not hidden, more than the budget
  (`WalkEnds`);
- *kept tree*: after node *k*, all children of the nodes up to *k* are seeds
  (`StoreChildrenKeeps`, `TreeExpanded`).

`GGMInv` speaks of walks of any length, so TLC cannot evaluate it; its consequences are
what the run checks.

The same module proves about `LargeGGMBfs`, for the same trees, every opening set and
every set of widths (`WidthsAssumption`, batches of four or eight):

- `BfsLevelInvariant`, `BfsLeavesRecovered`: the invariants of the `ggm_bfs` run;
  `BfsInvariant`: the inductive invariant `BfsInv` they follow from.

`BfsInv` says of the signer that its arrays hold the seeds of the levels derived so far,
and of the verifier that what is marked is on no hidden path, that the seed it holds there
is the node's, and that the children of every marked node it has passed are marked, but
for those of the nodes in the batch. It is not said anywhere that the verifier reaches
every leaf: the walk that builds the opening keeps each leaf that is not hidden below a
node that is revealed or pending (`LeavesKeptRound`), and an opening of full length leaves
nothing pending (`PathIsOpening`, by counting as above), so each such leaf has a marked
ancestor; and marks go down (`ClosedDownwards`).

`SmallGGMProofs` proves, for every depth of at least two levels and every number of keys
that are kept (`SmallTreeAssumption`), every size of a bulk derivation
(`ChunkAssumption`: a power of two no wider than a level) and every set of builds of the
iterators (`BatchAssumption`: a call returns a subtree smaller than the tree):

- `TreeOpens`, `PathKept`: the invariants of the `small_ggm` run; `NothingReadEarly`: its
  action property;
- `IteratorsStream`: every iterator is a `LeafStream`, step by step, as for the large tree.

`TreeInv` is about the expansions: up to which node the signer's level is derived, that
what is revealed lies beside the hidden path, and what the verifier has of the level it is
at and of the one below, on each side of the hole. A run has a whole number of bulk
derivations in its level, but the verifier's runs are cut at the hole, and the last one of
a level may start past its end; `ReadsOnlyWritten` holds because a run is clamped there.
`BulkExact` shows that the pass over ciphertexts laid where children go gives the children
of each node of the run, and nothing else: after *i* steps backward the nodes still to be
read are below those written. `WalkExact` that the walk from the root gives at each level
what is beside the path, `OpeningsExact` that it is what the kept tree has there.

`IteratorInv` adds what a context must hold between calls: the path to the unit returned
last, all of it for the signer, and for the verifier the part below where that path leaves
the hidden one (`Known`). A call changes it from the first level at which the paths to
consecutive units part (`ForkFacts`): there the node is the sibling of the one before
(`TurnExact`), and below it every turn is to the left (`GoesLeft`), since a unit and the
next differ as numbers do when one is added (`Carry`). A verifier that enters a subtree
for the first time takes its root from the opening; one that stays in it has left the
hidden path at the same level as for the unit before (`SameFork`), which is why the nodes
it reuses are there. Leaves come from the last node of the path (`SubtreeExact`), or, for
the unit with the hidden leaf, from a subtree of noise that is corrected level by level
(`HiddenExact`): at each level everything but the two children of the hidden node is
derived from a right node, and these two are overwritten. The keys that are looked up are
those of the level whatever is cached (`KeyExact`).

Only model-checked: all liveness; the bit-sliced and vector code of the fields
(`VectorsExact`) and the ciphers (`CiphersExact`), checked as equalities of sets of terms
for fixed sizes, whose general form is an induction over the length of each loop.

## Not modelled

- *Hashes* (`sha3/`, `xof.c`): straight-line primitives, most of them vendored, without
  state that outlives a call. They are ideal wherever they are used; what goes into them
  and in which order is what the modules are about.
- *Block ciphers*: `Rijndael` covers the reference, AES-NI and VAES builds, and takes the
  S-box and MixColumns for symbols, as the instructions do; the circuits of the S-box,
  the table, bit-sliced (`rijndael_ct64.c`), ARM and external ciphers are not modelled.
  Every other module takes a cipher for an ideal one.
- *Allocation tracking* (`common.h`): counts allocations in measuring builds and
  changes nothing.
- *Benchmarks, KAT generators, scripts and integration*: drivers around the library.
- In the field code: the intrinsics of each instruction set are the bytes they move.
- Collisions of a hash, and secrets kept in registers or by a compiler's copies:
  out of the models' view.
- A failing allocation or call is modelled wherever the code tests for it; code that
  does not test is modelled as not failing.

## Plan

What is left, in order of value:

1. `SignVerify` over `BLC` itself, instead of over what `BLC` promises, on a line of two
   executions; today the promise (`CommitIsLine`, `EvalIsOnLine`) is the interface.
2. Pre-signatures over the windows of `SignVerify`, so that a failure inside a window
   and the sealing of the buffer meet in one run.

## Running

A run of the table is its module and its configuration file in `PROJECT.json`:

    tlc -config StreamedVerifyCT.cfg StreamedVerifyCT
    tlc -config MCBLCAlloc.cfg MCBLC
    tlapm StreamedVerifyCTProofs.tla      (and the other modules of proofs)
