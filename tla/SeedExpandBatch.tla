---------------------------- MODULE SeedExpandBatch ---------------------------
(***************************************************************************)
(* SeedExpand (seed_expand_impl.h, seed_expand_xn_impl.h) and its cache of *)
(* key schedules (seed_expand_cache.h).  Output block k of a seed is its   *)
(* encryption under the salt tweaked with (e, k), xor-ed with a mask: a    *)
(* linear function of the seed in the OT family, the encryption under      *)
(* (e, 0) in the CT family, whose output blocks are numbered from 1.       *)
(*                                                                         *)
(* A batch is a number of calls that share a cache, made for the same      *)
(* executions; block size and slices are those of PRGStream.               *)
(***************************************************************************)
EXTENDS PRGStream, Sequences

(***************************************************************************)
(* The functions: the seeds of a call, the blocks of a round, the values   *)
(* that nb_contexts may have, and whether the output is asked for in       *)
(* slices.                                                                 *)
(***************************************************************************)
Function(lanes, wide, contexts, sliced) ==
  [lanes |-> lanes, wide |-> wide, contexts |-> contexts, sliced |-> sliced]

SeedExpand_memopt == Function(1, 1, {1}, TRUE)
SeedExpand_one_ctx == Function(1, 1, {1}, FALSE)
SeedExpand(num_blocks) == Function(1, num_blocks, {1}, FALSE)
SeedExpand_x2 == Function(2, 1, {1, 2}, FALSE)
SeedExpand_x4 == Function(4, 1, {1, 4}, FALSE)
SeedExpand_x8 == Function(8, 1, {1, 8}, FALSE)
SeedExpand_x8_ecb == Function(8, 1, {1}, FALSE)

(***************************************************************************)
(* A job: fn, the function; ot, the family; nb_contexts and es, the        *)
(* executions; prg_size, the bytes of a line, and n, those asked for; cut, *)
(* where the second slice starts; cached; and calls, how many are made.    *)
(***************************************************************************)
VARIABLES
  job,
  se_pc, se_ret,
  nth,               \* which call of the batch: it names the seeds
  cells,             \* the cache: the schedule in each active cell
  reached,           \* the cells read or written
  xor_mask,          \* one mask for each lane
  filled,            \* output blocks written
  out_data           \* [lanes -> bytes]

se_vars == <<job, se_pc, se_ret, nth, cells, reached, xor_mask, filled, out_data>>

Unwritten == <<>>

Lanes == 0 .. job.fn.lanes - 1
SeedOf(lane) == nth * 8 + lane

CEIL(a, b) == (a + b - 1) \div b

IndexIdentifier(e, j) == (e + 64 * j) % 65536

\* The executions of the lanes: one for all, or one for each.
ContextsFit == job.nb_contexts \in job.fn.contexts
ExecOf(lane) == IF job.nb_contexts = 1 THEN job.es[1] ELSE job.es[lane + 1]

IdxBase == IF job.ot THEN 0 ELSE 1

-----------------------------------------------------------------------------
(***************************************************************************)
(* The cache.                                                              *)
(***************************************************************************)
Inactive == <<>>

\* init_SeedExpand_cache: the cells for a seed and the bytes of the line.
Allocated(prg_size) == CEIL(prg_size + BlockSize, BlockSize)

\* The salts that a key schedule for block i takes, one for each lane.
TweakedSalts(i) == [lane \in Lanes |-> IndexIdentifier(ExecOf(lane), i)]

IsActive(i) == job.cached /\ i \in DOMAIN cells /\ cells[i] # Inactive

\* The schedule that SeedExpand_key_sched(.., i, ..) returns.
Schedule(i) == IF IsActive(i) THEN cells[i] ELSE TweakedSalts(i)

\* The cache after the schedules of the blocks of is.
CellsAfter(is) ==
  [i \in DOMAIN cells |->
     IF job.cached /\ i \in is /\ cells[i] = Inactive THEN TweakedSalts(i) ELSE cells[i]]

\* The schedules of is are made in order, all of them or up to one that fails.
KeySched(is, ok) ==
  \/ /\ ok
     /\ cells' = CellsAfter(is)
     /\ reached' = reached \cup is
  \/ /\ se_pc' = "done" /\ se_ret' = -1
     /\ \E bad \in {i \in is : ~IsActive(i)} :
          /\ cells' = CellsAfter({i \in is : i < bad})
          /\ reached' = reached \cup {i \in is : i <= bad}
     /\ UNCHANGED <<xor_mask, out_data>>

-----------------------------------------------------------------------------
(***************************************************************************)
(* The blocks.                                                             *)
(***************************************************************************)
Encryption(sched, seed) == <<sched, seed>>
LinOrtho(seed) == <<-1, seed>>

\* Output block c of a lane, encrypted and masked.
MaskedBlock(lane, c) ==
  [b \in 0 .. BlockSize - 1 |->
     <<Encryption(Schedule(IdxBase + c)[lane], SeedOf(lane)), xor_mask[lane], b>>]

\* out_data with n bytes from byte c * BlockSize on, for the blocks of cs.
Written(cs, n) ==
  [lane \in Lanes |->
     [b \in 0 .. job.n - 1 |->
        IF b \div BlockSize \in cs /\ b < n
          THEN MaskedBlock(lane, b \div BlockSize)[b % BlockSize]
          ELSE out_data[lane][b]]]

-----------------------------------------------------------------------------
SeedExpandInit(jobs, from) ==
  /\ job \in jobs
  /\ se_pc = from /\ se_ret = -1 /\ nth = 1
  /\ cells = IF job.cached
               THEN [i \in 0 .. Allocated(job.prg_size) - 1 |-> Inactive]
               ELSE <<>>
  /\ reached = {}
  /\ xor_mask = [lane \in Lanes |-> <<>>]
  /\ filled = 0
  /\ out_data = [lane \in Lanes |-> [b \in 0 .. job.n - 1 |-> Unwritten]]

SameJob == UNCHANGED <<job, nth>>

\* A wrong number of contexts, or the masks of the lanes.
StartCall ==
  /\ se_pc = "call"
  /\ UNCHANGED filled
  /\ \/ /\ ~ContextsFit
        /\ se_pc' = "done" /\ se_ret' = -1
        /\ UNCHANGED <<cells, reached, xor_mask, out_data>>
     \/ /\ ContextsFit /\ job.ot
        /\ xor_mask' = [lane \in Lanes |-> LinOrtho(SeedOf(lane))]
        /\ se_pc' = "blocks"
        /\ UNCHANGED <<se_ret, cells, reached, out_data>>
     \/ /\ ContextsFit /\ ~job.ot
        /\ KeySched({0},
             /\ xor_mask' = [lane \in Lanes |-> Encryption(Schedule(0)[lane], SeedOf(lane))]
             /\ se_pc' = "blocks"
             /\ UNCHANGED <<se_ret, out_data>>)
  /\ SameJob

Remaining == (job.n \div BlockSize) - filled

\* (wrong on purpose) Of six or seven, the pair after the four is forgotten.
ByPowers_NoPair(r) ==
  {k \in 0 .. r - 1 : \/ r >= 4 /\ k < 4
                      \/ r \in {2, 3} /\ k < 2
                      \/ r % 2 = 1 /\ k = r - 1}

(***************************************************************************)
(* The next round of whole blocks.  SeedExpand takes as many as it can and *)
(* then what is left in one go, by fours, twos and ones; the others take   *)
(* one block of all their seeds.                                           *)
(***************************************************************************)
ByPowers(r) ==
  {k \in 0 .. r - 1 : \/ r >= 4 /\ k < 4
                      \/ r % 4 >= 2 /\ k \in 4 * (r \div 4) .. 4 * (r \div 4) + 1
                      \/ r % 2 = 1 /\ k = r - 1}

Round ==
  IF Remaining >= job.fn.wide
    THEN filled .. filled + job.fn.wide - 1
    ELSE {filled + k : k \in ByPowers(Remaining)}

RoundSize == Smaller(Remaining, job.fn.wide)

\* The cells of a round.
CellsOf(cs) == {IdxBase + c : c \in cs}

ExpandBlocks ==
  /\ se_pc = "blocks" /\ ~job.fn.sliced /\ Remaining > 0
  /\ KeySched(CellsOf(Round),
       /\ out_data' = Written(Round, job.n)
       /\ UNCHANGED <<se_pc, se_ret, xor_mask>>)
  /\ filled' = filled + RoundSize
  /\ SameJob

\* The block that is cut off, if any.
LastBlock ==
  /\ se_pc = "blocks" /\ ~job.fn.sliced /\ Remaining = 0
  /\ IF job.n % BlockSize = 0
       THEN /\ se_pc' = "done" /\ se_ret' = 0
            /\ UNCHANGED <<cells, reached, xor_mask, out_data>>
       ELSE KeySched(CellsOf({filled}),
              /\ out_data' = Written({filled}, job.n)
              /\ se_pc' = "done" /\ se_ret' = 0
              /\ UNCHANGED xor_mask)
  /\ UNCHANGED filled
  /\ SameJob

(***************************************************************************)
(* SeedExpand_memopt: the bytes in two calls, the second continuing from   *)
(* the leftover of the first.                                              *)
(***************************************************************************)
BlocksOfSlice(start, n) ==
  (FirstEnc(start, n) .. FirstEnc(start, n) + NFull(start, n) - 1)
    \cup (IF CutsBlock(start, n) THEN {(start + n) \div BlockSize} ELSE {})

SliceOf(start, n, leftover) ==
  Slice(start, n, leftover,
        [k \in 0 .. NFull(start, n) - 1 |-> MaskedBlock(0, FirstEnc(start, n) + k)],
        MaskedBlock(0, (start + n) \div BlockSize))

ExpandSlices ==
  /\ se_pc = "blocks" /\ job.fn.sliced
  /\ KeySched(CellsOf(BlocksOfSlice(0, job.cut) \cup BlocksOfSlice(job.cut, job.n - job.cut)),
       \E first \in {SliceOf(0, job.cut, [b \in 0 .. BlockSize - 1 |-> Unwritten])} :
         \E second \in {SliceOf(job.cut, job.n - job.cut, first.leftover)} :
           /\ out_data' = [out_data EXCEPT ![0] =
                [b \in 0 .. job.n - 1 |-> IF b < job.cut THEN first.out[b]
                                          ELSE second.out[b - job.cut]]]
           /\ se_pc' = "done" /\ se_ret' = 0
           /\ UNCHANGED xor_mask)
  /\ UNCHANGED filled
  /\ SameJob

\* The next call of the batch, for other seeds and the same executions.
NextCall ==
  /\ se_pc = "done" /\ se_ret = 0 /\ nth < job.calls
  /\ nth' = nth + 1
  /\ se_pc' = "call" /\ se_ret' = -1
  /\ out_data' = [lane \in Lanes |-> [b \in 0 .. job.n - 1 |-> Unwritten]]
  /\ filled' = 0
  /\ UNCHANGED <<job, cells, reached, xor_mask>>

SeedExpandNext ==
  \/ StartCall \/ ExpandBlocks \/ LastBlock \/ ExpandSlices \/ NextCall

-----------------------------------------------------------------------------
(***************************************************************************)
(* Properties.                                                             *)
(***************************************************************************)

\* Byte b of a lane by the definition: only the execution, the number of the
\* block and the seed matter, not the function, its width or the cache.
Expected(lane, b) ==
  LET e == ExecOf(lane)
      mask == IF job.ot THEN LinOrtho(SeedOf(lane)) ELSE <<e, SeedOf(lane)>>
  IN  <<<<e + 64 * (IdxBase + b \div BlockSize), SeedOf(lane)>>, mask, b % BlockSize>>

\* Every function returns the bytes of the definition for each of its seeds,
\* whatever the calls before it left in the cache; a cache never answers for a
\* block it was not asked about, and no cell past the last is touched
\* (SeedExpand*, SeedExpand_key_sched, init_SeedExpand_cache).
ExpandsAlike ==
  /\ se_pc = "done" /\ se_ret = 0 =>
       \A lane \in Lanes : \A b \in 0 .. job.n - 1 : out_data[lane][b] = Expected(lane, b)
  /\ job.cached => reached \subseteq DOMAIN cells

=============================================================================
