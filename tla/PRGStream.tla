------------------------------- MODULE PRGStream ------------------------------
(***************************************************************************)
(* The byte streams of prg.c: block k of a stream is the encryption of the *)
(* counter k under the seed.                                               *)
(*                                                                         *)
(* A byte is <<key, block, offset>>: which stream, which block, where in   *)
(* it.  Raw in place of the key is a counter that was never encrypted, and *)
(* Junk is what a buffer held before.  Buffers are functions from 0.       *)
(***************************************************************************)
EXTENDS Integers

CONSTANTS
  BlockSize,       \* MQOM3_PARAM_SEED_EQ_SIZE
  InplaceChunk     \* PRG_ECB_INPLACE_CHUNK

ASSUME PRGAssumption == /\ BlockSize \in Nat \ {0}
                        /\ InplaceChunk \in Nat \ {0}

Raw == -1
Junk == <<-2, 0, 0>>

Smaller(a, b) == IF a < b THEN a ELSE b

JunkBlock == [b \in 0 .. BlockSize - 1 |-> Junk]

\* The counter block k under the key; PRG_SET_CTR writes it under Raw.
CtrBlock(key, k) == [b \in 0 .. BlockSize - 1 |-> <<key, k, b>>]

(***************************************************************************)
(* PRG_enc_ecb_inplace: which of nblocks blocks are encrypted.  A back end *)
(* that refuses aliased buffers is fed through a scratch buffer of         *)
(* InplaceChunk blocks.                                                    *)
(***************************************************************************)
Encrypted(nblocks, aliasing) ==
  IF aliasing
    THEN 0 .. nblocks - 1
    ELSE UNION {off .. off + Smaller(nblocks - off, InplaceChunk) - 1 :
                off \in {o \in 0 .. nblocks - 1 : o % InplaceChunk = 0}}

\* The blocks first, first + 1, ... written as counters and encrypted in place.
Blocks(key, first, nblocks, aliasing) ==
  [k \in 0 .. nblocks - 1 |->
     CtrBlock(IF k \in Encrypted(nblocks, aliasing) THEN key ELSE Raw, first + k)]

PRG(key, nbytes, aliasing) ==
  LET nblocks == nbytes \div BlockSize
      full == Blocks(key, 0, nblocks, aliasing)
      tail == Blocks(key, nblocks, 1, aliasing)[0]
  IN  [b \in 0 .. nbytes - 1 |->
         IF b < nblocks * BlockSize
           THEN full[b \div BlockSize][b % BlockSize]
           ELSE tail[b - nblocks * BlockSize]]

-----------------------------------------------------------------------------
(***************************************************************************)
(* The bytes start .. start + n - 1 of a stream of blocks, continued from  *)
(* the block that the previous call cut in two and left in leftover.  run  *)
(* gives whole blocks, last the block that this call cuts.                 *)
(***************************************************************************)

\* Bytes taken from the leftover: only when the call goes past its block.
Carried(start, n) ==
  IF start % BlockSize # 0 /\ start \div BlockSize < (start + n) \div BlockSize
    THEN BlockSize - (start % BlockSize)
    ELSE 0

\* (wrong on purpose) The block of the leftover is encrypted once more.
FirstEnc_Again(start, n) == start \div BlockSize

\* The first block to encrypt; a block taken from the leftover is not.
FirstEnc(start, n) ==
  (start \div BlockSize) + (IF Carried(start, n) > 0 THEN 1 ELSE 0)

NFull(start, n) == ((start + n) \div BlockSize) - FirstEnc(start, n)

Treated(start, n) == Carried(start, n) + NFull(start, n) * BlockSize

CutsBlock(start, n) == (n - Treated(start, n)) % BlockSize # 0

Slice(start, n, leftover, run, last) ==
  LET treated == Treated(start, n)
      kept == IF CutsBlock(start, n) THEN last ELSE leftover
      from == IF treated = 0 THEN start % BlockSize ELSE 0
  IN  [leftover |-> kept,
       out |-> [b \in 0 .. n - 1 |->
                  IF b < Carried(start, n) THEN leftover[(start % BlockSize) + b]
                  ELSE IF b < treated
                    THEN run[(b - Carried(start, n)) \div BlockSize]
                            [(b - Carried(start, n)) % BlockSize]
                    ELSE kept[from + b - treated]]]

PRG_memopt_with_ctx(key, start, n, leftover, aliasing) ==
  Slice(start, n, leftover,
        Blocks(key, FirstEnc(start, n), NFull(start, n), aliasing),
        Blocks(key, (start + n) \div BlockSize, 1, aliasing)[0])

\* The same after a key schedule of its own.
PRG_memopt(key, start, n, leftover, aliasing) ==
  PRG_memopt_with_ctx(key, start, n, leftover, aliasing)

=============================================================================
