------------------------ MODULE StreamedVerifyCTProofs ------------------------
(***************************************************************************)
(* Proofs about StreamedVerifyCT, for every TAU, batch size and chunk      *)
(* sizes, and every way of cutting the signature into parts:               *)
(*                                                                         *)
(*   Safety        the invariants the runs check hold in every state;      *)
(*   Implements    the streaming verifier implements VerifyOnce.           *)
(*                                                                         *)
(* The invariants are inductive only together: that both transcripts are   *)
(* prefixes of the one-shot ones needs the slots to hold the right chunks, *)
(* which needs the reassembly buffer to hold the right bytes, which stays  *)
(* in bounds because a new chunk only starts when the last one was         *)
(* complete.                                                               *)
(***************************************************************************)
EXTENDS StreamedVerifyCT, TLAPS

\* A call that has not returned is an Update that has bytes left.
RunningIsActive ==
  ret = "running" => live /\ state = "ACTIVE" /\ avail > 0 /\ call = <<"update">>

\* An active context that consumed a chunk holds the header, which was good,
\* and no call of its session failed.
HeaderSeen ==
  state = "ACTIVE" =>
    /\ ~faulty
    /\ (header_ok <=> num_current_chunk > 0)
    /\ num_current_chunk > 0 =>
         sig # "badheader" /\ sig_id = Bytes(0, HEADER_SIZE)

\* The inductive invariant.
IInv ==
  /\ TypeOK
  /\ RunningIsActive
  /\ HeaderSeen
  /\ Reassembled
  /\ SlotsHoldPending
  /\ TranscriptIsPrefix

-----------------------------------------------------------------------------
(***************************************************************************)
(* Sizes and offsets.                                                      *)
(***************************************************************************)

\* The sizes are numbers, and either kind of chunk fits the buffer.
LEMMA Sizes ==
  /\ SigSize \in Nat
  /\ LargestChunk \in Nat \ {0}
  /\ HEADER_SIZE <= LargestChunk /\ CHUNK_SIZE <= LargestChunk
BY CTAssumption DEF SigSize, LargestChunk

\* A chunk ends where the next one starts, the last one with the signature.
LEMMA Offsets ==
  ASSUME NEW c \in 0..TAU
  PROVE  /\ Base(c) \in Nat
         /\ Base(c + 1) = Base(c) + (IF c = 0 THEN HEADER_SIZE ELSE CHUNK_SIZE)
         /\ Base(c + 1) <= SigSize
         /\ Base(TAU + 1) = SigSize
<1>1. CASE c = 0
  <2>1. 0 * CHUNK_SIZE = 0 /\ TAU * CHUNK_SIZE \in Nat
    BY CTAssumption
  <2>2. QED BY <1>1, <2>1, CTAssumption DEF Base, SigSize
<1>2. CASE c > 0
  <2>1. c * CHUNK_SIZE = (c - 1) * CHUNK_SIZE + CHUNK_SIZE
    BY <1>2, CTAssumption
  <2>2. TAU * CHUNK_SIZE = c * CHUNK_SIZE + (TAU - c) * CHUNK_SIZE
    BY CTAssumption
  <2>3. /\ (c - 1) * CHUNK_SIZE \in Nat
        /\ (TAU - c) * CHUNK_SIZE \in Nat
        /\ c * CHUNK_SIZE \in Nat
    <3>1. \A a, b \in Nat : a * b \in Nat
      OBVIOUS
    <3>2. c - 1 \in Nat /\ TAU - c \in Nat /\ c \in Nat
      BY <1>2, CTAssumption
    <3>3. QED BY <3>1, <3>2, CTAssumption
  <2>4. QED BY <1>2, <2>1, <2>2, <2>3, CTAssumption DEF Base, SigSize
<1>3. QED BY <1>1, <1>2

-----------------------------------------------------------------------------
(***************************************************************************)
(* Sequences of contributions.                                             *)
(***************************************************************************)

\* Absorbing n more executions extends the prefix by n.
LEMMA PrefixExtended ==
  ASSUME NEW a \in Nat, NEW n \in Nat
  PROVE  /\ [i \in 1..a |-> ExecAlphas(i - 1)] \o
              [i \in 1..n |-> ExecAlphas(a + i - 1)]
            = [i \in 1..a+n |-> ExecAlphas(i - 1)]
         /\ [i \in 1..a |-> ExecEval(i - 1)] \o
              [i \in 1..n |-> ExecEval(a + i - 1)]
            = [i \in 1..a+n |-> ExecEval(i - 1)]
OBVIOUS

-----------------------------------------------------------------------------
(***************************************************************************)
(* One round of the loop of Update.                                        *)
(***************************************************************************)

\* What an action that handles bytes may assume.
Round == IInv /\ InUpdate /\ ChunksLeft

\* A round consumes at least one byte, and never past its chunk.
LEMMA RoundConsumes ==
  ASSUME Round
  PROVE  /\ {NextChunkSize, ToCopy, pos, avail, fed} \subseteq Nat
         /\ num_current_chunk \in 0..TAU
         /\ NextChunkSize \in 1..LargestChunk
         /\ pos \in 0..NextChunkSize-1
         /\ ToCopy \in 1..avail
         /\ pos + ToCopy \in 1..NextChunkSize
         /\ Base(num_current_chunk) \in Nat
         /\ fed = Base(num_current_chunk) + pos
         /\ Base(num_current_chunk + 1) = Base(num_current_chunk) + NextChunkSize
         /\ Base(num_current_chunk + 1) <= SigSize
         /\ state = "ACTIVE"
<1>1. num_current_chunk \in 0..TAU /\ state = "ACTIVE" /\ avail \in Nat \ {0}
  BY CTAssumption DEF Round, IInv, TypeOK, RunningIsActive, InUpdate, ChunksLeft
<1>2. pos \in Nat /\ pos < NextChunkSize /\ fed = Base(num_current_chunk) + pos
  BY <1>1, Sizes DEF Round, IInv, TypeOK, Reassembled
<1>3. NextChunkSize \in 1..LargestChunk
  BY <1>1, Sizes, CTAssumption DEF NextChunkSize
<1>4. ToCopy \in 1..avail /\ pos + ToCopy \in 1..NextChunkSize
  BY <1>1, <1>2, <1>3, Sizes DEF ToCopy
<1>5. {NextChunkSize, ToCopy, pos, avail, fed} \subseteq Nat
  BY <1>1, <1>2, <1>3, <1>4, Sizes DEF Round, IInv, TypeOK
<1>6. QED BY <1>1, <1>2, <1>3, <1>4, <1>5, Offsets DEF NextChunkSize

\* The bytes copied land behind those already there.
LEMMA RoundCopies ==
  ASSUME Round, CopyPart
  PROVE  /\ unprocessed' \in [0..LargestChunk-1 -> Int]
         /\ fed' = Base(num_current_chunk) + pos + ToCopy
         /\ fed' \in 0..SigSize
         /\ \A i \in 0..pos+ToCopy-1 :
              unprocessed'[i] = Base(num_current_chunk) + i
<1>1. fed' = Base(num_current_chunk) + pos + ToCopy /\ fed' \in 0..SigSize
  <2>1. fed' = fed + ToCopy
    BY DEF CopyPart
  <2>2. /\ ToCopy \in Nat /\ pos \in Nat /\ NextChunkSize \in Nat
        /\ Base(num_current_chunk) \in Nat /\ SigSize \in Nat
        /\ fed = Base(num_current_chunk) + pos
        /\ pos + ToCopy <= NextChunkSize
        /\ Base(num_current_chunk) + NextChunkSize <= SigSize
    BY RoundConsumes, Sizes
  <2>3. QED BY <2>1, <2>2
<1>2. unprocessed \in [0..LargestChunk-1 -> Int]
  BY DEF Round, IInv, TypeOK
<1>3. \A i \in 0..pos-1 : unprocessed[i] = Base(num_current_chunk) + i
  BY RoundConsumes DEF Round, IInv, Reassembled
<1>4. unprocessed' = [i \in 0..LargestChunk-1 |->
                       IF i \in pos..pos+ToCopy-1 THEN fed + i - pos
                                                  ELSE unprocessed[i]]
  BY DEF CopyPart
<1>5. fed \in Nat /\ pos \in Nat /\ ToCopy \in Nat /\ LargestChunk \in Nat
  BY RoundConsumes, Sizes DEF Round, IInv, TypeOK, InUpdate
<1>6. unprocessed' \in [0..LargestChunk-1 -> Int]
  BY <1>2, <1>4, <1>5
<1>7. ASSUME NEW i \in 0..pos+ToCopy-1
      PROVE  unprocessed'[i] = Base(num_current_chunk) + i
  <2>1. i \in 0..LargestChunk-1
    BY RoundConsumes, <1>5
  <2>2. CASE i < pos
    BY <1>3, <1>4, <1>5, <2>1, <2>2
  <2>3. CASE i >= pos
    <3>1. unprocessed'[i] = fed + i - pos
      BY <1>4, <1>5, <2>1, <2>3
    <3>2. fed = Base(num_current_chunk) + pos /\ Base(num_current_chunk) \in Nat
      BY RoundConsumes
    <3>3. QED BY <1>5, <3>1, <3>2
  <2>4. QED BY <2>1, <2>2, <2>3, <1>5
<1>8. QED BY <1>1, <1>6, <1>7

\* A completed chunk is, byte for byte, the next one of the signature.
LEMMA RoundCompletes ==
  ASSUME Round, CompletesChunk
  PROVE  /\ fed' = Base(num_current_chunk + 1)
         /\ num_current_chunk = 0 => Chunk(HEADER_SIZE)' = Bytes(0, HEADER_SIZE)
         /\ num_current_chunk > 0 =>
              Chunk(CHUNK_SIZE)' = ExecBytes(num_current_chunk - 1)
<1>1. fed' = Base(num_current_chunk + 1)
  BY RoundCopies, RoundConsumes DEF CompletesChunk
<1>2. \A i \in 0..NextChunkSize-1 : unprocessed'[i] = Base(num_current_chunk) + i
  BY RoundCopies, RoundConsumes DEF CompletesChunk
<1>3. CASE num_current_chunk = 0
  <2>1. NextChunkSize = HEADER_SIZE /\ Base(num_current_chunk) = 0
    BY <1>3 DEF NextChunkSize, Base
  <2>2. QED BY <1>1, <1>2, <1>3, <2>1, CTAssumption DEF Chunk, Bytes
<1>4. CASE num_current_chunk > 0
  <2>1. /\ NextChunkSize = CHUNK_SIZE
        /\ Base(num_current_chunk) =
             HEADER_SIZE + (num_current_chunk - 1) * CHUNK_SIZE
    BY <1>4 DEF NextChunkSize, Base
  <2>2. Base(num_current_chunk) \in Nat
    BY RoundConsumes
  <2>3. Chunk(CHUNK_SIZE)' = Bytes(Base(num_current_chunk), CHUNK_SIZE)
    BY <1>2, <2>1, <2>2, CTAssumption DEF Chunk, Bytes
  <2>4. QED BY <1>1, <1>4, <2>1, <2>3 DEF ExecBytes
<1>5. QED BY <1>1, <1>3, <1>4, RoundConsumes

-----------------------------------------------------------------------------
(***************************************************************************)
(* Every action preserves the invariant.                                   *)
(***************************************************************************)

\* A zeroed context satisfies it.
LEMMA ZeroedContext ==
  ASSUME CtxZero, fed' = 0, faulty' = FALSE, avail' = 0, live' \in BOOLEAN,
         sig' \in Sigs, ret' = "ok"
  PROVE  IInv'
<1>1. TypeOK'
  <2>1. NoEval \in [exec : Int, from : Seq(Int)] /\ NoBytes \in Seq(Int)
    BY DEF NoEval, Eval, NoBytes
  <2>2. unprocessed' \in [0..LargestChunk-1 -> Int]
    BY DEF CtxZero
  <2>3. /\ alpha1_batch' \in [0..BATCH-1 -> Seq(Int)]
        /\ eval_batch' \in [0..BATCH-1 -> [exec : Int, from : Seq(Int)]]
    BY <2>1 DEF CtxZero
  <2>4. /\ com2_ctx' \in Seq([i_star : Int, alpha1 : Seq(Int),
                              eval : [exec : Int, from : Seq(Int)]])
        /\ presigid_ctx' \in Seq([exec : Int, from : Seq(Int)])
    BY DEF CtxZero
  <2>5. QED BY <2>2, <2>3, <2>4, Sizes, CTAssumption DEF TypeOK, CtxZero
<1>2. RunningIsActive' /\ HeaderSeen'
  BY DEF RunningIsActive, HeaderSeen, CtxZero
<1>3. Reassembled'
  BY CTAssumption DEF Reassembled, CtxZero, Base, NextChunkSize
<1>4. SlotsHoldPending'
  BY CTAssumption DEF SlotsHoldPending, CtxZero
<1>5. TranscriptIsPrefix'
  <2>1. num_current_chunk' = 0 /\ com2_ctx' = <<>> /\ presigid_ctx' = <<>>
    BY DEF CtxZero
  <2>2. Absorbed' = 0
    BY <2>1 DEF Absorbed
  <2>3. QED BY <2>1, <2>2 DEF TranscriptIsPrefix
<1>6. QED BY <1>1, <1>2, <1>3, <1>4, <1>5 DEF IInv

\* The invariant does not mention what call was made last.
LEMMA ContextUnchanged ==
  ASSUME IInv, UNCHANGED <<session, ctx>>, ret' \in {"ok", "fail"}
  PROVE  IInv'
<1>1. TypeOK' /\ RunningIsActive' /\ HeaderSeen' /\ Reassembled'
  BY DEF IInv, TypeOK, RunningIsActive, HeaderSeen, Reassembled, session, ctx,
         chunking, header, batch, hashes, NextChunkSize
<1>2. SlotsHoldPending' /\ TranscriptIsPrefix'
  BY DEF IInv, SlotsHoldPending, TranscriptIsPrefix, Absorbed, ctx,
         chunking, header, batch, hashes
<1>3. QED BY <1>1, <1>2 DEF IInv

LEMMA UpdateCallPreserves ==
  ASSUME IInv, NEW n \in 0..MaxPart, UpdateCall(n)
  PROVE  IInv'
<1>1. TypeOK' /\ RunningIsActive' /\ HeaderSeen' /\ Reassembled'
  <2>1. /\ live /\ state = "ACTIVE" /\ call' = <<"update">> /\ avail' = n
        /\ ret' = IF n = 0 THEN "ok" ELSE "running"
        /\ UNCHANGED <<live, sig, fed, faulty>>
        /\ UNCHANGED <<state, num_current_chunk, pos, unprocessed, header_ok, sig_id,
                       batch_count, alpha1_batch, eval_batch, com2_ctx, presigid_ctx>>
    BY DEF UpdateCall, Idle, ctx, chunking, header, batch, hashes
  <2>2. ret' \in {"ok", "running"} /\ avail' \in 0..MaxPart /\ (n # 0 => avail' > 0)
    BY <2>1, CTAssumption
  <2>3. TypeOK'
    BY <2>1, <2>2 DEF IInv, TypeOK
  <2>4. RunningIsActive'
    BY <2>1, <2>2 DEF RunningIsActive
  <2>5. HeaderSeen' /\ Reassembled'
    BY <2>1 DEF IInv, HeaderSeen, Reassembled, NextChunkSize
  <2>6. QED BY <2>3, <2>4, <2>5
<1>2. SlotsHoldPending' /\ TranscriptIsPrefix'
  BY DEF IInv, UpdateCall, SlotsHoldPending, TranscriptIsPrefix, Absorbed, ctx,
         chunking, header, batch, hashes
<1>3. QED BY <1>1, <1>2 DEF IInv

\* A latched context only has to keep its types.
LEMMA LatchPreserves ==
  ASSUME IInv, Latch, TypeOK'
  PROVE  IInv'
BY DEF IInv, Latch, RunningIsActive, HeaderSeen, Reassembled,
       SlotsHoldPending, TranscriptIsPrefix

LEMMA UpdateOverlongPreserves ==
  ASSUME IInv, UpdateOverlong
  PROVE  IInv'
<1>1. TypeOK'
  <2>1. /\ state' = "FAILED" /\ ret' = "fail" /\ avail' = 0
        /\ UNCHANGED <<live, sig, fed, faulty, num_current_chunk, pos, unprocessed, header_ok,
                       batch_count, alpha1_batch, eval_batch, com2_ctx, presigid_ctx>>
    BY DEF UpdateOverlong, Latch, header, batch, hashes
  <2>2. avail' \in 0..MaxPart
    BY <2>1, CTAssumption
  <2>3. QED BY <2>1, <2>2 DEF IInv, TypeOK
<1>2. QED BY <1>1, LatchPreserves DEF UpdateOverlong

LEMMA UpdateBufferPreserves ==
  ASSUME IInv, UpdateBuffer
  PROVE  IInv'
<1>1. /\ Round
      /\ CopyPart
      /\ pos + ToCopy < NextChunkSize
      /\ pos' = pos + ToCopy
      /\ avail' = avail - ToCopy
      /\ ret' = IF avail' = 0 THEN "ok" ELSE "running"
      /\ UNCHANGED <<live, sig, faulty, call, state, num_current_chunk, header_ok,
                     sig_id>>
      /\ UNCHANGED batch
  BY DEF UpdateBuffer, Round, header
<1>2. /\ pos' \in 0..NextChunkSize-1 /\ pos' \in 0..LargestChunk
      /\ avail' \in 0..MaxPart
  <2>1. avail \in 0..MaxPart /\ MaxPart \in Nat
    BY CTAssumption DEF IInv, TypeOK
  <2>2. QED BY <1>1, <2>1, RoundConsumes, Sizes
<1>3. TypeOK'
  <2>1. unprocessed' \in [0..LargestChunk-1 -> Int] /\ fed' \in 0..SigSize
    BY <1>1, RoundCopies
  <2>2. ret' \in {"ok", "running"}
    BY <1>1
  <2>3. QED BY <1>1, <1>2, <2>1, <2>2 DEF IInv, TypeOK, batch, hashes
<1>4. RunningIsActive' /\ HeaderSeen'
  BY <1>1, <1>2, RoundConsumes
  DEF IInv, RunningIsActive, HeaderSeen, InUpdate, Round
<1>5. Reassembled'
  <2>1. fed' = Base(num_current_chunk') + pos'
    BY <1>1, RoundCopies, RoundConsumes
  <2>2. \A i \in 0..pos'-1 : unprocessed'[i] = Base(num_current_chunk') + i
    BY <1>1, RoundCopies, RoundConsumes
  <2>3. num_current_chunk' <= TAU /\ NextChunkSize' = NextChunkSize
    BY <1>1, RoundConsumes, CTAssumption DEF NextChunkSize
  <2>4. QED BY <2>1, <2>2, <2>3, <1>1, <1>2, RoundConsumes, CTAssumption
            DEF Reassembled, Base
<1>6. /\ UNCHANGED <<state, num_current_chunk, batch_count, alpha1_batch,
                     eval_batch>>
      /\ UNCHANGED <<com2_ctx, presigid_ctx>>
      /\ Absorbed' = Absorbed
  BY <1>1 DEF batch, hashes, Absorbed
<1>7. SlotsHoldPending'
  BY <1>6 DEF IInv, SlotsHoldPending
<1>8. TranscriptIsPrefix'
  BY <1>6 DEF IInv, TranscriptIsPrefix
<1>9. QED BY <1>3, <1>4, <1>5, <1>7, <1>8 DEF IInv

\* What every completed chunk establishes: the buffer is ready for the next.
LEMMA ChunkDoneAdvances ==
  ASSUME Round, CompletesChunk, ChunkDone
  PROVE  /\ num_current_chunk' = num_current_chunk + 1
         /\ num_current_chunk' \in 1..TAU+1
         /\ pos' = 0 /\ state' = "ACTIVE"
         /\ avail' \in 0..MaxPart /\ ret' \in {"ok", "running"}
         /\ fed' \in 0..SigSize
         /\ unprocessed' \in [0..LargestChunk-1 -> Int]
         /\ UNCHANGED <<live, sig>>
         /\ RunningIsActive'
         /\ Reassembled'
<1>1. /\ CopyPart
      /\ pos + ToCopy = NextChunkSize
      /\ num_current_chunk' = num_current_chunk + 1
      /\ pos' = 0
      /\ avail' = avail - ToCopy
      /\ ret' = IF avail' = 0 THEN "ok" ELSE "running"
      /\ UNCHANGED <<live, sig, call, state>>
  BY DEF CompletesChunk, ChunkDone
<1>2. avail' \in 0..MaxPart
  <2>1. avail \in 0..MaxPart /\ MaxPart \in Nat
    BY CTAssumption DEF Round, IInv, TypeOK
  <2>2. QED BY <1>1, <2>1, RoundConsumes
<1>3. ret' \in {"ok", "running"}
  BY <1>1
<1>4. /\ fed' \in 0..SigSize /\ unprocessed' \in [0..LargestChunk-1 -> Int]
      /\ fed' = Base(num_current_chunk + 1)
  BY <1>1, RoundCopies, RoundCompletes
<1>5. num_current_chunk' \in 1..TAU+1 /\ state' = "ACTIVE"
  BY <1>1, RoundConsumes, CTAssumption
<1>6. RunningIsActive'
  BY <1>1, <1>2, <1>5, RoundConsumes
  DEF Round, IInv, RunningIsActive, InUpdate
<1>7. Reassembled'
  <2>1. fed' = Base(num_current_chunk') + pos'
    <3>1. Base(num_current_chunk + 1) \in Nat
      BY RoundConsumes, CTAssumption
    <3>2. QED BY <1>1, <1>4, <3>1
  <2>2. \A i \in 0..pos'-1 : unprocessed'[i] = Base(num_current_chunk') + i
    BY <1>1
  <2>3. pos' < NextChunkSize'
    BY <1>1, <1>5, CTAssumption DEF NextChunkSize
  <2>4. QED BY <1>1, <2>1, <2>2, <2>3 DEF Reassembled, Base
<1>8. QED BY <1>1, <1>2, <1>3, <1>4, <1>5, <1>6, <1>7

\* A chunk that fails leaves everything in its type.
LEMMA ChunkFailedLatches ==
  ASSUME Round, CompletesChunk, ChunkFailed
  PROVE  /\ pos' \in 0..LargestChunk
         /\ avail' = 0 /\ ret' = "fail" /\ state' = "FAILED"
         /\ fed' \in 0..SigSize
         /\ unprocessed' \in [0..LargestChunk-1 -> Int]
         /\ UNCHANGED <<live, sig, num_current_chunk>>
<1>1. pos' = pos + ToCopy /\ CopyPart
  BY DEF CompletesChunk, ChunkFailed
<1>2. fed' \in 0..SigSize /\ unprocessed' \in [0..LargestChunk-1 -> Int]
  BY <1>1, RoundCopies
<1>3. pos' \in 0..LargestChunk
  BY <1>1, RoundConsumes, Sizes
<1>4. QED BY <1>2, <1>3 DEF CompletesChunk, ChunkFailed, Latch

LEMMA ProcessHeaderPreserves ==
  ASSUME IInv, NEW fault \in BOOLEAN, ProcessHeader(fault)
  PROVE  IInv'
<1>1. /\ Round /\ CompletesChunk
      /\ num_current_chunk = 0
      /\ sig_id' = Chunk(HEADER_SIZE)'
      /\ faulty' = (faulty \/ fault)
  BY DEF ProcessHeader, Round, CompletesChunk
<1>2. sig_id' = Bytes(0, HEADER_SIZE)
  BY <1>1, RoundCompletes
<1>3. CASE fault \/ sig = "badheader"
  <2>1. ChunkFailed /\ UNCHANGED <<header_ok, batch>>
    BY <1>3 DEF ProcessHeader
  <2>2. TypeOK'
    BY <1>1, <2>1, ChunkFailedLatches, CTAssumption
    DEF IInv, TypeOK, batch, hashes
  <2>3. QED BY <2>1, <2>2, LatchPreserves DEF ChunkFailed
<1>4. CASE ~(fault \/ sig = "badheader")
  <2>1. /\ ChunkDone
        /\ header_ok' = TRUE /\ com2_ctx' = <<>> /\ presigid_ctx' = <<>>
        /\ UNCHANGED <<batch_count, alpha1_batch, eval_batch>>
    BY <1>4 DEF ProcessHeader
  <2>2. batch_count = 0 /\ state = "ACTIVE" /\ ~faulty
    BY <1>1, RoundConsumes, CTAssumption
    DEF IInv, TypeOK, SlotsHoldPending, HeaderSeen
  <2>3. num_current_chunk' = 1 /\ Absorbed' = 0
    BY <1>1, <2>1, <2>2 DEF ChunkDone, Absorbed
  <2>4. RunningIsActive' /\ Reassembled'
    BY <1>1, <2>1, ChunkDoneAdvances
  <2>5. TypeOK'
    <3>1. /\ com2_ctx' \in Seq([i_star : Int, alpha1 : Seq(Int),
                                eval : [exec : Int, from : Seq(Int)]])
          /\ presigid_ctx' \in Seq([exec : Int, from : Seq(Int)])
      BY <2>1
    <3>2. faulty' \in BOOLEAN /\ header_ok' \in BOOLEAN
      BY <1>1, <2>1
    <3>3. pos' \in 0..LargestChunk
      BY <1>1, <2>1, ChunkDoneAdvances, Sizes
    <3>4. /\ batch_count' \in 0..BATCH
          /\ alpha1_batch' \in [0..BATCH-1 -> Seq(Int)]
          /\ eval_batch' \in [0..BATCH-1 -> [exec : Int, from : Seq(Int)]]
      BY <2>1 DEF IInv, TypeOK
    <3>5. /\ live' \in BOOLEAN /\ sig' \in Sigs
          /\ fed' \in 0..SigSize /\ avail' \in 0..MaxPart
          /\ ret' \in {"ok", "fail", "running"} /\ state' \in {"ACTIVE", "FAILED", "DONE"}
          /\ num_current_chunk' \in 0..TAU+1
          /\ unprocessed' \in [0..LargestChunk-1 -> Int]
      BY <1>1, <2>1, ChunkDoneAdvances, CTAssumption DEF IInv, TypeOK
    <3>6. QED BY <3>1, <3>2, <3>3, <3>4, <3>5 DEF TypeOK
  <2>6. HeaderSeen'
    BY <1>1, <1>2, <1>4, <2>1, <2>2, <2>3, ChunkDoneAdvances DEF HeaderSeen
  <2>7. SlotsHoldPending'
    BY <2>1, <2>2, CTAssumption DEF SlotsHoldPending
  <2>8. TranscriptIsPrefix'
    BY <2>1, <2>3 DEF TranscriptIsPrefix
  <2>9. QED BY <2>4, <2>5, <2>6, <2>7, <2>8 DEF IInv
<1>5. QED BY <1>3, <1>4

\* The types of an evaluation and of one execution's alphas.
EvalT == [exec : Int, from : Seq(Int)]
AlphasT == [i_star : Int, eval : EvalT, alpha1 : Seq(Int)]

\* The free slot receives the evaluation of the chunk just completed, the slots
\* below it keep theirs.
LEMMA SlotFilled ==
  ASSUME Round, CompletesChunk, num_current_chunk > 0,
         alpha1_batch' = [alpha1_batch EXCEPT ![batch_count] = Chunk(CHUNK_SIZE)'],
         eval_batch' = [eval_batch EXCEPT ![batch_count] =
                          Eval(num_current_chunk - 1, Chunk(CHUNK_SIZE)')]
  PROVE  /\ alpha1_batch' \in [0..BATCH-1 -> Seq(Int)]
         /\ eval_batch' \in [0..BATCH-1 -> EvalT]
         /\ batch_count \in 0..BATCH-1
         /\ Absorbed = num_current_chunk - 1 - batch_count /\ Absorbed \in Nat
         /\ \A b \in 0..batch_count :
              /\ eval_batch'[b] = ExecEval(Absorbed + b)
              /\ alpha1_batch'[b] = ExecBytes(Absorbed + b)
<1> DEFINE e == num_current_chunk - 1
<1>1. e \in 0..TAU-1 /\ state = "ACTIVE"
  BY RoundConsumes, CTAssumption
<1>2. batch_count \in 0..BATCH-1
  BY <1>1, CTAssumption DEF Round, IInv, TypeOK, SlotsHoldPending
<1>3. Absorbed = e - batch_count /\ Absorbed \in Nat
  BY <1>1, <1>2, CTAssumption DEF Absorbed, Round, IInv, SlotsHoldPending
<1>4. Chunk(CHUNK_SIZE)' = ExecBytes(e)
  BY RoundCompletes
<1>5. ExecBytes(e) \in Seq(Int)
  <2>1. Base(num_current_chunk) \in Nat /\ ExecBytes(e) = Bytes(Base(num_current_chunk), CHUNK_SIZE)
    BY <1>1, RoundConsumes DEF Base, ExecBytes
  <2>2. QED BY <2>1, CTAssumption DEF Bytes
<1>6. Eval(e, ExecBytes(e)) = ExecEval(e) /\ ExecEval(e) \in EvalT
  BY <1>1, <1>5 DEF ExecEval, Eval, EvalT
<1>7. /\ alpha1_batch \in [0..BATCH-1 -> Seq(Int)]
      /\ eval_batch \in [0..BATCH-1 -> EvalT]
  BY DEF Round, IInv, TypeOK, EvalT
<1>8. /\ alpha1_batch' = [alpha1_batch EXCEPT ![batch_count] = ExecBytes(e)]
      /\ eval_batch' = [eval_batch EXCEPT ![batch_count] = ExecEval(e)]
  BY <1>4, <1>6
<1>9. /\ alpha1_batch' \in [0..BATCH-1 -> Seq(Int)]
      /\ eval_batch' \in [0..BATCH-1 -> EvalT]
  BY <1>2, <1>5, <1>6, <1>7, <1>8
<1>10. ASSUME NEW b \in 0..batch_count
       PROVE  /\ eval_batch'[b] = ExecEval(Absorbed + b)
              /\ alpha1_batch'[b] = ExecBytes(Absorbed + b)
  <2>1. CASE b = batch_count
    <3>1. Absorbed + b = e
      BY <1>1, <1>2, <1>3, <2>1
    <3>2. QED BY <1>2, <1>7, <1>8, <2>1, <3>1
  <2>2. CASE b # batch_count
    <3>1. b \in 0..batch_count-1 /\ b \in 0..BATCH-1
      BY <1>2, <2>2, CTAssumption
    <3>2. /\ eval_batch[b] = ExecEval(Absorbed + b)
          /\ alpha1_batch[b] = ExecBytes(Absorbed + b)
      BY <1>1, <3>1 DEF Round, IInv, SlotsHoldPending
    <3>3. QED BY <1>7, <1>8, <2>2, <3>1, <3>2
  <2>3. QED BY <2>1, <2>2
<1>11. QED BY <1>2, <1>3, <1>9, <1>10

\* What the two transcripts hold has the type of a transcript.
LEMMA TranscriptTypes ==
  ASSUME NEW n \in 0..TAU
  PROVE  /\ [i \in 1..n |-> ExecAlphas(i - 1)] \in Seq(AlphasT)
         /\ [i \in 1..n |-> ExecEval(i - 1)] \in Seq(EvalT)
<1>1. ASSUME NEW i \in 1..n
      PROVE  ExecBytes(i - 1) \in Seq(Int)
  <2>1. /\ Base(i) \in Nat
        /\ ExecBytes(i - 1) = Bytes(Base(i), CHUNK_SIZE)
    BY Offsets, CTAssumption DEF Base, ExecBytes
  <2>2. ASSUME NEW s \in Nat, NEW size \in Nat
        PROVE  Bytes(s, size) \in Seq(Int)
    BY DEF Bytes
  <2>3. QED BY <2>1, <2>2, CTAssumption
<1>2. ASSUME NEW i \in 1..n
      PROVE  ExecEval(i - 1) \in EvalT /\ ExecAlphas(i - 1) \in AlphasT
  BY <1>1 DEF ExecEval, Eval, EvalT, ExecAlphas, Alphas, AlphasT
<1>3. n \in Nat
  BY CTAssumption
<1>4. QED BY <1>2, <1>3

LEMMA ProcessExecutionPreserves ==
  ASSUME IInv, ProcessExecution
  PROVE  IInv'
<1> DEFINE e == num_current_chunk - 1
           n == batch_count + 1
<1>1. /\ Round /\ CompletesChunk /\ ChunkDone
      /\ num_current_chunk > 0
      /\ alpha1_batch' = [alpha1_batch EXCEPT ![n - 1] = Chunk(CHUNK_SIZE)']
      /\ eval_batch' = [eval_batch EXCEPT ![n - 1] = Eval(e, Chunk(CHUNK_SIZE)')]
      /\ IF FlushDue(n, e) THEN FlushBatch(n, e - n + 1)
                           ELSE batch_count' = n /\ UNCHANGED hashes
      /\ UNCHANGED <<faulty, header_ok, sig_id>>
  BY DEF ProcessExecution, Round, CompletesChunk, header
<1>2. num_current_chunk \in 1..TAU /\ state = "ACTIVE"
  BY <1>1, RoundConsumes, CTAssumption
<1>3. batch_count \in Nat /\ n - 1 = batch_count
  BY DEF IInv, TypeOK
<1>4. /\ alpha1_batch' \in [0..BATCH-1 -> Seq(Int)]
      /\ eval_batch' \in [0..BATCH-1 -> EvalT]
      /\ batch_count \in 0..BATCH-1
      /\ Absorbed = e - batch_count /\ Absorbed \in Nat
      /\ \A b \in 0..batch_count :
           /\ eval_batch'[b] = ExecEval(Absorbed + b)
           /\ alpha1_batch'[b] = ExecBytes(Absorbed + b)
  BY <1>1, <1>3, SlotFilled
<1>5. e - n + 1 = Absorbed
  BY <1>2, <1>3, <1>4
<1>6. /\ com2_ctx = [i \in 1..Absorbed |-> ExecAlphas(i - 1)]
      /\ presigid_ctx = [i \in 1..Absorbed |-> ExecEval(i - 1)]
  BY <1>2 DEF IInv, TranscriptIsPrefix
<1>7. /\ num_current_chunk' = num_current_chunk + 1
      /\ num_current_chunk' \in 2..TAU+1
      /\ state' = "ACTIVE"
  BY <1>1, <1>2, ChunkDoneAdvances, CTAssumption
<1>8. HeaderSeen'
  BY <1>1, <1>2, <1>7, ChunkDoneAdvances DEF IInv, HeaderSeen
<1>9. ASSUME batch_count' \in 0..BATCH,
             com2_ctx' \in Seq(AlphasT), presigid_ctx' \in Seq(EvalT)
      PROVE  TypeOK'
  <2>1. pos' \in 0..LargestChunk
    BY <1>1, ChunkDoneAdvances, Sizes
  <2>2. num_current_chunk' \in 0..TAU+1
    BY <1>7, CTAssumption
  <2>3. live' \in BOOLEAN /\ sig' \in Sigs /\ faulty' \in BOOLEAN
        /\ header_ok' \in BOOLEAN
    BY <1>1, ChunkDoneAdvances DEF IInv, TypeOK
  <2>4. /\ fed' \in 0..SigSize /\ unprocessed' \in [0..LargestChunk-1 -> Int]
        /\ avail' \in 0..MaxPart /\ ret' \in {"ok", "fail", "running"}
        /\ state' \in {"ACTIVE", "FAILED", "DONE"}
    BY <1>1, ChunkDoneAdvances
  <2>5. QED BY <1>4, <1>9, <2>1, <2>2, <2>3, <2>4 DEF TypeOK, EvalT, AlphasT
<1>10. CASE FlushDue(n, e)
  <2>1. /\ batch_count' = 0
        /\ com2_ctx' = com2_ctx \o BatchAlphas(n, Absorbed)
        /\ presigid_ctx' = presigid_ctx \o [i \in 1..n |-> eval_batch'[i - 1]]
    BY <1>1, <1>5, <1>10 DEF FlushBatch
  <2>2. Absorbed' = Absorbed + n /\ Absorbed' \in 0..TAU
    BY <1>2, <1>3, <1>4, <1>7, <2>1, CTAssumption DEF Absorbed
  <2>3. ASSUME NEW i \in 1..n
        PROVE  /\ eval_batch'[i - 1] = ExecEval(Absorbed + i - 1)
               /\ Alphas(Absorbed + i - 1, eval_batch'[i - 1], alpha1_batch'[i - 1])
                    = ExecAlphas(Absorbed + i - 1)
    <3>1. i - 1 \in 0..batch_count /\ Absorbed + (i - 1) = Absorbed + i - 1
      BY <1>3, <1>4
    <3>2. QED BY <1>4, <3>1 DEF ExecAlphas
  <2>4. /\ BatchAlphas(n, Absorbed) = [i \in 1..n |-> ExecAlphas(Absorbed + i - 1)]
        /\ [i \in 1..n |-> eval_batch'[i - 1]]
             = [i \in 1..n |-> ExecEval(Absorbed + i - 1)]
    BY <2>3 DEF BatchAlphas
  <2>5. /\ com2_ctx' = [i \in 1..Absorbed' |-> ExecAlphas(i - 1)]
        /\ presigid_ctx' = [i \in 1..Absorbed' |-> ExecEval(i - 1)]
    <3>1. n \in Nat /\ Absorbed \in Nat
      BY <1>3, <1>4
    <3>2. QED BY <1>6, <2>1, <2>2, <2>4, <3>1, PrefixExtended
  <2>6. com2_ctx' \in Seq(AlphasT) /\ presigid_ctx' \in Seq(EvalT)
    BY <2>2, <2>5, TranscriptTypes
  <2>7. SlotsHoldPending' /\ TranscriptIsPrefix'
    <3>1. SlotsHoldPending'
      BY <2>1, CTAssumption DEF SlotsHoldPending
    <3>2. TranscriptIsPrefix'
      BY <2>5 DEF TranscriptIsPrefix
    <3>3. QED BY <3>1, <3>2
  <2>8. TypeOK'
    BY <1>9, <2>1, <2>6, CTAssumption
  <2>9. QED BY <1>1, <1>8, <2>7, <2>8, ChunkDoneAdvances DEF IInv
<1>11. CASE ~FlushDue(n, e)
  <2>1. batch_count' = n /\ UNCHANGED <<com2_ctx, presigid_ctx>>
    BY <1>1, <1>11 DEF hashes
  <2>2. n < BATCH /\ num_current_chunk' \in 2..TAU
    BY <1>2, <1>3, <1>4, <1>7, <1>11, CTAssumption DEF FlushDue
  <2>3. Absorbed' = Absorbed
    BY <1>2, <1>3, <1>4, <1>7, <2>1 DEF Absorbed
  <2>4. com2_ctx' \in Seq(AlphasT) /\ presigid_ctx' \in Seq(EvalT)
    BY <2>1 DEF IInv, TypeOK, AlphasT, EvalT
  <2>5. \A b \in 0..batch_count'-1 :
           /\ eval_batch'[b] = ExecEval(Absorbed' + b)
           /\ alpha1_batch'[b] = ExecBytes(Absorbed' + b)
    BY <1>3, <1>4, <2>1, <2>3
  <2>6. SlotsHoldPending'
    BY <1>3, <1>4, <2>1, <2>2, <2>3, <2>5 DEF SlotsHoldPending
  <2>7. TranscriptIsPrefix'
    BY <1>6, <2>1, <2>3 DEF TranscriptIsPrefix
  <2>8. TypeOK'
    BY <1>3, <1>9, <2>1, <2>2, <2>4, CTAssumption
  <2>9. QED BY <1>1, <1>8, <2>6, <2>7, <2>8, ChunkDoneAdvances DEF IInv
<1>12. QED BY <1>10, <1>11

\* So is a chunk, whatever comes of it.
LEMMA ChunkType ==
  ASSUME Round, CompletesChunk, num_current_chunk > 0
  PROVE  Chunk(CHUNK_SIZE)' \in Seq(Int)
<1>1. Chunk(CHUNK_SIZE)' = ExecBytes(num_current_chunk - 1)
  BY RoundCompletes
<1>2. /\ Base(num_current_chunk) \in Nat
      /\ ExecBytes(num_current_chunk - 1)
           = Bytes(Base(num_current_chunk), CHUNK_SIZE)
  BY RoundConsumes DEF Base, ExecBytes
<1>3. QED BY <1>1, <1>2, CTAssumption DEF Bytes

LEMMA ProcessExecutionFailsPreserves ==
  ASSUME IInv, ProcessExecutionFails
  PROVE  IInv'
<1> DEFINE e == num_current_chunk - 1
           n == batch_count + 1
<1>1. /\ Round /\ CompletesChunk /\ ChunkFailed
      /\ num_current_chunk > 0
      /\ alpha1_batch' = [alpha1_batch EXCEPT ![n - 1] = Chunk(CHUNK_SIZE)']
      /\ faulty' = TRUE
      /\ UNCHANGED <<presigid_ctx, header_ok, sig_id>>
  BY DEF ProcessExecutionFails, Round, CompletesChunk, header
<1>2. batch_count \in Nat /\ n - 1 = batch_count /\ e \in Int
  BY <1>1, RoundConsumes DEF IInv, TypeOK
<1>3. Eval(e, Chunk(CHUNK_SIZE)') \in EvalT
  BY <1>1, <1>2, ChunkType DEF Eval, EvalT
<1>4. alpha1_batch' \in [0..BATCH-1 -> Seq(Int)]
  BY <1>1, ChunkType DEF IInv, TypeOK
<1>5. /\ batch_count' \in 0..BATCH
      /\ eval_batch' \in [0..BATCH-1 -> EvalT]
      /\ com2_ctx' \in Seq(AlphasT)
  <2>1. CASE UNCHANGED <<batch_count, eval_batch, com2_ctx>>
    BY <2>1 DEF IInv, TypeOK, EvalT, AlphasT
  <2>2. CASE /\ batch_count' = n
             /\ eval_batch' = [eval_batch EXCEPT ![n - 1] =
                                 Eval(e, Chunk(CHUNK_SIZE)')]
             /\ \E k \in 0..n : com2_ctx' = com2_ctx \o BatchAlphas(k, e - n + 1)
    <3>1. PICK k \in 0..n : com2_ctx' = com2_ctx \o BatchAlphas(k, e - n + 1)
      BY <2>2
    <3>2. batch_count < BATCH
      BY <1>1, RoundConsumes DEF IInv, SlotsHoldPending
    <3>3. n \in 0..BATCH /\ k \in Nat
      BY <1>2, <3>2, CTAssumption
    <3>4. eval_batch' \in [0..BATCH-1 -> EvalT]
      BY <1>3, <2>2 DEF IInv, TypeOK, EvalT
    <3>5. ASSUME NEW i \in 1..k
          PROVE  Alphas(e - n + 1 + i - 1, eval_batch'[i - 1], alpha1_batch'[i - 1])
                   \in AlphasT
      <4>1. i - 1 \in 0..BATCH-1 /\ e - n + 1 + i - 1 \in Int
        BY <1>2, <3>3, CTAssumption
      <4>2. eval_batch'[i - 1] \in EvalT /\ alpha1_batch'[i - 1] \in Seq(Int)
        BY <1>4, <3>4, <4>1
      <4>3. QED BY <4>1, <4>2 DEF Alphas, AlphasT
    <3>6. BatchAlphas(k, e - n + 1) \in Seq(AlphasT)
      BY <3>3, <3>5 DEF BatchAlphas
    <3>7. com2_ctx \in Seq(AlphasT)
      BY DEF IInv, TypeOK, AlphasT, EvalT
    <3>8. com2_ctx' \in Seq(AlphasT)
      BY <3>1, <3>6, <3>7
    <3>9. QED BY <2>2, <3>3, <3>4, <3>8
  <2>3. QED BY <2>1, <2>2 DEF ProcessExecutionFails
<1>6. TypeOK'
  <2>1. presigid_ctx' \in Seq(EvalT) /\ header_ok' \in BOOLEAN
        /\ live' \in BOOLEAN /\ sig' \in Sigs /\ num_current_chunk' \in 0..TAU+1
    BY <1>1, ChunkFailedLatches DEF IInv, TypeOK, EvalT
  <2>2. /\ fed' \in 0..SigSize /\ unprocessed' \in [0..LargestChunk-1 -> Int]
        /\ pos' \in 0..LargestChunk /\ avail' \in 0..MaxPart
        /\ ret' \in {"ok", "fail", "running"}
        /\ state' \in {"ACTIVE", "FAILED", "DONE"}
    BY <1>1, ChunkFailedLatches, CTAssumption
  <2>3. faulty' \in BOOLEAN
    BY <1>1
  <2>4. QED BY <1>4, <1>5, <2>1, <2>2, <2>3 DEF TypeOK, EvalT, AlphasT
<1>7. QED BY <1>1, <1>6, LatchPreserves DEF ChunkFailed

LEMMA FinalizePreserves ==
  ASSUME IInv, NEW m \in Messages, NEW fault \in BOOLEAN,
         StreamedVerify_Finalize(m, fault)
  PROVE  IInv'
<1>1. /\ Idle /\ FinalizeReady
      /\ faulty' = (faulty \/ fault)
      /\ \/ state' = "DONE" /\ ret' = "ok"
         \/ state' = "FAILED" /\ ret' = "fail"
      /\ UNCHANGED <<live, sig, fed, avail, num_current_chunk, pos, unprocessed,
                     header_ok, sig_id>>
      /\ UNCHANGED <<batch_count, alpha1_batch, eval_batch, com2_ctx,
                     presigid_ctx>>
  BY DEF StreamedVerify_Finalize, header, batch, hashes
<1>2. TypeOK'
  BY <1>1 DEF IInv, TypeOK
<1>3. RunningIsActive' /\ HeaderSeen' /\ Reassembled' /\ SlotsHoldPending'
  BY <1>1 DEF RunningIsActive, HeaderSeen, Reassembled, SlotsHoldPending
<1>4. TranscriptIsPrefix'
  <2>1. state = "ACTIVE" /\ Absorbed' = Absorbed
    BY <1>1 DEF FinalizeReady, Absorbed
  <2>2. QED BY <1>1, <2>1 DEF IInv, TranscriptIsPrefix
<1>5. QED BY <1>2, <1>3, <1>4 DEF IInv

\* Every step of the specification preserves the invariant.
LEMMA NextPreserves ==
  ASSUME IInv, [Next]_vars
  PROVE  IInv'
<1>1. ASSUME NEW s \in Sigs, StreamedVerify_Init(s)
      PROVE  IInv'
  BY <1>1, ZeroedContext DEF StreamedVerify_Init
<1>2. CASE StreamedVerify_InitFails
  BY <1>2, ContextUnchanged DEF StreamedVerify_InitFails
<1>3. ASSUME NEW null \in BOOLEAN, UpdateRefused(null)
      PROVE  IInv'
  BY <1>3, ContextUnchanged DEF UpdateRefused, Refused
<1>4. ASSUME NEW n \in 0..MaxPart, UpdateCall(n)
      PROVE  IInv'
  BY <1>4, UpdateCallPreserves
<1>5. CASE UpdateProgress
  BY <1>5, UpdateOverlongPreserves, UpdateBufferPreserves,
     ProcessHeaderPreserves, ProcessExecutionPreserves DEF UpdateProgress
<1>6. CASE UpdateFault
  BY <1>6, ProcessHeaderPreserves, ProcessExecutionFailsPreserves
  DEF UpdateFault
<1>7. ASSUME NEW m \in Messages, FinalizeRefused(m)
      PROVE  IInv'
  BY <1>7, ContextUnchanged DEF FinalizeRefused, Refused
<1>8. ASSUME NEW m \in Messages, NEW fault \in BOOLEAN,
             StreamedVerify_Finalize(m, fault)
      PROVE  IInv'
  BY <1>8, FinalizePreserves
<1>9. CASE StreamedVerify_Clean
  <2>1. live' = FALSE /\ sig' \in Sigs
    BY <1>9 DEF StreamedVerify_Clean, IInv, TypeOK
  <2>2. QED BY <1>9, <2>1, ZeroedContext DEF StreamedVerify_Clean
<1>10. CASE UNCHANGED vars
  <2>1. UNCHANGED <<session, ctx>> /\ ret' = ret /\ call' = call
    BY <1>10 DEF vars
  <2>2. TypeOK' /\ RunningIsActive' /\ HeaderSeen' /\ Reassembled'
    BY <2>1 DEF IInv, TypeOK, RunningIsActive, HeaderSeen, Reassembled, session,
                ctx, chunking, header, batch, hashes, NextChunkSize
  <2>3. SlotsHoldPending' /\ TranscriptIsPrefix'
    BY <2>1 DEF IInv, SlotsHoldPending, TranscriptIsPrefix, Absorbed, ctx,
                chunking, header, batch, hashes
  <2>4. QED BY <2>2, <2>3 DEF IInv
<1>11. QED
  BY <1>1, <1>2, <1>3, <1>4, <1>5, <1>6, <1>7, <1>8, <1>9, <1>10 DEF Next

\* The first context is as good as a zeroed one.
LEMMA InitEstablishes ==
  ASSUME Init
  PROVE  IInv
<1>1. TypeOK
  <2>1. NoEval \in [exec : Int, from : Seq(Int)] /\ NoBytes \in Seq(Int)
    BY DEF NoEval, Eval, NoBytes
  <2>2. /\ alpha1_batch \in [0..BATCH-1 -> Seq(Int)]
        /\ eval_batch \in [0..BATCH-1 -> [exec : Int, from : Seq(Int)]]
        /\ unprocessed \in [0..LargestChunk-1 -> Int]
    BY <2>1 DEF Init
  <2>3. /\ com2_ctx \in Seq([i_star : Int, alpha1 : Seq(Int),
                             eval : [exec : Int, from : Seq(Int)]])
        /\ presigid_ctx \in Seq([exec : Int, from : Seq(Int)])
    BY DEF Init
  <2>4. /\ live \in BOOLEAN /\ sig \in Sigs /\ faulty \in BOOLEAN
        /\ header_ok \in BOOLEAN
        /\ state \in {"ACTIVE", "FAILED", "DONE"}
        /\ ret \in {"ok", "fail", "running"}
    BY DEF Init
  <2>5. /\ fed \in 0..SigSize /\ avail \in 0..MaxPart
        /\ num_current_chunk \in 0..TAU+1
        /\ pos \in 0..LargestChunk /\ batch_count \in 0..BATCH
    BY Sizes, CTAssumption DEF Init
  <2>6. QED BY <2>2, <2>3, <2>4, <2>5 DEF TypeOK
<1>2. RunningIsActive /\ HeaderSeen
  BY DEF RunningIsActive, HeaderSeen, Init
<1>3. Reassembled /\ SlotsHoldPending
  BY CTAssumption DEF Reassembled, SlotsHoldPending, Init, Base, NextChunkSize
<1>4. TranscriptIsPrefix
  <2>1. Absorbed = 0 /\ com2_ctx = <<>> /\ presigid_ctx = <<>>
    BY DEF Init, Absorbed
  <2>2. QED BY <2>1 DEF TranscriptIsPrefix
<1>5. QED BY <1>1, <1>2, <1>3, <1>4 DEF IInv

LEMMA Invariance == Spec => []IInv
BY InitEstablishes, NextPreserves, PTL DEF Spec

-----------------------------------------------------------------------------
(***************************************************************************)
(* What the runs check, for every value of the constants.                  *)
(***************************************************************************)

\* Every field of the context stays in its type: no index runs past a buffer.
THEOREM TypeCorrect == Spec => []TypeOK
BY Invariance, PTL DEF IInv

\* The reassembly buffer holds the current chunk, however the parts are cut, and
\* the slots of the batch hold the executions not absorbed yet.
THEOREM BuffersCorrect == Spec => []BuffersHoldPending
<1>1. IInv => BuffersHoldPending
  BY DEF IInv, BuffersHoldPending
<1> QED
  BY Invariance, <1>1, PTL

\* The transcripts are those of one-shot verification, up to the last flush.
THEOREM TranscriptCorrect == Spec => []TranscriptIsPrefix
BY Invariance, PTL DEF IInv

-----------------------------------------------------------------------------
(***************************************************************************)
(* The streaming verifier implements VerifyOnce.                           *)
(***************************************************************************)

\* What the states of the context mean to the caller.
LEMMA Verdicts ==
  /\ VerdictOf["ACTIVE"] = "pending"
  /\ VerdictOf["FAILED"] = "rejected"
  /\ VerdictOf["DONE"] = "accepted"
BY DEF VerdictOf

LEMMA InitImplements ==
  ASSUME Init
  PROVE  OneShot!Init
BY Verdicts DEF Init, OneShot!Init, OneShot!Sigs, Sigs

\* Bytes are only taken, and only those there are.
LEMMA FedGrows ==
  ASSUME Round, CopyPart
  PROVE  fed' \in fed..SigSize
<1>1. fed' = Base(num_current_chunk) + pos + ToCopy /\ fed' \in 0..SigSize
  BY RoundCopies
<1>2. /\ fed = Base(num_current_chunk) + pos
      /\ Base(num_current_chunk) \in Nat /\ pos \in Nat /\ ToCopy \in Nat
  BY RoundConsumes
<1>3. fed' >= fed /\ fed' \in Int /\ fed' <= SigSize /\ SigSize \in Nat
  BY <1>1, <1>2, Sizes
<1>4. QED BY <1>2, <1>3

\* A round that consumes bytes and does not fail takes them.
LEMMA RoundTakes ==
  ASSUME Round, CopyPart, state' = "ACTIVE", ret' \in {"running", "ok"},
         UNCHANGED <<live, sig, faulty, call>>
  PROVE  OneShot!Take
<1>1. fed' \in fed..SigSize
  BY FedGrows
<1>2. state = "ACTIVE" /\ live /\ call = <<"update">>
  BY RoundConsumes DEF Round, InUpdate, IInv, RunningIsActive
<1>3. QED BY <1>1, <1>2, Verdicts DEF OneShot!Take

\* A round that fails, for a reason one-shot verification has too, refuses.
LEMMA RoundRefuses ==
  ASSUME Round, CompletesChunk, ChunkFailed, faulty' \in {faulty, TRUE},
         faulty' \/ sig = "badheader"
  PROVE  OneShot!RefusePart
<1>1. fed' \in fed..SigSize
  BY FedGrows DEF CompletesChunk
<1>2. state = "ACTIVE" /\ live /\ ret = "running"
  BY RoundConsumes DEF Round, InUpdate
<1>3. state' = "FAILED" /\ ret' = "fail" /\ UNCHANGED <<live, sig, call>>
  BY DEF CompletesChunk, ChunkFailed, Latch
<1>4. QED BY <1>1, <1>2, <1>3, Verdicts DEF OneShot!RefusePart

LEMMA UpdateImplements ==
  ASSUME IInv, UpdateProgress \/ UpdateFault
  PROVE  OneShot!Take \/ OneShot!RefusePart
<1>1. CASE UpdateOverlong
  <2>1. /\ live /\ ret = "running" /\ state = "ACTIVE"
        /\ num_current_chunk = TAU + 1
    BY <1>1, CTAssumption
    DEF UpdateOverlong, InUpdate, ChunksLeft, IInv, TypeOK, RunningIsActive
  <2>2. fed = SigSize
    <3>1. Base(TAU + 1) = SigSize
      BY Offsets, CTAssumption
    <3>2. QED BY <2>1, <3>1, Sizes DEF IInv, Reassembled
  <2>3. QED BY <1>1, <2>1, <2>2, Sizes, Verdicts
            DEF UpdateOverlong, Latch, OneShot!RefusePart
<1>2. CASE UpdateBuffer
  <2>1. Round /\ CopyPart /\ ret' \in {"running", "ok"} /\ state' = "ACTIVE"
        /\ UNCHANGED <<live, sig, faulty, call>>
    BY <1>2, RoundConsumes DEF UpdateBuffer, Round
  <2>2. QED BY <2>1, RoundTakes
<1>3. ASSUME NEW fault \in BOOLEAN, ProcessHeader(fault)
      PROVE  OneShot!Take \/ OneShot!RefusePart
  <2>1. /\ Round /\ CompletesChunk /\ CopyPart
        /\ faulty' = (faulty \/ fault)
        /\ UNCHANGED <<live, sig, call>>
    BY <1>3 DEF ProcessHeader, Round, CompletesChunk
  <2>2. CASE fault \/ sig = "badheader"
    <3>1. ChunkFailed /\ faulty' \in {faulty, TRUE}
      BY <1>3, <2>1, <2>2 DEF ProcessHeader, IInv, TypeOK
    <3>2. faulty' \/ sig = "badheader"
      BY <2>1, <2>2
    <3>3. QED BY <2>1, <3>1, <3>2, RoundRefuses
  <2>3. CASE ~(fault \/ sig = "badheader")
    <3>1. ChunkDone /\ faulty' = faulty
      BY <1>3, <2>1, <2>3 DEF ProcessHeader, IInv, TypeOK
    <3>2. state' = "ACTIVE" /\ ret' \in {"running", "ok"}
      BY <2>1, <3>1, ChunkDoneAdvances
    <3>3. QED BY <2>1, <3>1, <3>2, RoundTakes
  <2>4. QED BY <2>2, <2>3
<1>4. CASE ProcessExecution
  <2>1. Round /\ CompletesChunk /\ ChunkDone /\ CopyPart
        /\ UNCHANGED <<live, sig, faulty, call>>
    BY <1>4 DEF ProcessExecution, Round, CompletesChunk
  <2>2. QED BY <2>1, ChunkDoneAdvances, RoundTakes
<1>5. CASE ProcessExecutionFails
  <2>1. Round /\ CompletesChunk /\ ChunkFailed /\ faulty' = TRUE
    BY <1>5 DEF ProcessExecutionFails, Round, CompletesChunk
  <2>2. QED BY <2>1, RoundRefuses
<1>6. QED BY <1>1, <1>2, <1>3, <1>4, <1>5 DEF UpdateProgress, UpdateFault

\* A Finalize that is refused comes too late, or before the last byte.
LEMMA FinalizeRefusedImplements ==
  ASSUME IInv, NEW m \in Messages, FinalizeRefused(m)
  PROVE  OneShot!Refused(<<"finalize", m>>)
<1>1. /\ live /\ ret # "running" /\ ~FinalizeReady
      /\ call' = <<"finalize", m>> /\ ret' = "fail"
      /\ UNCHANGED <<live, sig, fed, state, faulty>>
  BY DEF FinalizeRefused, Refused, Idle, session, ctx, chunking
<1>2. CASE state # "ACTIVE"
  <2>1. VerdictOf[state] # "pending"
    BY <1>2, Verdicts DEF IInv, TypeOK
  <2>2. QED BY <1>1, <2>1 DEF OneShot!Refused, OneShot!Idle
<1>3. CASE state = "ACTIVE"
  <2>1. fed < SigSize
    <3>1. CASE num_current_chunk = TAU + 1
      <4>1. pos = 0 /\ header_ok
        BY <1>3, <3>1, CTAssumption DEF IInv, Reassembled, HeaderSeen
      <4>2. QED BY <1>1, <1>3, <3>1, <4>1 DEF FinalizeReady
    <3>2. CASE num_current_chunk # TAU + 1
      <4>1. num_current_chunk \in 0..TAU /\ pos \in Nat /\ pos < NextChunkSize
        BY <1>3, <3>2, Sizes, CTAssumption DEF IInv, TypeOK, Reassembled
      <4>2. NextChunkSize \in Nat
        BY CTAssumption DEF NextChunkSize
      <4>3. /\ Base(num_current_chunk) \in Nat
            /\ Base(num_current_chunk) + NextChunkSize <= SigSize
        BY <4>1, Offsets DEF NextChunkSize
      <4>4. fed = Base(num_current_chunk) + pos
        BY <1>3 DEF IInv, Reassembled
      <4>5. QED BY <4>1, <4>2, <4>3, <4>4, Sizes
    <3>3. QED BY <3>1, <3>2
  <2>2. QED BY <1>1, <2>1 DEF OneShot!Refused, OneShot!Idle
<1>4. QED BY <1>2, <1>3

\* A Finalize that is served judges the whole signature: both transcripts are
\* complete, so the identifiers match exactly for the genuine signature.
LEMMA FinalizeImplements ==
  ASSUME IInv, NEW m \in Messages, NEW fault \in BOOLEAN,
         StreamedVerify_Finalize(m, fault)
  PROVE  OneShot!Judge(m)
<1>1. /\ live /\ ret # "running" /\ state = "ACTIVE" /\ header_ok
      /\ num_current_chunk = TAU + 1 /\ pos = 0
      /\ call' = <<"finalize", m>>
      /\ faulty' = (faulty \/ fault)
      /\ UNCHANGED <<live, sig, fed>>
  BY DEF StreamedVerify_Finalize, FinalizeReady, Idle
<1>2. fed = SigSize /\ sig_id = Bytes(0, HEADER_SIZE) /\ ~faulty
  <2>1. Base(TAU + 1) = SigSize
    BY Offsets, CTAssumption
  <2>2. QED BY <1>1, <2>1, Sizes, CTAssumption DEF IInv, Reassembled, HeaderSeen
<1>3. com2_ctx = OneShotCom2 /\ presigid_ctx = OneShotPresigId
  <2>1. batch_count = 0
    BY <1>1, CTAssumption DEF IInv, TypeOK, SlotsHoldPending
  <2>2. Absorbed = TAU
    BY <1>1, <2>1, CTAssumption DEF Absorbed
  <2>3. QED BY <1>1, <2>2 DEF IInv, TranscriptIsPrefix, OneShotCom2,
                              OneShotPresigId
<1>4. IdMatches(m) <=> sig = "genuine" /\ m = SignedMsg
  BY <1>2, <1>3 DEF IdMatches
<1>5. faulty' \in {faulty, TRUE} /\ (faulty' <=> fault)
  BY <1>1, <1>2 DEF IInv, TypeOK
<1>6. CASE ~fault /\ IdMatches(m)
  <2>1. state' = "DONE" /\ ret' = "ok"
    BY <1>6 DEF StreamedVerify_Finalize
  <2>2. QED BY <1>1, <1>2, <1>4, <1>5, <1>6, <2>1, Verdicts
            DEF OneShot!Judge, OneShot!Idle
<1>7. CASE ~(~fault /\ IdMatches(m))
  <2>1. state' = "FAILED" /\ ret' = "fail"
    BY <1>7 DEF StreamedVerify_Finalize
  <2>2. QED BY <1>1, <1>2, <1>4, <1>5, <1>7, <2>1, Verdicts
            DEF OneShot!Judge, OneShot!Idle
<1>8. QED BY <1>6, <1>7

LEMMA NextImplements ==
  ASSUME IInv, [Next]_vars
  PROVE  [OneShot!Next]_(OneShot!vars)
<1>1. ASSUME NEW s \in Sigs, StreamedVerify_Init(s)
      PROVE  OneShot!Open(s)
  BY <1>1, Verdicts DEF StreamedVerify_Init, CtxZero, OneShot!Open
<1>2. CASE StreamedVerify_InitFails
  BY <1>2 DEF StreamedVerify_InitFails, session, ctx, chunking, OneShot!Next,
              OneShot!OpenFails
<1>3. ASSUME NEW null \in BOOLEAN, UpdateRefused(null)
      PROVE  OneShot!Refused(<<"update">>)
  BY <1>3 DEF UpdateRefused, Refused, Idle, session, ctx, chunking,
              OneShot!Refused, OneShot!Idle
<1>4. ASSUME NEW n \in 0..MaxPart, UpdateCall(n)
      PROVE  OneShot!Take
  <2>1. fed \in fed..SigSize
    BY Sizes DEF IInv, TypeOK
  <2>2. QED BY <1>4, <2>1, Verdicts
            DEF UpdateCall, Idle, ctx, chunking, OneShot!Take
<1>5. CASE UpdateProgress \/ UpdateFault
  BY <1>5, UpdateImplements DEF OneShot!Next
<1>6. ASSUME NEW m \in Messages, FinalizeRefused(m)
      PROVE  OneShot!Refused(<<"finalize", m>>)
  BY <1>6, FinalizeRefusedImplements
<1>7. ASSUME NEW m \in Messages, NEW fault \in BOOLEAN,
             StreamedVerify_Finalize(m, fault)
      PROVE  OneShot!Judge(m)
  BY <1>7, FinalizeImplements
<1>8. CASE StreamedVerify_Clean
  BY <1>8, Verdicts
  DEF StreamedVerify_Clean, Idle, CtxZero, OneShot!Next, OneShot!Close,
      OneShot!Idle
<1>9. CASE UNCHANGED vars
  BY <1>9 DEF vars, session, ctx, chunking, OneShot!vars
<1>10. /\ Sigs = OneShot!Sigs
       /\ <<"update">> \in OneShot!Calls \ {<<"none">>, <<"init">>, <<"clean">>}
       /\ \A m \in Messages : <<"finalize", m>> \in
             OneShot!Calls \ {<<"none">>, <<"init">>, <<"clean">>}
  BY DEF Sigs, OneShot!Sigs, OneShot!Calls
<1>11. QED
  BY <1>1, <1>2, <1>3, <1>4, <1>5, <1>6, <1>7, <1>8, <1>9, <1>10
  DEF Next, OneShot!Next

\* Whatever the parts, every call answers what one-shot verification would.
THEOREM Implements == Spec => RefinesOneShot
BY InitEstablishes, InitImplements, NextPreserves, NextImplements, PTL
DEF Spec, RefinesOneShot, OneShot!Spec

=============================================================================
