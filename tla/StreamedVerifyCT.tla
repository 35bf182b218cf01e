-------------------------- MODULE StreamedVerifyCT --------------------------
(***************************************************************************)
(* The streaming verifier of the CT family (src/verify_stream_ct.c).       *)
(*                                                                         *)
(* A byte of the signature is represented by its offset in the signature,  *)
(* so a buffer shows which bytes it holds.  What is computed from some     *)
(* bytes is represented by those bytes and the index it was computed for:  *)
(* two computations agree exactly when their inputs do, which is what the  *)
(* one-shot verifier and the streaming one must agree on for the hash      *)
(* comparison at the end to come out the same.                             *)
(*                                                                         *)
(* Update runs its loop one iteration per step; no other call can be made  *)
(* on the context in between.                                              *)
(***************************************************************************)
EXTENDS Integers, Sequences

CONSTANTS
  TAU,         \* MQOM3_PARAM_TAU: executions of a signature
  BATCH,       \* STREAM_VERIFY_BATCH
  HEADER_SIZE, \* STREAM_VERIFY_CT_HEADER_SIZE
  CHUNK_SIZE,  \* CT_CHUNK_SIZE
  MaxPart,     \* longest part a caller hands to one Update
  Messages,
  SignedMsg

ASSUME CTAssumption ==
  /\ TAU \in Nat \ {0}
  /\ BATCH \in Nat \ {0}
  /\ HEADER_SIZE \in Nat \ {0}
  /\ CHUNK_SIZE \in Nat \ {0}
  /\ MaxPart \in Nat
  /\ SignedMsg \in Messages

SigSize == HEADER_SIZE + TAU * CHUNK_SIZE

\* STREAM_VERIFY_CT_LARGEST_CHUNK
LargestChunk == IF HEADER_SIZE > CHUNK_SIZE THEN HEADER_SIZE ELSE CHUNK_SIZE

Sigs == {"genuine", "badheader", "badbody"}

VARIABLES
  \* the caller's side
  live, sig, fed, faulty, call, ret,
  avail,              \* bytes of the current part not yet consumed
  \* CT_stream_verify_ctx_t
  state,
  num_current_chunk,
  pos,
  unprocessed,
  header_ok,
  sig_id,             \* the header bytes copied into sig_id and salt
  batch_count,
  alpha1_batch,
  eval_batch,         \* com1_batch, x_eval_batch and u_eval_batch
  com2_ctx,
  presigid_ctx

session  == <<live, sig, fed, faulty, avail>>
chunking == <<state, num_current_chunk, pos, unprocessed>>
header   == <<header_ok, sig_id>>
hashes   == <<com2_ctx, presigid_ctx>>
batch    == <<batch_count, alpha1_batch, eval_batch, hashes>>
ctx      == <<chunking, header, batch>>
vars     == <<session, call, ret, ctx>>

-----------------------------------------------------------------------------
\* What is computed from what.

NoBytes == <<>>

\* The bytes of the signature from offset s on.
Bytes(s, n) == [i \in 1..n |-> s + i - 1]

\* The first n bytes of the reassembly buffer.
Chunk(n) == [i \in 1..n |-> unprocessed[i - 1]]

\* CT_BLC_Eval_memopt_partial for execution e: com1, x_eval and u_eval.
Eval(e, bytes) == [exec |-> e, from |-> bytes]

\* One execution's (alpha0, alpha1), as absorbed by Hash_1: alpha0 comes from
\* the challenge i_star[e], the evaluation and alpha1.
Alphas(e, ev, a1) == [i_star |-> e, eval |-> ev, alpha1 |-> a1]

NoEval == Eval(-1, NoBytes)

-----------------------------------------------------------------------------
CtxZero ==
  /\ state' = "ACTIVE"
  /\ num_current_chunk' = 0
  /\ pos' = 0
  /\ unprocessed' = [i \in 0..LargestChunk-1 |-> -1]
  /\ header_ok' = FALSE
  /\ sig_id' = NoBytes
  /\ batch_count' = 0
  /\ alpha1_batch' = [b \in 0..BATCH-1 |-> NoBytes]
  /\ eval_batch' = [b \in 0..BATCH-1 |-> NoEval]
  /\ com2_ctx' = <<>>
  /\ presigid_ctx' = <<>>

Init ==
  /\ live = FALSE
  /\ sig \in Sigs
  /\ fed = 0
  /\ faulty = FALSE
  /\ call = <<"none">>
  /\ ret = "ok"
  /\ avail = 0
  /\ state = "ACTIVE"
  /\ num_current_chunk = 0
  /\ pos = 0
  /\ unprocessed = [i \in 0..LargestChunk-1 |-> -1]
  /\ header_ok = FALSE
  /\ sig_id = NoBytes
  /\ batch_count = 0
  /\ alpha1_batch = [b \in 0..BATCH-1 |-> NoBytes]
  /\ eval_batch = [b \in 0..BATCH-1 |-> NoEval]
  /\ com2_ctx = <<>>
  /\ presigid_ctx = <<>>

\* CT_StreamedVerify_Init: a zeroed context for the next signature to verify.
StreamedVerify_Init(s) ==
  /\ ~live
  /\ live' = TRUE
  /\ sig' = s
  /\ fed' = 0
  /\ faulty' = FALSE
  /\ call' = <<"init">>
  /\ ret' = "ok"
  /\ avail' = 0
  /\ CtxZero

\* pk == NULL, or mqom_malloc fails.
StreamedVerify_InitFails ==
  /\ ~live
  /\ call' = <<"init">>
  /\ ret' = "fail"
  /\ UNCHANGED <<session, ctx>>

Idle == live /\ ret # "running"

\* A call the context cannot serve: an error is returned, nothing changes.
Refused(c) ==
  /\ Idle
  /\ call' = c
  /\ ret' = "fail"
  /\ UNCHANGED <<session, ctx>>

-----------------------------------------------------------------------------
(***************************************************************************)
(* CT_StreamedVerify_Update.                                               *)
(***************************************************************************)

\* The context is not ACTIVE, or sigpart is NULL with a non-zero length.
UpdateRefused(null) ==
  /\ null \/ state # "ACTIVE"
  /\ Refused(<<"update">>)

\* Entry: a part of n bytes; an empty one returns 0 at once.
UpdateCall(n) ==
  /\ Idle
  /\ state = "ACTIVE"
  /\ call' = <<"update">>
  /\ avail' = n
  /\ ret' = IF n = 0 THEN "ok" ELSE "running"
  /\ UNCHANGED <<live, sig, fed, faulty, ctx>>

InUpdate == live /\ ret = "running" /\ avail > 0

\* The err label of Update: any failure latches the context.
Latch ==
  /\ ret' = "fail"
  /\ state' = "FAILED"

\* (wrong on purpose) One chunk too many is let through.
ChunksLeft_OffByOne == num_current_chunk <= TAU + 1

\* The header and TAU chunks are all a signature has.
ChunksLeft == num_current_chunk <= TAU

UpdateOverlong ==
  /\ InUpdate
  /\ ~ChunksLeft
  /\ Latch
  /\ avail' = 0
  /\ UNCHANGED <<live, sig, fed, faulty, call, num_current_chunk, pos,
                 unprocessed, header, batch>>

NextChunkSize ==
  IF num_current_chunk = 0 THEN HEADER_SIZE ELSE CHUNK_SIZE

ToCopy ==
  LET needed == NextChunkSize - pos
  IN  IF needed < avail THEN needed ELSE avail

\* (wrong on purpose) The bytes already buffered are overwritten.
CopyPart_AtStart ==
  /\ unprocessed' = [i \in 0..LargestChunk-1 |->
                       IF i < ToCopy THEN fed + i ELSE unprocessed[i]]
  /\ fed' = fed + ToCopy

\* memcpy of to_copy bytes of the part behind those already buffered.
CopyPart ==
  /\ unprocessed' = [i \in 0..LargestChunk-1 |->
                       IF i \in pos..pos+ToCopy-1 THEN fed + i - pos
                                                  ELSE unprocessed[i]]
  /\ fed' = fed + ToCopy

\* Bytes were copied, the chunk is still incomplete, the part is used up.
UpdateBuffer ==
  /\ InUpdate
  /\ ChunksLeft
  /\ pos + ToCopy < NextChunkSize
  /\ CopyPart
  /\ pos' = pos + ToCopy
  /\ avail' = avail - ToCopy
  /\ ret' = IF avail' = 0 THEN "ok" ELSE "running"
  /\ UNCHANGED <<live, sig, faulty, call, state, num_current_chunk, header,
                 batch>>

\* (wrong on purpose) A processed chunk stays the current one.
ChunkDone_NotAdvanced ==
  /\ pos' = pos + ToCopy
  /\ avail' = avail - ToCopy
  /\ ret' = IF avail' = 0 THEN "ok" ELSE "running"
  /\ UNCHANGED <<num_current_chunk, state>>

ChunkDone ==
  /\ num_current_chunk' = num_current_chunk + 1
  /\ pos' = 0
  /\ avail' = avail - ToCopy
  /\ ret' = IF avail' = 0 THEN "ok" ELSE "running"
  /\ UNCHANGED state

\* ERR leaves the loop before num_current_chunk and pos are updated.
ChunkFailed ==
  /\ Latch
  /\ pos' = pos + ToCopy
  /\ avail' = 0
  /\ UNCHANGED num_current_chunk

CompletesChunk ==
  /\ InUpdate
  /\ ChunksLeft
  /\ pos + ToCopy = NextChunkSize
  /\ CopyPart
  /\ UNCHANGED <<live, sig, call>>

\* process_header: copy the header, derive the challenges, open both hashes.
\* A header no challenge can be derived from fails, and so may any call.
ProcessHeader(fault) ==
  /\ num_current_chunk = 0
  /\ CompletesChunk
  /\ sig_id' = Chunk(HEADER_SIZE)'
  /\ faulty' = (faulty \/ fault)
  /\ IF fault \/ sig = "badheader"
     THEN ChunkFailed /\ UNCHANGED <<header_ok, batch>>
     ELSE /\ ChunkDone
          /\ header_ok' = TRUE
          /\ com2_ctx' = <<>>
          /\ presigid_ctx' = <<>>
          /\ UNCHANGED <<batch_count, alpha1_batch, eval_batch>>

\* The alphas of the first k slots, as they are after this chunk.
BatchAlphas(k, e_batch_start) ==
  [i \in 1..k |-> Alphas(e_batch_start + i - 1,
                         eval_batch'[i - 1], alpha1_batch'[i - 1])]

\* (wrong on purpose) The first execution of the batch is off by one.
FlushBatch_OffByOne(n, e_batch_start) ==
  /\ com2_ctx' = com2_ctx \o BatchAlphas(n, e_batch_start + 1)
  /\ presigid_ctx' = presigid_ctx \o [i \in 1..n |-> eval_batch'[i - 1]]
  /\ batch_count' = 0

\* flush_batch: the alphas of every slot to Hash_1, then their commitments
\* to Hash_2.
FlushBatch(n, e_batch_start) ==
  /\ com2_ctx' = com2_ctx \o BatchAlphas(n, e_batch_start)
  /\ presigid_ctx' = presigid_ctx \o [i \in 1..n |-> eval_batch'[i - 1]]
  /\ batch_count' = 0

\* (wrong on purpose) The last batch is flushed only if it is full.
FlushDue_FullOnly(n, e) == n = BATCH

FlushDue(n, e) == n = BATCH \/ e = TAU - 1

\* process_execution_chunk for execution e = num_current_chunk - 1, into the
\* next free slot of the batch.
ProcessExecution ==
  LET e == num_current_chunk - 1
      n == batch_count + 1
  IN  /\ num_current_chunk > 0
      /\ CompletesChunk
      /\ alpha1_batch' = [alpha1_batch EXCEPT ![n - 1] = Chunk(CHUNK_SIZE)']
      /\ eval_batch' = [eval_batch EXCEPT ![n - 1] = Eval(e, Chunk(CHUNK_SIZE)')]
      /\ IF FlushDue(n, e)
         THEN FlushBatch(n, e - n + 1)
         ELSE batch_count' = n /\ UNCHANGED hashes
      /\ ChunkDone
      /\ UNCHANGED <<faulty, header>>

\* The same with a call failing: the evaluation (nothing is counted yet), or a
\* call of flush_batch after it absorbed the alphas of the first k slots.
ProcessExecutionFails ==
  LET e == num_current_chunk - 1
      n == batch_count + 1
  IN  /\ num_current_chunk > 0
      /\ CompletesChunk
      /\ alpha1_batch' = [alpha1_batch EXCEPT ![n - 1] = Chunk(CHUNK_SIZE)']
      /\ \/ UNCHANGED <<batch_count, eval_batch, com2_ctx>>
         \/ /\ FlushDue(n, e)
            /\ batch_count' = n
            /\ eval_batch' = [eval_batch EXCEPT ![n - 1] =
                                Eval(e, Chunk(CHUNK_SIZE)')]
            /\ \E k \in 0..n : com2_ctx' = com2_ctx \o BatchAlphas(k, e - n + 1)
      /\ faulty' = TRUE
      /\ ChunkFailed
      /\ UNCHANGED <<presigid_ctx, header>>

\* A round of the loop in which every internal call succeeds, or one fails.
UpdateProgress ==
  \/ UpdateOverlong
  \/ UpdateBuffer
  \/ ProcessHeader(FALSE)
  \/ ProcessExecution

UpdateFault == ProcessHeader(TRUE) \/ ProcessExecutionFails

-----------------------------------------------------------------------------
(***************************************************************************)
(* CT_StreamedVerify_Finalize and CT_StreamedVerify_Clean.                 *)
(***************************************************************************)

\* (wrong on purpose) The latch is not consulted.
FinalizeReady_AnyState ==
  header_ok /\ num_current_chunk = TAU + 1 /\ pos = 0

FinalizeReady ==
  /\ state = "ACTIVE"
  /\ header_ok
  /\ num_current_chunk = TAU + 1
  /\ pos = 0

FinalizeRefused(m) ==
  /\ ~FinalizeReady
  /\ Refused(<<"finalize", m>>)

\* What the two hashes have absorbed when the whole signature is verified in
\* one go: every execution, in order, each from its own chunk.
ExecBytes(e)  == Bytes(HEADER_SIZE + e * CHUNK_SIZE, CHUNK_SIZE)
ExecEval(e)   == Eval(e, ExecBytes(e))
ExecAlphas(e) == Alphas(e, ExecEval(e), ExecBytes(e))
OneShotCom2     == [i \in 1..TAU |-> ExecAlphas(i - 1)]
OneShotPresigId == [i \in 1..TAU |-> ExecEval(i - 1)]

\* The recomputed identifier equals sig_id only if every hash input is the one
\* the signer's was computed from.
IdMatches(m) ==
  /\ sig = "genuine"
  /\ m = SignedMsg
  /\ sig_id = Bytes(0, HEADER_SIZE)
  /\ com2_ctx = OneShotCom2
  /\ presigid_ctx = OneShotPresigId

\* Squeezing com2 and absorbing it into Hash_2 spends both contexts.
StreamedVerify_Finalize(m, fault) ==
  /\ Idle
  /\ FinalizeReady
  /\ call' = <<"finalize", m>>
  /\ faulty' = (faulty \/ fault)
  /\ IF ~fault /\ IdMatches(m)
     THEN state' = "DONE" /\ ret' = "ok"
     ELSE state' = "FAILED" /\ ret' = "fail"
  /\ UNCHANGED <<live, sig, fed, avail, num_current_chunk, pos, unprocessed,
                 header, batch>>

\* The context is wiped and released.
StreamedVerify_Clean ==
  /\ Idle
  /\ live' = FALSE
  /\ fed' = 0
  /\ faulty' = FALSE
  /\ call' = <<"clean">>
  /\ ret' = "ok"
  /\ avail' = 0
  /\ UNCHANGED sig
  /\ CtxZero

Next ==
  \/ \E s \in Sigs : StreamedVerify_Init(s)
  \/ StreamedVerify_InitFails
  \/ \E null \in BOOLEAN : UpdateRefused(null)
  \/ \E n \in 0..MaxPart : UpdateCall(n)
  \/ UpdateProgress
  \/ UpdateFault
  \/ \E m \in Messages : FinalizeRefused(m)
  \/ \E m \in Messages, fault \in BOOLEAN : StreamedVerify_Finalize(m, fault)
  \/ StreamedVerify_Clean

\* The loop of Update is straight-line code of the calling thread: once
\* entered, it runs. Nothing obliges a call to fail, nor the caller to call.
Spec == Init /\ [][Next]_vars /\ WF_vars(UpdateProgress)

-----------------------------------------------------------------------------
\* Type invariant: every index stays inside the array it indexes.
TypeOK ==
  /\ live \in BOOLEAN
  /\ sig \in Sigs
  /\ fed \in 0..SigSize
  /\ faulty \in BOOLEAN
  /\ ret \in {"ok", "fail", "running"}
  /\ avail \in 0..MaxPart
  /\ state \in {"ACTIVE", "FAILED", "DONE"}
  /\ num_current_chunk \in 0..TAU+1
  /\ pos \in 0..LargestChunk
  /\ unprocessed \in [0..LargestChunk-1 -> Int]
  /\ header_ok \in BOOLEAN
  /\ batch_count \in 0..BATCH
  /\ alpha1_batch \in [0..BATCH-1 -> Seq(Int)]
  /\ eval_batch \in [0..BATCH-1 -> [exec : Int, from : Seq(Int)]]
  /\ com2_ctx \in Seq([i_star : Int, eval : [exec : Int, from : Seq(Int)],
                       alpha1 : Seq(Int)])
  /\ presigid_ctx \in Seq([exec : Int, from : Seq(Int)])

\* Offset in the signature at which chunk c starts.
Base(c) == IF c = 0 THEN 0 ELSE HEADER_SIZE + (c - 1) * CHUNK_SIZE

\* Executions whose contribution both hashes have absorbed.
Absorbed == IF num_current_chunk = 0 THEN 0
            ELSE num_current_chunk - 1 - batch_count

\* However a caller cuts the signature into parts, the reassembly buffer of an
\* active context holds the bytes of the current chunk seen so far, in place,
\* and nothing was skipped or taken twice.
Reassembled ==
  state = "ACTIVE" =>
    /\ fed = Base(num_current_chunk) + pos
    /\ num_current_chunk <= TAU => pos < NextChunkSize
    /\ num_current_chunk = TAU + 1 => pos = 0
    /\ \A i \in 0..pos-1 : unprocessed[i] = Base(num_current_chunk) + i

\* Both transcripts of an active context are exactly what one-shot
\* verification absorbs for the executions flushed so far: each from its own
\* chunk and its own challenge, in order, whatever the batch size.
TranscriptIsPrefix ==
  state \in {"ACTIVE", "DONE"} =>
    /\ com2_ctx = [i \in 1..Absorbed |-> ExecAlphas(i - 1)]
    /\ presigid_ctx = [i \in 1..Absorbed |-> ExecEval(i - 1)]

\* The slots of the batch in use hold the executions consumed since the last
\* flush, and a full or final batch never stays behind: there is always a
\* free slot for the next chunk, and none is in use when Finalize may run.
SlotsHoldPending ==
  state = "ACTIVE" =>
    /\ batch_count < BATCH
    /\ batch_count > 0 => num_current_chunk \in 2..TAU /\ Absorbed >= 0
    /\ \A b \in 0..batch_count-1 :
         /\ eval_batch[b] = ExecEval(Absorbed + b)
         /\ alpha1_batch[b] = ExecBytes(Absorbed + b)

\* What waits in the context is what was fed and not yet absorbed.
BuffersHoldPending == Reassembled /\ SlotsHoldPending

\* The streaming verifier implements one-shot verification.
VerdictOf == [s \in {"ACTIVE", "FAILED", "DONE"} |->
                CASE s = "ACTIVE" -> "pending"
                  [] s = "FAILED" -> "rejected"
                  [] s = "DONE"   -> "accepted"]

OneShot == INSTANCE VerifyOnce WITH verdict <- VerdictOf[state]

\* Every call answers what one-shot verification of the same bytes would: in
\* particular Finalize succeeds on a genuine signature fed in any parts, and
\* on nothing else.
RefinesOneShot == OneShot!Spec

\* A call of Update returns, whatever the size of its part: each round of its
\* loop consumes bytes.
UpdateReturns == (ret = "running") ~> (ret # "running")

=============================================================================
