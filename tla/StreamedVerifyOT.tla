-------------------------- MODULE StreamedVerifyOT --------------------------
(***************************************************************************)
(* The streaming verifier of the OT family (src/verify_stream_ot.c): a     *)
(* header, one prefix (the opening of the large tree), then TAU alpha1     *)
(* chunks.  Bytes and what is computed from them are represented as in     *)
(* StreamedVerifyCT.  The prefix buffer is a heap block of its own: it     *)
(* serves as scratch for the header, and is released by Update as soon as  *)
(* the prefix was processed.                                               *)
(***************************************************************************)
EXTENDS Integers, Sequences

CONSTANTS
  TAU,         \* MQOM3_PARAM_TAU
  BATCH,       \* STREAM_VERIFY_BATCH
  OT_BATCH,    \* BLC_OT_BATCH_SIZE: executions of one pass over the tree
  HEADER_SIZE, \* STREAM_VERIFY_OT_HEADER_SIZE
  PREFIX_SIZE, \* STREAM_VERIFY_OT_PREFIX_SIZE
  ALPHA1_SIZE, \* STREAM_VERIFY_OT_ALPHA1_CHUNK_SIZE
  MaxPart,     \* longest part a caller hands to one Update
  Messages,
  SignedMsg

ASSUME OTAssumption ==
  /\ {TAU, BATCH, OT_BATCH, HEADER_SIZE, PREFIX_SIZE, ALPHA1_SIZE}
       \subseteq Nat \ {0}
  /\ HEADER_SIZE <= PREFIX_SIZE   \* the #error of verify_stream_ot.h
  /\ MaxPart \in Nat
  /\ SignedMsg \in Messages

SigSize == HEADER_SIZE + PREFIX_SIZE + TAU * ALPHA1_SIZE
Execs == 0..TAU-1
Sigs == {"genuine", "badheader", "badbody"}

VARIABLES
  \* the caller's side, and the blocks mqom_malloc handed out
  live, sig, fed, faulty, call, ret, avail, heap,
  \* OT_stream_verify_ctx_t
  state, phase, e, pos,
  prefix_ptr,         \* the pointer prefix_buf is not NULL
  prefix_buf, alpha1_chunk_buf,
  header_ok,
  sig_id,             \* the header bytes copied into sig_id and salt
  com1,               \* com1, x_eval and u_eval of every execution
  batch_count, alpha1_batch,
  com2_ctx, presigid_ctx

session  == <<live, sig, fed, faulty, avail>>
chunking == <<state, phase, e, pos>>
buffers  == <<prefix_ptr, heap, prefix_buf, alpha1_chunk_buf>>
header   == <<header_ok, sig_id>>
batch    == <<batch_count, alpha1_batch, com2_ctx>>
ctx      == <<chunking, buffers, header, com1, batch, presigid_ctx>>
vars     == <<session, call, ret, ctx>>

-----------------------------------------------------------------------------
NoBytes == <<>>
Bytes(s, n) == [i \in 1..n |-> s + i - 1]
Chunk(buf, n) == [i \in 1..n |-> buf[i - 1]]

\* OT_BLC_Eval_memopt_partial for execution i.
Eval(i, prefix) == [exec |-> i, from |-> prefix]
Alphas(i, ev, a1) == [i_star |-> i, eval |-> ev, alpha1 |-> a1]
NoEval == Eval(-1, NoBytes)

-----------------------------------------------------------------------------
CtxZero ==
  /\ state' = "ACTIVE" /\ phase' = 0 /\ e' = 0 /\ pos' = 0
  /\ prefix_buf' = [i \in 0..PREFIX_SIZE-1 |-> -1]
  /\ alpha1_chunk_buf' = [i \in 0..ALPHA1_SIZE-1 |-> -1]
  /\ header_ok' = FALSE /\ sig_id' = NoBytes
  /\ com1' = [i \in Execs |-> NoEval]
  /\ batch_count' = 0 /\ alpha1_batch' = [b \in 0..BATCH-1 |-> NoBytes]
  /\ com2_ctx' = <<>> /\ presigid_ctx' = <<>>

Init ==
  /\ live = FALSE /\ sig \in Sigs /\ fed = 0 /\ faulty = FALSE
  /\ call = <<"none">> /\ ret = "ok" /\ avail = 0 /\ heap = {}
  /\ state = "ACTIVE" /\ phase = 0 /\ e = 0 /\ pos = 0
  /\ prefix_ptr = FALSE
  /\ prefix_buf = [i \in 0..PREFIX_SIZE-1 |-> -1]
  /\ alpha1_chunk_buf = [i \in 0..ALPHA1_SIZE-1 |-> -1]
  /\ header_ok = FALSE /\ sig_id = NoBytes
  /\ com1 = [i \in Execs |-> NoEval]
  /\ batch_count = 0 /\ alpha1_batch = [b \in 0..BATCH-1 |-> NoBytes]
  /\ com2_ctx = <<>> /\ presigid_ctx = <<>>

StreamedVerify_Init(s) ==
  /\ ~live
  /\ live' = TRUE /\ sig' = s /\ fed' = 0 /\ faulty' = FALSE /\ avail' = 0
  /\ call' = <<"init">> /\ ret' = "ok"
  /\ CtxZero
  /\ heap' = heap \cup {"ctx", "prefix_buf"}
  /\ prefix_ptr' = TRUE

\* pk is NULL or an allocation fails; a context allocated first is freed.
StreamedVerify_InitFails ==
  /\ ~live
  /\ call' = <<"init">> /\ ret' = "fail"
  /\ UNCHANGED <<session, ctx>>

Idle == live /\ ret # "running"

Refused(c) ==
  /\ Idle
  /\ call' = c /\ ret' = "fail"
  /\ UNCHANGED <<session, ctx>>

-----------------------------------------------------------------------------
(***************************************************************************)
(* OT_StreamedVerify_Update.                                               *)
(***************************************************************************)
UpdateRefused(null) ==
  /\ null \/ state # "ACTIVE"
  /\ Refused(<<"update">>)

UpdateCall(n) ==
  /\ Idle
  /\ state = "ACTIVE"
  /\ call' = <<"update">>
  /\ avail' = n
  /\ ret' = IF n = 0 THEN "ok" ELSE "running"
  /\ UNCHANGED <<live, sig, fed, faulty, ctx>>

InUpdate == live /\ ret = "running" /\ avail > 0

Latch == ret' = "fail" /\ state' = "FAILED" /\ avail' = 0

ChunksLeft == ~(phase = 2 /\ e >= TAU)

UpdateOverlong ==
  /\ InUpdate
  /\ ~ChunksLeft
  /\ Latch
  /\ UNCHANGED <<live, sig, fed, faulty, call, phase, e, pos, buffers, header,
                 com1, batch, presigid_ctx>>

NextChunkSize ==
  CASE phase = 0 -> HEADER_SIZE
    [] phase = 1 -> PREFIX_SIZE
    [] OTHER     -> ALPHA1_SIZE

ToCopy ==
  LET needed == NextChunkSize - pos
  IN  IF needed < avail THEN needed ELSE avail

Filled(buf) ==
  [i \in DOMAIN buf |-> IF i \in pos..pos+ToCopy-1 THEN fed + i - pos
                                                   ELSE buf[i]]

\* memcpy into the buffer of the phase: header and prefix share prefix_buf.
CopyPart ==
  /\ IF phase = 2
     THEN alpha1_chunk_buf' = Filled(alpha1_chunk_buf) /\ UNCHANGED prefix_buf
     ELSE prefix_buf' = Filled(prefix_buf) /\ UNCHANGED alpha1_chunk_buf
  /\ fed' = fed + ToCopy

UpdateBuffer ==
  /\ InUpdate
  /\ ChunksLeft
  /\ pos + ToCopy < NextChunkSize
  /\ CopyPart
  /\ pos' = pos + ToCopy
  /\ avail' = avail - ToCopy
  /\ ret' = IF avail' = 0 THEN "ok" ELSE "running"
  /\ UNCHANGED <<live, sig, faulty, call, state, phase, e, prefix_ptr, heap,
                 header, com1, batch, presigid_ctx>>

CompletesChunk(p) ==
  /\ InUpdate
  /\ ChunksLeft
  /\ phase = p
  /\ pos + ToCopy = NextChunkSize
  /\ CopyPart
  /\ UNCHANGED <<live, sig, call>>

\* (wrong on purpose) The fill position and the phase are left as they were.
ChunkDone_NotAdvanced(p) ==
  /\ pos' = pos + ToCopy
  /\ phase' = phase
  /\ avail' = avail - ToCopy
  /\ ret' = IF avail' = 0 THEN "ok" ELSE "running"
  /\ UNCHANGED state

ChunkDone(p) ==
  /\ pos' = 0
  /\ phase' = p
  /\ avail' = avail - ToCopy
  /\ ret' = IF avail' = 0 THEN "ok" ELSE "running"
  /\ UNCHANGED state

ChunkFailed ==
  /\ Latch
  /\ pos' = pos + ToCopy
  /\ UNCHANGED <<phase, e, prefix_ptr, heap>>

\* process_header: sig_id, salt, the challenges, the two hash contexts.
ProcessHeader(fault) ==
  /\ CompletesChunk(0)
  /\ sig_id' = Chunk(prefix_buf', HEADER_SIZE)
  /\ faulty' = (faulty \/ fault)
  /\ IF fault \/ sig = "badheader"
     THEN /\ ChunkFailed
          /\ UNCHANGED <<header_ok, com2_ctx, presigid_ctx>>
     ELSE /\ ChunkDone(1)
          /\ header_ok' = TRUE /\ com2_ctx' = <<>> /\ presigid_ctx' = <<>>
          /\ UNCHANGED <<e, prefix_ptr, heap>>
  /\ UNCHANGED <<com1, batch_count, alpha1_batch>>

\* First execution of each pass over the tree, and how many it covers.
PassStarts == {s \in Execs : s % OT_BATCH = 0}

PassSize(s) == IF TAU - s < OT_BATCH THEN TAU - s ELSE OT_BATCH

\* com1 after the passes starting below limit.
EvalPasses(limit) ==
  [i \in Execs |->
     IF \E s \in PassStarts : s < limit /\ i \in s..s+PassSize(s)-1
     THEN Eval(i, Chunk(prefix_buf, PREFIX_SIZE)') ELSE com1[i]]

\* (wrong on purpose) The pointer survives the block.
ReleasePrefix_Dangling == heap' = heap \ {"prefix_buf"} /\ UNCHANGED prefix_ptr

ReleasePrefix == heap' = heap \ {"prefix_buf"} /\ prefix_ptr' = FALSE

\* process_prefix, then the prefix buffer is wiped and freed.
ProcessPrefix ==
  /\ CompletesChunk(1)
  /\ com1' = EvalPasses(TAU)
  /\ presigid_ctx' = presigid_ctx \o [i \in 1..TAU |-> com1'[i - 1]]
  /\ ReleasePrefix
  /\ ChunkDone(2)
  /\ e' = 0
  /\ UNCHANGED <<faulty, header, batch>>

\* A pass fails after the earlier ones were made: the buffer is kept.
ProcessPrefixFails ==
  /\ CompletesChunk(1)
  /\ \E s \in PassStarts \cup {TAU} : com1' = EvalPasses(s)
  /\ faulty' = TRUE
  /\ ChunkFailed
  /\ UNCHANGED <<header, batch, presigid_ctx>>

FlushDue(n) == n = BATCH \/ e = TAU - 1

\* (wrong on purpose) The commitments are taken from the start of com1.
BatchAlphas_Unshifted(k, e_batch_start) ==
  [i \in 1..k |-> Alphas(e_batch_start + i - 1, com1[i - 1],
                         alpha1_batch'[i - 1])]

\* flush_alpha1_batch: the alphas of the first k slots.
BatchAlphas(k, e_batch_start) ==
  [i \in 1..k |-> Alphas(e_batch_start + i - 1, com1[e_batch_start + i - 1],
                         alpha1_batch'[i - 1])]

\* process_alpha1_chunk for execution e.
ProcessAlpha1 ==
  LET n == batch_count + 1
  IN  /\ CompletesChunk(2)
      /\ alpha1_batch' = [alpha1_batch EXCEPT ![n - 1] =
                            Chunk(alpha1_chunk_buf', ALPHA1_SIZE)]
      /\ IF FlushDue(n)
         THEN com2_ctx' = com2_ctx \o BatchAlphas(n, e - n + 1)
              /\ batch_count' = 0
         ELSE batch_count' = n /\ UNCHANGED com2_ctx
      /\ ChunkDone(2)
      /\ e' = e + 1
      /\ UNCHANGED <<faulty, prefix_ptr, heap, header, com1, presigid_ctx>>

\* A call of flush_alpha1_batch fails after the first k slots were absorbed.
ProcessAlpha1Fails ==
  LET n == batch_count + 1
  IN  /\ CompletesChunk(2)
      /\ FlushDue(n)
      /\ alpha1_batch' = [alpha1_batch EXCEPT ![n - 1] =
                            Chunk(alpha1_chunk_buf', ALPHA1_SIZE)]
      /\ \E k \in 0..n : com2_ctx' = com2_ctx \o BatchAlphas(k, e - n + 1)
      /\ batch_count' = n
      /\ faulty' = TRUE
      /\ ChunkFailed
      /\ UNCHANGED <<header, com1, presigid_ctx>>

UpdateProgress ==
  \/ UpdateOverlong
  \/ UpdateBuffer
  \/ ProcessHeader(FALSE)
  \/ ProcessPrefix
  \/ ProcessAlpha1

UpdateFault == ProcessHeader(TRUE) \/ ProcessPrefixFails \/ ProcessAlpha1Fails

-----------------------------------------------------------------------------
(***************************************************************************)
(* OT_StreamedVerify_Finalize and OT_StreamedVerify_Clean.                 *)
(***************************************************************************)

\* (wrong on purpose) The phase is trusted to imply that every chunk came.
FinalizeReady_AnyCount ==
  state = "ACTIVE" /\ header_ok /\ phase = 2 /\ pos = 0

FinalizeReady ==
  state = "ACTIVE" /\ header_ok /\ phase = 2 /\ e = TAU /\ pos = 0

FinalizeRefused(m) == ~FinalizeReady /\ Refused(<<"finalize", m>>)

\* What one-shot verification absorbs.
PrefixBytes   == Bytes(HEADER_SIZE, PREFIX_SIZE)
ExecEval(i)   == Eval(i, PrefixBytes)
Alpha1Bytes(i) == Bytes(HEADER_SIZE + PREFIX_SIZE + i * ALPHA1_SIZE, ALPHA1_SIZE)
ExecAlphas(i) == Alphas(i, ExecEval(i), Alpha1Bytes(i))
OneShotCom2     == [i \in 1..TAU |-> ExecAlphas(i - 1)]
OneShotPresigId == [i \in 1..TAU |-> ExecEval(i - 1)]

\* The recomputed identifier equals sig_id.
IdMatches(m) ==
  /\ sig = "genuine"
  /\ m = SignedMsg
  /\ sig_id = Bytes(0, HEADER_SIZE)
  /\ com2_ctx = OneShotCom2
  /\ presigid_ctx = OneShotPresigId

StreamedVerify_Finalize(m, fault) ==
  /\ Idle
  /\ FinalizeReady
  /\ call' = <<"finalize", m>>
  /\ faulty' = (faulty \/ fault)
  /\ IF ~fault /\ IdMatches(m)
     THEN state' = "DONE" /\ ret' = "ok"
     ELSE state' = "FAILED" /\ ret' = "fail"
  /\ UNCHANGED <<live, sig, fed, avail, phase, e, pos, buffers, header, com1,
                 batch, presigid_ctx>>

StreamedVerify_Clean ==
  /\ Idle
  /\ live' = FALSE /\ fed' = 0 /\ faulty' = FALSE /\ avail' = 0
  /\ call' = <<"clean">> /\ ret' = "ok"
  /\ heap' = heap \ ({"ctx"} \cup (IF prefix_ptr THEN {"prefix_buf"} ELSE {}))
  /\ prefix_ptr' = FALSE
  /\ UNCHANGED sig
  /\ CtxZero

Next ==
  \/ \E s \in Sigs : StreamedVerify_Init(s)
  \/ StreamedVerify_InitFails
  \/ \E null \in BOOLEAN : UpdateRefused(null)
  \/ \E n \in 0..MaxPart : UpdateCall(n)
  \/ UpdateProgress
  \/ UpdateFault
  \/ \E m \in Messages : FinalizeRefused(m)
  \/ \E m \in Messages, fault \in BOOLEAN : StreamedVerify_Finalize(m, fault)
  \/ StreamedVerify_Clean

Spec == Init /\ [][Next]_vars /\ WF_vars(UpdateProgress)

-----------------------------------------------------------------------------
\* Type invariant: every index stays inside the array it indexes.
TypeOK ==
  /\ live \in BOOLEAN
  /\ sig \in Sigs
  /\ fed \in 0..SigSize
  /\ faulty \in BOOLEAN
  /\ ret \in {"ok", "fail", "running"}
  /\ avail \in 0..MaxPart
  /\ heap \subseteq {"ctx", "prefix_buf"}
  /\ state \in {"ACTIVE", "FAILED", "DONE"}
  /\ phase \in 0..2
  /\ e \in 0..TAU
  /\ pos \in 0..NextChunkSize
  /\ prefix_ptr \in BOOLEAN
  /\ prefix_buf \in [0..PREFIX_SIZE-1 -> Int]
  /\ alpha1_chunk_buf \in [0..ALPHA1_SIZE-1 -> Int]
  /\ header_ok \in BOOLEAN
  /\ batch_count \in 0..BATCH

\* The prefix buffer is on the heap exactly as long as the context points to
\* it, and an active context reads or writes it only then: Update never
\* touches it after it released it, Clean frees it once, nothing leaks.
PrefixBufferOwned ==
  /\ heap = (IF live THEN {"ctx"} ELSE {})
              \cup (IF prefix_ptr THEN {"prefix_buf"} ELSE {})
  /\ prefix_ptr => live
  /\ live /\ state = "ACTIVE" => (prefix_ptr <=> phase < 2)

\* Both: whatever is cut where, an Update neither leaves the arrays of the
\* context nor the life of its buffer.
BufferInvariant == TypeOK /\ PrefixBufferOwned

\* Offset in the signature of the chunk being assembled.
Base == CASE phase = 0 -> 0
          [] phase = 1 -> HEADER_SIZE
          [] OTHER     -> HEADER_SIZE + PREFIX_SIZE + e * ALPHA1_SIZE

Absorbed == e - batch_count

\* The transcripts of an active context are a prefix of those of one-shot
\* verification, for any way of cutting the signature, any batch size and any
\* number of passes over the tree; with the last chunk they are complete.
TranscriptIsPrefix ==
  state \in {"ACTIVE", "DONE"} =>
    /\ fed = Base + pos
    /\ com2_ctx = [i \in 1..Absorbed |-> ExecAlphas(i - 1)]
    /\ presigid_ctx = IF phase = 2 THEN OneShotPresigId ELSE <<>>
    /\ e = TAU => batch_count = 0

VerdictOf == [s \in {"ACTIVE", "FAILED", "DONE"} |->
                CASE s = "ACTIVE" -> "pending"
                  [] s = "FAILED" -> "rejected"
                  [] s = "DONE"   -> "accepted"]

OneShot == INSTANCE VerifyOnce WITH verdict <- VerdictOf[state]

\* Every call answers what one-shot verification of the same bytes would.
RefinesOneShot == OneShot!Spec

=============================================================================
