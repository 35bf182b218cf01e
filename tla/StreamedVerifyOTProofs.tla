------------------------ MODULE StreamedVerifyOTProofs ------------------------
(***************************************************************************)
(* Proofs about StreamedVerifyOT, for every TAU, batch, pass and chunk     *)
(* sizes, and every way of cutting the signature into parts:               *)
(*                                                                         *)
(*   BuffersCorrect      no index leaves its array, and the prefix buffer  *)
(*                       is on the heap exactly while it is needed;        *)
(*   TranscriptCorrect   both hashes absorb the one-shot transcript;       *)
(*   Implements          the streaming verifier implements VerifyOnce.     *)
(*                                                                         *)
(* The argument is that of StreamedVerifyCTProofs, with one step more: the *)
(* alphas are computed from commitments made a phase earlier, out of a     *)
(* buffer that is gone by then.                                            *)
(***************************************************************************)
EXTENDS StreamedVerifyOT, TLAPS

\* A call that has not returned is an Update that has bytes left.
RunningIsActive ==
  ret = "running" => live /\ state = "ACTIVE" /\ avail > 0 /\ call = <<"update">>

\* An active context past its first chunk holds the header, which was good, and
\* no call of its session failed.
HeaderSeen ==
  state = "ACTIVE" =>
    /\ ~faulty
    /\ header_ok <=> phase > 0
    /\ phase > 0 => sig # "badheader" /\ sig_id = Bytes(0, HEADER_SIZE)

\* The buffer of the phase holds the current chunk's bytes in place, and a chunk
\* is processed as soon as it is complete.
Reassembled ==
  state = "ACTIVE" =>
    /\ phase < 2 => e = 0
    /\ IF e = TAU THEN pos = 0 ELSE pos < NextChunkSize
    /\ \A i \in 0..pos-1 :
         (IF phase = 2 THEN alpha1_chunk_buf ELSE prefix_buf)[i] = Base + i

\* Once the prefix is gone, each execution has the commitment made out of it.
CommitmentsMade ==
  state = "ACTIVE" /\ phase = 2 => com1 = [i \in Execs |-> ExecEval(i)]

\* The slots hold the alpha1 of the executions not absorbed yet; one is free.
SlotsHoldPending ==
  state = "ACTIVE" =>
    /\ batch_count < BATCH
    /\ batch_count <= e
    /\ DOMAIN alpha1_batch = 0..BATCH-1
    /\ \A b \in 0..batch_count-1 :
         alpha1_batch[b] = Alpha1Bytes(e - batch_count + b)

\* The inductive invariant.
IInv ==
  /\ TypeOK
  /\ PrefixBufferOwned
  /\ RunningIsActive
  /\ HeaderSeen
  /\ Reassembled
  /\ CommitmentsMade
  /\ SlotsHoldPending
  /\ TranscriptIsPrefix

-----------------------------------------------------------------------------
(***************************************************************************)
(* Sizes and offsets.                                                      *)
(***************************************************************************)

\* Where the alpha1 of execution i starts.
AlphaBase(i) == HEADER_SIZE + PREFIX_SIZE + i * ALPHA1_SIZE

\* The alpha1 chunks follow one another and the last one ends the signature.
LEMMA Offsets ==
  /\ SigSize \in Nat
  /\ AlphaBase(0) = HEADER_SIZE + PREFIX_SIZE
  /\ AlphaBase(TAU) = SigSize
  /\ \A i \in 0..TAU-1 : /\ AlphaBase(i) \in Nat
                         /\ AlphaBase(i + 1) = AlphaBase(i) + ALPHA1_SIZE
                         /\ AlphaBase(i + 1) <= SigSize
<1>1. \A a, b \in Nat : a * b \in Nat
  OBVIOUS
<1>2. ASSUME NEW i \in 0..TAU-1
      PROVE  /\ AlphaBase(i) \in Nat
             /\ AlphaBase(i + 1) = AlphaBase(i) + ALPHA1_SIZE
             /\ AlphaBase(i + 1) <= SigSize
  <2>1. i * ALPHA1_SIZE \in Nat /\ (TAU - (i + 1)) * ALPHA1_SIZE \in Nat
    <3>1. i \in Nat /\ TAU - (i + 1) \in Nat
      BY OTAssumption
    <3>2. QED BY <1>1, <3>1, OTAssumption
  <2>2. (i + 1) * ALPHA1_SIZE = i * ALPHA1_SIZE + ALPHA1_SIZE
    BY OTAssumption
  <2>3. TAU * ALPHA1_SIZE = (i + 1) * ALPHA1_SIZE + (TAU - (i + 1)) * ALPHA1_SIZE
    BY OTAssumption
  <2>4. QED BY <2>1, <2>2, <2>3, OTAssumption DEF AlphaBase, SigSize
<1>3. TAU * ALPHA1_SIZE \in Nat /\ 0 * ALPHA1_SIZE = 0
  BY <1>1, OTAssumption
<1>4. SigSize \in Nat /\ AlphaBase(0) = HEADER_SIZE + PREFIX_SIZE
  BY <1>3, OTAssumption DEF SigSize, AlphaBase
<1>5. AlphaBase(TAU) = SigSize
  BY DEF SigSize, AlphaBase
<1>6. QED BY <1>2, <1>4, <1>5

\* The chunk of each phase, and where it starts.
LEMMA Phases ==
  ASSUME phase \in 0..2
  PROVE  /\ phase = 0 => Base = 0 /\ NextChunkSize = HEADER_SIZE
         /\ phase = 1 => Base = HEADER_SIZE /\ NextChunkSize = PREFIX_SIZE
         /\ phase = 2 => Base = AlphaBase(e) /\ NextChunkSize = ALPHA1_SIZE
BY DEF Base, NextChunkSize, AlphaBase

\* The passes over the tree cover every execution.
LEMMA PassesCover ==
  ASSUME NEW i \in Execs
  PROVE  \E s \in PassStarts : i \in s..s+PassSize(s)-1
<1> DEFINE q == i \div OT_BATCH
           s == OT_BATCH * q
<1>1. /\ TAU \in Nat /\ OT_BATCH \in Nat /\ OT_BATCH > 0
      /\ i \in Nat /\ i < TAU
  BY OTAssumption DEF Execs
<1>2. q \in Nat /\ s \in Nat /\ s <= i /\ i < s + OT_BATCH
  BY <1>1
<1>3. s % OT_BATCH = 0
  <2>1. /\ s = (OT_BATCH * (s \div OT_BATCH)) + (s % OT_BATCH)
        /\ s % OT_BATCH \in 0..OT_BATCH-1
        /\ s \div OT_BATCH \in Nat
    BY <1>1, <1>2
  <2> DEFINE d == q - (s \div OT_BATCH)
  <2>2. d \in Int /\ OT_BATCH * d = s % OT_BATCH
    BY <1>1, <1>2, <2>1
  <2> HIDE DEF d
  <2>3. CASE d <= 0
    <3>1. OT_BATCH * d <= 0
      BY <1>1, <2>2, <2>3
    <3>2. QED BY <3>1, <2>1, <2>2
  <2>4. CASE d >= 1
    <3>1. OT_BATCH * d >= OT_BATCH
      BY <1>1, <2>2, <2>4
    <3>2. QED BY <3>1, <2>1, <2>2, <1>1
  <2>5. QED BY <2>2, <2>3, <2>4
<1> HIDE DEF s
<1>4. s \in PassStarts
  BY <1>1, <1>2, <1>3 DEF PassStarts, Execs
<1>5. i \in s..s+PassSize(s)-1
  BY <1>1, <1>2 DEF PassSize
<1>6. QED BY <1>4, <1>5

\* Absorbing n more executions extends the prefix by n.
LEMMA PrefixExtended ==
  ASSUME NEW a \in Nat, NEW n \in Nat
  PROVE  [i \in 1..a |-> ExecAlphas(i - 1)] \o [i \in 1..n |-> ExecAlphas(a + i - 1)]
           = [i \in 1..a+n |-> ExecAlphas(i - 1)]
OBVIOUS

-----------------------------------------------------------------------------
(***************************************************************************)
(* One round of the loop of Update.                                        *)
(***************************************************************************)

\* What an action that handles bytes may assume.
Round == IInv /\ InUpdate /\ ChunksLeft

\* A round consumes at least one byte, and never past its chunk.
LEMMA RoundConsumes ==
  ASSUME Round
  PROVE  /\ NextChunkSize \in Nat /\ ToCopy \in Nat /\ pos \in Nat /\ avail \in Nat
         /\ fed \in Nat /\ Base \in Nat
         /\ phase \in 0..2 /\ state = "ACTIVE" /\ e \in 0..TAU-1
         /\ phase < 2 => NextChunkSize <= PREFIX_SIZE
         /\ phase = 2 => NextChunkSize = ALPHA1_SIZE
         /\ pos < NextChunkSize
         /\ ToCopy \in 1..avail
         /\ pos + ToCopy \in 1..NextChunkSize
         /\ fed = Base + pos
         /\ Base + NextChunkSize <= SigSize
<1>1. /\ state = "ACTIVE" /\ avail \in Nat \ {0} /\ phase \in 0..2
      /\ pos \in Nat /\ fed \in Nat /\ e \in 0..TAU
  BY OTAssumption, Offsets DEF Round, IInv, TypeOK, RunningIsActive, InUpdate
<1>2. e \in 0..TAU-1
  BY <1>1, OTAssumption DEF Round, IInv, Reassembled, ChunksLeft
<1>3. pos < NextChunkSize /\ fed = Base + pos
  BY <1>1, <1>2, OTAssumption DEF Round, IInv, Reassembled, TranscriptIsPrefix
<1>4. /\ Base \in Nat /\ NextChunkSize \in Nat
      /\ Base + NextChunkSize <= SigSize
      /\ phase < 2 => NextChunkSize <= PREFIX_SIZE
      /\ phase = 2 => NextChunkSize = ALPHA1_SIZE
  <2>1. TAU * ALPHA1_SIZE \in Nat
    <3>1. \A a, b \in Nat : a * b \in Nat
      OBVIOUS
    <3>2. QED BY <3>1, OTAssumption
  <2>2. CASE phase = 0
    BY <1>1, <2>1, <2>2, Phases, OTAssumption DEF SigSize
  <2>3. CASE phase = 1
    BY <1>1, <2>1, <2>3, Phases, OTAssumption DEF SigSize
  <2>4. CASE phase = 2
    BY <1>1, <1>2, <2>4, Phases, Offsets, OTAssumption
  <2>5. QED BY <1>1, <2>2, <2>3, <2>4
<1>5. ToCopy \in 1..avail /\ pos + ToCopy \in 1..NextChunkSize
  BY <1>1, <1>3, <1>4 DEF ToCopy
<1>6. QED BY <1>1, <1>2, <1>3, <1>4, <1>5

\* The bytes copied land behind those already there.
LEMMA FilledExtends ==
  ASSUME Round, NEW n \in Nat, NextChunkSize <= n,
         NEW buf \in [0..n-1 -> Int],
         \A i \in 0..pos-1 : buf[i] = Base + i
  PROVE  /\ Filled(buf) \in [0..n-1 -> Int]
         /\ \A i \in 0..pos+ToCopy-1 : Filled(buf)[i] = Base + i
<1>1. /\ pos \in Nat /\ ToCopy \in Nat /\ Base \in Nat /\ fed = Base + pos
      /\ pos + ToCopy <= n
  BY RoundConsumes
<1>2. Filled(buf) = [i \in 0..n-1 |-> IF i \in pos..pos+ToCopy-1 THEN fed + i - pos
                                                              ELSE buf[i]]
  BY DEF Filled
<1>3. Filled(buf) \in [0..n-1 -> Int]
  BY <1>1, <1>2
<1>4. ASSUME NEW i \in 0..pos+ToCopy-1
      PROVE  Filled(buf)[i] = Base + i
  <2>1. i \in 0..n-1
    BY <1>1
  <2>2. CASE i < pos
    BY <1>1, <1>2, <2>1, <2>2
  <2>3. CASE i >= pos
    BY <1>1, <1>2, <2>1, <2>3
  <2>4. QED BY <2>2, <2>3, <1>1
<1>5. QED BY <1>3, <1>4

LEMMA RoundCopies ==
  ASSUME Round, CopyPart
  PROVE  /\ prefix_buf' \in [0..PREFIX_SIZE-1 -> Int]
         /\ alpha1_chunk_buf' \in [0..ALPHA1_SIZE-1 -> Int]
         /\ fed' = Base + pos + ToCopy
         /\ fed' \in 0..SigSize
         /\ phase < 2 => \A i \in 0..pos+ToCopy-1 : prefix_buf'[i] = Base + i
         /\ phase = 2 => \A i \in 0..pos+ToCopy-1 : alpha1_chunk_buf'[i] = Base + i
<1>1. fed' = Base + pos + ToCopy /\ fed' \in 0..SigSize
  BY RoundConsumes, Offsets DEF CopyPart
<1>2. /\ prefix_buf \in [0..PREFIX_SIZE-1 -> Int]
      /\ alpha1_chunk_buf \in [0..ALPHA1_SIZE-1 -> Int]
      /\ state = "ACTIVE" /\ phase \in 0..2
  BY RoundConsumes DEF Round, IInv, TypeOK
<1>3. CASE phase = 2
  <2>1. \A i \in 0..pos-1 : alpha1_chunk_buf[i] = Base + i
    BY <1>2, <1>3 DEF Round, IInv, Reassembled
  <2>2. NextChunkSize <= ALPHA1_SIZE /\ ALPHA1_SIZE \in Nat
    BY <1>3, RoundConsumes, OTAssumption
  <2>3. /\ Filled(alpha1_chunk_buf) \in [0..ALPHA1_SIZE-1 -> Int]
        /\ \A i \in 0..pos+ToCopy-1 : Filled(alpha1_chunk_buf)[i] = Base + i
    BY <1>2, <2>1, <2>2, FilledExtends
  <2>4. QED BY <1>1, <1>2, <1>3, <2>3 DEF CopyPart
<1>4. CASE phase # 2
  <2>1. \A i \in 0..pos-1 : prefix_buf[i] = Base + i
    BY <1>2, <1>4 DEF Round, IInv, Reassembled
  <2>2. NextChunkSize <= PREFIX_SIZE /\ PREFIX_SIZE \in Nat
    <3>1. phase < 2
      BY <1>2, <1>4
    <3>2. QED BY <3>1, RoundConsumes, OTAssumption
  <2>3. /\ Filled(prefix_buf) \in [0..PREFIX_SIZE-1 -> Int]
        /\ \A i \in 0..pos+ToCopy-1 : Filled(prefix_buf)[i] = Base + i
    BY <1>2, <2>1, <2>2, FilledExtends
  <2>4. QED BY <1>1, <1>2, <1>4, <2>3 DEF CopyPart
<1>5. QED BY <1>3, <1>4

\* A completed chunk is, byte for byte, the next one of the signature.
LEMMA RoundCompletes ==
  ASSUME Round, NEW p \in 0..2, CompletesChunk(p)
  PROVE  /\ phase = p
         /\ fed' = Base + NextChunkSize
         /\ p = 0 => Chunk(prefix_buf', HEADER_SIZE) = Bytes(0, HEADER_SIZE)
         /\ p = 1 => Chunk(prefix_buf', PREFIX_SIZE) = PrefixBytes
         /\ p = 2 => Chunk(alpha1_chunk_buf', ALPHA1_SIZE) = Alpha1Bytes(e)
<1>1. CopyPart /\ pos + ToCopy = NextChunkSize /\ phase = p
  BY DEF CompletesChunk
<1>2. fed' = Base + NextChunkSize
  BY <1>1, RoundCopies, RoundConsumes
<1>3. CASE p = 0
  <2>1. \A i \in 0..HEADER_SIZE-1 : prefix_buf'[i] = i
    <3>1. \A i \in 0..pos+ToCopy-1 : prefix_buf'[i] = Base + i
      BY <1>1, <1>3, RoundCopies
    <3>2. Base = 0 /\ pos + ToCopy = HEADER_SIZE
      BY <1>1, <1>3, Phases
    <3>3. pos \in Nat /\ ToCopy \in Nat
      BY RoundConsumes
    <3>4. QED BY <3>1, <3>2, <3>3, OTAssumption
  <2>2. QED BY <1>1, <1>2, <1>3, <2>1, OTAssumption DEF Chunk, Bytes
<1>4. CASE p = 1
  <2>1. \A i \in 0..PREFIX_SIZE-1 : prefix_buf'[i] = HEADER_SIZE + i
    <3>1. \A i \in 0..pos+ToCopy-1 : prefix_buf'[i] = Base + i
      BY <1>1, <1>4, RoundCopies
    <3>2. Base = HEADER_SIZE /\ pos + ToCopy = PREFIX_SIZE
      BY <1>1, <1>4, Phases
    <3>3. pos \in Nat /\ ToCopy \in Nat
      BY RoundConsumes
    <3>4. QED BY <3>1, <3>2, <3>3, OTAssumption
  <2>2. QED BY <1>1, <1>2, <1>4, <2>1, OTAssumption DEF Chunk, Bytes, PrefixBytes
<1>5. CASE p = 2
  <2>1. Base = AlphaBase(e) /\ Base \in Nat /\ NextChunkSize = ALPHA1_SIZE
    BY <1>1, <1>5, RoundConsumes, Phases
  <2>2. \A i \in 0..ALPHA1_SIZE-1 : alpha1_chunk_buf'[i] = AlphaBase(e) + i
    <3>1. \A i \in 0..pos+ToCopy-1 : alpha1_chunk_buf'[i] = Base + i
      BY <1>1, <1>5, RoundCopies
    <3>2. pos + ToCopy = ALPHA1_SIZE
      BY <1>1, <2>1
    <3>3. \A i \in 0..ALPHA1_SIZE-1 : alpha1_chunk_buf'[i] = Base + i
      BY <3>1, <3>2, RoundConsumes, OTAssumption
    <3>4. QED BY <2>1, <3>3
  <2>3. Chunk(alpha1_chunk_buf', ALPHA1_SIZE) = Bytes(AlphaBase(e), ALPHA1_SIZE)
    BY <2>1, <2>2, OTAssumption DEF Chunk, Bytes
  <2>4. QED BY <1>1, <1>2, <1>5, <2>3 DEF Alpha1Bytes, AlphaBase
<1>6. QED BY <1>1, <1>2, <1>3, <1>4, <1>5

-----------------------------------------------------------------------------
(***************************************************************************)
(* Every action preserves the invariant.                                   *)
(***************************************************************************)

\* A zeroed context, whose prefix buffer is on the heap exactly if it is live,
\* satisfies it.
LEMMA ZeroedContext ==
  ASSUME CtxZero, fed' = 0, faulty' = FALSE, avail' = 0, live' \in BOOLEAN,
         sig' \in Sigs, ret' = "ok", prefix_ptr' = live',
         heap' = IF live' THEN {"ctx", "prefix_buf"} ELSE {}
  PROVE  IInv'
<1>1. TypeOK'
  <2>1. /\ state' = "ACTIVE" /\ phase' = 0 /\ e' = 0 /\ pos' = 0
        /\ batch_count' = 0 /\ header_ok' = FALSE
    BY DEF CtxZero
  <2>2. /\ prefix_buf' \in [0..PREFIX_SIZE-1 -> Int]
        /\ alpha1_chunk_buf' \in [0..ALPHA1_SIZE-1 -> Int]
    BY DEF CtxZero
  <2>3. NextChunkSize' = HEADER_SIZE
    BY <2>1 DEF NextChunkSize
  <2>4. /\ pos' \in 0..NextChunkSize' /\ e' \in 0..TAU
        /\ batch_count' \in 0..BATCH /\ avail' \in 0..MaxPart
        /\ fed' \in 0..SigSize /\ phase' \in 0..2
    BY <2>1, <2>3, Offsets, OTAssumption
  <2>5. /\ heap' \subseteq {"ctx", "prefix_buf"} /\ prefix_ptr' \in BOOLEAN
        /\ header_ok' \in BOOLEAN /\ faulty' \in BOOLEAN
    BY <2>1
  <2>6. QED BY <2>1, <2>2, <2>4, <2>5 DEF TypeOK
<1>2. PrefixBufferOwned'
  BY DEF PrefixBufferOwned, CtxZero
<1>3. RunningIsActive' /\ HeaderSeen' /\ CommitmentsMade'
  BY DEF RunningIsActive, HeaderSeen, CommitmentsMade, CtxZero
<1>4. Reassembled' /\ SlotsHoldPending'
  BY OTAssumption
  DEF Reassembled, SlotsHoldPending, CtxZero, Base, NextChunkSize
<1>5. TranscriptIsPrefix'
  <2>1. /\ phase' = 0 /\ e' = 0 /\ pos' = 0 /\ batch_count' = 0
        /\ com2_ctx' = <<>> /\ presigid_ctx' = <<>>
    BY DEF CtxZero
  <2>2. Absorbed' = 0 /\ Base' = 0
    BY <2>1 DEF Absorbed, Base
  <2>3. QED BY <2>1, <2>2, OTAssumption DEF TranscriptIsPrefix
<1>6. QED BY <1>1, <1>2, <1>3, <1>4, <1>5 DEF IInv

\* The invariant does not mention what call was made last.
LEMMA ContextUnchanged ==
  ASSUME IInv, UNCHANGED <<session, ctx>>, ret' \in {"ok", "fail"}
  PROVE  IInv'
<1>1. /\ UNCHANGED <<live, sig, fed, faulty, avail, state, phase, e, pos>>
      /\ UNCHANGED <<prefix_ptr, heap, prefix_buf, alpha1_chunk_buf, header_ok>>
      /\ UNCHANGED <<sig_id, com1, batch_count, alpha1_batch, com2_ctx>>
      /\ presigid_ctx' = presigid_ctx
  BY DEF session, ctx, chunking, buffers, header, batch
<1>2. NextChunkSize' = NextChunkSize /\ Base' = Base /\ Absorbed' = Absorbed
  BY <1>1 DEF NextChunkSize, Base, Absorbed
<1>3. TypeOK' /\ PrefixBufferOwned' /\ RunningIsActive' /\ HeaderSeen'
  BY <1>1, <1>2
  DEF IInv, TypeOK, PrefixBufferOwned, RunningIsActive, HeaderSeen
<1>4. Reassembled' /\ CommitmentsMade' /\ SlotsHoldPending' /\ TranscriptIsPrefix'
  BY <1>1, <1>2
  DEF IInv, Reassembled, CommitmentsMade, SlotsHoldPending, TranscriptIsPrefix
<1>5. QED BY <1>3, <1>4 DEF IInv

LEMMA UpdateCallPreserves ==
  ASSUME IInv, NEW n \in 0..MaxPart, UpdateCall(n)
  PROVE  IInv'
<1>1. /\ UNCHANGED <<live, sig, fed, faulty, state, phase, e, pos>>
      /\ UNCHANGED <<prefix_ptr, heap, prefix_buf, alpha1_chunk_buf, header_ok>>
      /\ UNCHANGED <<sig_id, com1, batch_count, alpha1_batch, com2_ctx>>
      /\ presigid_ctx' = presigid_ctx
  BY DEF UpdateCall, ctx, chunking, buffers, header, batch
<1>2. /\ live /\ state = "ACTIVE" /\ call' = <<"update">> /\ avail' = n
      /\ ret' = IF n = 0 THEN "ok" ELSE "running"
  BY DEF UpdateCall, Idle
<1>3. NextChunkSize' = NextChunkSize /\ Base' = Base /\ Absorbed' = Absorbed
  BY <1>1 DEF NextChunkSize, Base, Absorbed
<1>4. TypeOK' /\ PrefixBufferOwned' /\ HeaderSeen'
  BY <1>1, <1>2, <1>3 DEF IInv, TypeOK, PrefixBufferOwned, HeaderSeen
<1>5. RunningIsActive'
  BY <1>1, <1>2, OTAssumption DEF RunningIsActive
<1>6. Reassembled' /\ CommitmentsMade' /\ SlotsHoldPending' /\ TranscriptIsPrefix'
  BY <1>1, <1>3
  DEF IInv, Reassembled, CommitmentsMade, SlotsHoldPending, TranscriptIsPrefix
<1>7. QED BY <1>4, <1>5, <1>6 DEF IInv

\* A latched context only has to keep its types, and its buffer.
LEMMA LatchPreserves ==
  ASSUME IInv, Latch, TypeOK', UNCHANGED <<live, prefix_ptr, heap>>
  PROVE  IInv'
<1>1. PrefixBufferOwned'
  BY DEF IInv, Latch, PrefixBufferOwned
<1>2. QED BY <1>1 DEF IInv, Latch, RunningIsActive, HeaderSeen, Reassembled,
                  CommitmentsMade, SlotsHoldPending, TranscriptIsPrefix

LEMMA UpdateOverlongPreserves ==
  ASSUME IInv, UpdateOverlong
  PROVE  IInv'
<1>1. /\ Latch
      /\ UNCHANGED <<live, sig, fed, faulty, phase, e, pos>>
      /\ UNCHANGED <<prefix_ptr, heap, prefix_buf, alpha1_chunk_buf, header_ok>>
      /\ UNCHANGED batch_count
  BY DEF UpdateOverlong, buffers, header, batch
<1>2. NextChunkSize' = NextChunkSize
  BY <1>1 DEF NextChunkSize
<1>3. TypeOK'
  BY <1>1, <1>2, OTAssumption DEF IInv, Latch, TypeOK
<1>4. QED BY <1>1, <1>3, LatchPreserves

LEMMA UpdateBufferPreserves ==
  ASSUME IInv, UpdateBuffer
  PROVE  IInv'
<1>1. /\ Round
      /\ CopyPart
      /\ pos + ToCopy < NextChunkSize
      /\ pos' = pos + ToCopy
      /\ avail' = avail - ToCopy
      /\ ret' = IF avail' = 0 THEN "ok" ELSE "running"
      /\ UNCHANGED <<live, sig, faulty, call, state, phase, e, prefix_ptr, heap>>
      /\ UNCHANGED <<header_ok, sig_id, com1, batch_count, alpha1_batch, com2_ctx>>
      /\ presigid_ctx' = presigid_ctx
  BY DEF UpdateBuffer, Round, header, batch
<1>2. NextChunkSize' = NextChunkSize /\ Base' = Base /\ Absorbed' = Absorbed
  BY <1>1 DEF NextChunkSize, Base, Absorbed
<1>3. pos' \in 0..NextChunkSize-1 /\ pos' \in Nat /\ avail' \in 0..MaxPart
  <2>1. avail \in 0..MaxPart /\ MaxPart \in Nat
    BY OTAssumption DEF IInv, TypeOK
  <2>2. QED BY <1>1, <2>1, RoundConsumes
<1>4. /\ fed' = Base' + pos' /\ fed' \in 0..SigSize
      /\ prefix_buf' \in [0..PREFIX_SIZE-1 -> Int]
      /\ alpha1_chunk_buf' \in [0..ALPHA1_SIZE-1 -> Int]
      /\ phase < 2 => \A i \in 0..pos'-1 : prefix_buf'[i] = Base + i
      /\ phase = 2 => \A i \in 0..pos'-1 : alpha1_chunk_buf'[i] = Base + i
  <2>1. Base \in Nat /\ pos \in Nat /\ ToCopy \in Nat
    BY <1>1, RoundConsumes
  <2>2. fed' = Base' + pos'
    BY <1>1, <1>2, <2>1, RoundCopies
  <2>3. QED BY <1>1, <2>1, <2>2, RoundCopies
<1>5. TypeOK'
  <2>1. pos' \in 0..NextChunkSize' /\ ret' \in {"ok", "fail", "running"}
    BY <1>1, <1>2, <1>3, RoundConsumes
  <2>2. QED BY <1>1, <1>3, <1>4, <2>1 DEF IInv, TypeOK
<1>6. PrefixBufferOwned' /\ HeaderSeen' /\ CommitmentsMade'
  BY <1>1 DEF IInv, PrefixBufferOwned, HeaderSeen, CommitmentsMade
<1>7. RunningIsActive'
  <2>1. ret' = "running" => avail' > 0
    BY <1>1, <1>3
  <2>2. live /\ ret = "running" /\ state = "ACTIVE"
    BY <1>1, RoundConsumes DEF Round, InUpdate
  <2>3. call = <<"update">>
    BY <2>2 DEF IInv, RunningIsActive
  <2>4. QED BY <1>1, <2>1, <2>2, <2>3 DEF RunningIsActive
<1>8. Reassembled'
  <2>1. e # TAU /\ e \in 0..TAU-1 /\ phase \in 0..2
    BY <1>1, RoundConsumes, OTAssumption
  <2>2. pos' < NextChunkSize'
    BY <1>1, <1>2
  <2>3. phase < 2 => e = 0
    BY <1>1, RoundConsumes DEF IInv, Reassembled
  <2>4. \A i \in 0..pos'-1 :
          (IF phase' = 2 THEN alpha1_chunk_buf' ELSE prefix_buf')[i] = Base' + i
    <3>1. CASE phase = 2
      BY <1>1, <1>2, <1>4, <3>1
    <3>2. CASE phase # 2
      BY <1>1, <1>2, <1>4, <2>1, <3>2
    <3>3. QED BY <3>1, <3>2
  <2>5. QED BY <1>1, <2>1, <2>2, <2>3, <2>4 DEF Reassembled
<1>9. SlotsHoldPending'
  BY <1>1 DEF IInv, SlotsHoldPending
<1>10. TranscriptIsPrefix'
  BY <1>1, <1>2, <1>4 DEF IInv, TranscriptIsPrefix
<1>11. QED BY <1>5, <1>6, <1>7, <1>8, <1>9, <1>10 DEF IInv

\* What every completed chunk establishes: the next one starts empty.
LEMMA ChunkDoneAdvances ==
  ASSUME Round, NEW p \in 0..2, NEW q \in 1..2, CompletesChunk(p), ChunkDone(q)
  PROVE  /\ phase = p /\ phase' = q /\ pos' = 0 /\ state' = "ACTIVE"
         /\ avail' \in 0..MaxPart /\ ret' \in {"ok", "running"}
         /\ fed' = Base + NextChunkSize /\ fed' \in 0..SigSize
         /\ prefix_buf' \in [0..PREFIX_SIZE-1 -> Int]
         /\ alpha1_chunk_buf' \in [0..ALPHA1_SIZE-1 -> Int]
         /\ UNCHANGED <<live, sig, call>> /\ live
         /\ NextChunkSize' \in Nat \ {0}
         /\ RunningIsActive'
<1>1. /\ CopyPart /\ InUpdate
      /\ pos + ToCopy = NextChunkSize
      /\ phase = p /\ phase' = q /\ pos' = 0
      /\ avail' = avail - ToCopy
      /\ ret' = IF avail' = 0 THEN "ok" ELSE "running"
      /\ UNCHANGED <<live, sig, call, state>>
  BY DEF CompletesChunk, ChunkDone
<1>2. avail' \in 0..MaxPart
  <2>1. avail \in 0..MaxPart /\ MaxPart \in Nat
    BY OTAssumption DEF Round, IInv, TypeOK
  <2>2. QED BY <1>1, <2>1, RoundConsumes
<1>3. /\ fed' = Base + NextChunkSize /\ fed' \in 0..SigSize
      /\ prefix_buf' \in [0..PREFIX_SIZE-1 -> Int]
      /\ alpha1_chunk_buf' \in [0..ALPHA1_SIZE-1 -> Int]
  BY <1>1, RoundCopies, RoundCompletes
<1>4. state' = "ACTIVE" /\ ret' \in {"ok", "running"} /\ live
  BY <1>1, RoundConsumes DEF InUpdate
<1>5. NextChunkSize' \in Nat \ {0}
  BY OTAssumption DEF NextChunkSize
<1>6. RunningIsActive'
  BY <1>1, <1>2, <1>4, RoundConsumes DEF Round, IInv, RunningIsActive, InUpdate
<1>7. QED BY <1>1, <1>2, <1>3, <1>4, <1>5, <1>6

\* A chunk that fails leaves everything in its type, and keeps the buffer.
LEMMA ChunkFailedLatches ==
  ASSUME Round, NEW p \in 0..2, CompletesChunk(p), ChunkFailed,
         faulty' \in BOOLEAN, header_ok' = header_ok, batch_count' \in 0..BATCH
  PROVE  IInv'
<1>1. /\ pos' = pos + ToCopy /\ CopyPart /\ Latch
      /\ UNCHANGED <<live, sig, phase, e, prefix_ptr, heap>>
      /\ pos + ToCopy = NextChunkSize
  BY DEF CompletesChunk, ChunkFailed
<1>2. /\ fed' \in 0..SigSize
      /\ prefix_buf' \in [0..PREFIX_SIZE-1 -> Int]
      /\ alpha1_chunk_buf' \in [0..ALPHA1_SIZE-1 -> Int]
  BY <1>1, RoundCopies
<1>3. pos' \in 0..NextChunkSize'
  BY <1>1, RoundConsumes DEF NextChunkSize
<1>4. avail' \in 0..MaxPart /\ ret' = "fail" /\ state' = "FAILED"
  BY <1>1, OTAssumption DEF Latch
<1>5. TypeOK'
  BY <1>1, <1>2, <1>3, <1>4 DEF Round, IInv, TypeOK
<1>6. QED BY <1>1, <1>5, LatchPreserves DEF Round

LEMMA ProcessHeaderPreserves ==
  ASSUME IInv, NEW fault \in BOOLEAN, ProcessHeader(fault)
  PROVE  IInv'
<1>1. /\ Round /\ CompletesChunk(0)
      /\ sig_id' = Chunk(prefix_buf', HEADER_SIZE)
      /\ faulty' = (faulty \/ fault)
      /\ UNCHANGED <<com1, batch_count, alpha1_batch>>
  BY DEF ProcessHeader, Round, CompletesChunk
<1>2. sig_id' = Bytes(0, HEADER_SIZE) /\ phase = 0
  BY <1>1, RoundCompletes
<1>3. faulty' \in BOOLEAN /\ batch_count' \in 0..BATCH
  BY <1>1 DEF IInv, TypeOK
<1>4. CASE fault \/ sig = "badheader"
  <2>1. ChunkFailed /\ header_ok' = header_ok
    BY <1>4 DEF ProcessHeader
  <2>2. QED BY <1>1, <1>3, <2>1, ChunkFailedLatches
<1>5. CASE ~(fault \/ sig = "badheader")
  <2>1. /\ ChunkDone(1)
        /\ header_ok' = TRUE /\ com2_ctx' = <<>> /\ presigid_ctx' = <<>>
        /\ UNCHANGED <<e, prefix_ptr, heap>>
    BY <1>5 DEF ProcessHeader
  <2>2. /\ e = 0 /\ state = "ACTIVE" /\ ~faulty /\ batch_count = 0
        /\ DOMAIN alpha1_batch = 0..BATCH-1
    BY <1>1, <1>2, RoundConsumes, OTAssumption
    DEF IInv, TypeOK, Reassembled, SlotsHoldPending, HeaderSeen
  <2>3. /\ phase' = 1 /\ pos' = 0 /\ state' = "ACTIVE" /\ live'
        /\ avail' \in 0..MaxPart /\ ret' \in {"ok", "fail", "running"}
        /\ fed' = HEADER_SIZE /\ fed' \in 0..SigSize
        /\ prefix_buf' \in [0..PREFIX_SIZE-1 -> Int]
        /\ alpha1_chunk_buf' \in [0..ALPHA1_SIZE-1 -> Int]
        /\ UNCHANGED <<live, sig>>
        /\ NextChunkSize' \in Nat \ {0}
        /\ RunningIsActive'
    BY <1>1, <1>2, <2>1, ChunkDoneAdvances, Phases, OTAssumption
  <2>4. TypeOK'
    <3>1. pos' \in 0..NextChunkSize' /\ phase' \in 0..2
      BY <2>3
    <3>2. QED BY <1>1, <1>3, <2>1, <2>3, <3>1 DEF IInv, TypeOK
  <2>5. PrefixBufferOwned'
    BY <1>1, <1>2, <2>1, <2>2, <2>3 DEF IInv, PrefixBufferOwned
  <2>6. HeaderSeen' /\ CommitmentsMade'
    BY <1>1, <1>2, <1>5, <2>1, <2>2, <2>3 DEF HeaderSeen, CommitmentsMade
  <2>7. Reassembled'
    BY <2>1, <2>2, <2>3, OTAssumption DEF Reassembled
  <2>8. SlotsHoldPending'
    BY <1>1, <2>1, <2>2, OTAssumption DEF SlotsHoldPending
  <2>9. TranscriptIsPrefix'
    <3>1. Base' = HEADER_SIZE /\ Absorbed' = 0 /\ e' = 0
      BY <1>1, <2>1, <2>2, <2>3 DEF Base, Absorbed
    <3>2. QED BY <1>1, <2>1, <2>2, <2>3, <3>1, OTAssumption
              DEF TranscriptIsPrefix
  <2>10. QED BY <2>3, <2>4, <2>5, <2>6, <2>7, <2>8, <2>9 DEF IInv
<1>6. QED BY <1>4, <1>5

\* Every pass over the tree done, every execution has its commitment.
LEMMA PassesCommit ==
  ASSUME com1' = EvalPasses(TAU), Chunk(prefix_buf', PREFIX_SIZE) = PrefixBytes
  PROVE  com1' = [i \in Execs |-> ExecEval(i)]
<1>1. ASSUME NEW i \in Execs
      PROVE  \E s \in PassStarts : s < TAU /\ i \in s..s+PassSize(s)-1
  BY PassesCover, OTAssumption DEF PassStarts, Execs
<1>2. Chunk(prefix_buf, PREFIX_SIZE)' = PrefixBytes
  OBVIOUS
<1>3. QED BY <1>1, <1>2 DEF EvalPasses, ExecEval

LEMMA ProcessPrefixPreserves ==
  ASSUME IInv, ProcessPrefix
  PROVE  IInv'
<1>1. /\ Round /\ CompletesChunk(1) /\ ChunkDone(2)
      /\ com1' = EvalPasses(TAU)
      /\ presigid_ctx' = presigid_ctx \o [i \in 1..TAU |-> com1'[i - 1]]
      /\ heap' = heap \ {"prefix_buf"} /\ prefix_ptr' = FALSE
      /\ e' = 0
      /\ UNCHANGED <<faulty, header_ok, sig_id, batch_count, alpha1_batch>>
      /\ com2_ctx' = com2_ctx
  BY DEF ProcessPrefix, Round, CompletesChunk, ReleasePrefix, header, batch
<1>2. /\ phase = 1 /\ phase' = 2 /\ pos' = 0 /\ state' = "ACTIVE" /\ live'
      /\ avail' \in 0..MaxPart /\ ret' \in {"ok", "fail", "running"}
      /\ fed' = HEADER_SIZE + PREFIX_SIZE /\ fed' \in 0..SigSize
      /\ prefix_buf' \in [0..PREFIX_SIZE-1 -> Int]
      /\ alpha1_chunk_buf' \in [0..ALPHA1_SIZE-1 -> Int]
      /\ UNCHANGED <<live, sig>>
      /\ NextChunkSize' \in Nat \ {0}
      /\ RunningIsActive'
  BY <1>1, ChunkDoneAdvances, Phases, OTAssumption
<1>3. /\ state = "ACTIVE" /\ ~faulty /\ header_ok /\ e = 0 /\ batch_count = 0
      /\ sig # "badheader" /\ sig_id = Bytes(0, HEADER_SIZE)
      /\ DOMAIN alpha1_batch = 0..BATCH-1
  BY <1>1, <1>2, RoundConsumes, OTAssumption
  DEF IInv, TypeOK, HeaderSeen, Reassembled, SlotsHoldPending
<1>4. /\ Absorbed = 0 /\ Absorbed' = 0
      /\ com2_ctx = <<>> /\ presigid_ctx = <<>>
  BY <1>1, <1>2, <1>3 DEF IInv, TranscriptIsPrefix, Absorbed
<1>5. com1' = [i \in Execs |-> ExecEval(i)]
  BY <1>1, RoundCompletes, PassesCommit
<1>6. presigid_ctx' = OneShotPresigId
  <2>1. \A i \in 1..TAU : com1'[i - 1] = ExecEval(i - 1)
    BY <1>5, OTAssumption DEF Execs
  <2>2. [i \in 1..TAU |-> com1'[i - 1]] = OneShotPresigId
    BY <2>1 DEF OneShotPresigId
  <2>3. OneShotPresigId \in Seq({ExecEval(i) : i \in Execs})
    BY OTAssumption DEF OneShotPresigId, Execs
  <2>4. QED BY <1>1, <1>4, <2>2, <2>3
<1>7. TypeOK'
  <2>1. pos' \in 0..NextChunkSize' /\ phase' \in 0..2 /\ e' \in 0..TAU
    BY <1>1, <1>2, OTAssumption
  <2>2. heap' \subseteq {"ctx", "prefix_buf"} /\ prefix_ptr' \in BOOLEAN
    BY <1>1 DEF IInv, TypeOK
  <2>3. QED BY <1>1, <1>2, <2>1, <2>2 DEF IInv, TypeOK
<1>8. PrefixBufferOwned'
  BY <1>1, <1>2, <1>3 DEF IInv, PrefixBufferOwned
<1>9. HeaderSeen' /\ CommitmentsMade'
  BY <1>1, <1>2, <1>3, <1>5 DEF HeaderSeen, CommitmentsMade
<1>10. Reassembled' /\ SlotsHoldPending'
  BY <1>1, <1>2, <1>3, OTAssumption DEF Reassembled, SlotsHoldPending
<1>11. TranscriptIsPrefix'
  <2>1. Base' = HEADER_SIZE + PREFIX_SIZE
    <3>1. Base' = HEADER_SIZE + PREFIX_SIZE + e' * ALPHA1_SIZE
      BY <1>2 DEF Base
    <3>2. QED BY <1>1, <3>1, OTAssumption
  <2>2. fed' = Base' + pos'
    BY <1>2, <2>1, OTAssumption
  <2>3. com2_ctx' = [i \in 1..Absorbed' |-> ExecAlphas(i - 1)]
    BY <1>1, <1>4
  <2>4. QED BY <1>1, <1>2, <1>3, <1>6, <2>2, <2>3 DEF TranscriptIsPrefix
<1>12. QED
  BY <1>2, <1>7, <1>8, <1>9, <1>10, <1>11 DEF IInv

LEMMA ProcessPrefixFailsPreserves ==
  ASSUME IInv, ProcessPrefixFails
  PROVE  IInv'
<1>1. /\ Round /\ CompletesChunk(1) /\ ChunkFailed
      /\ faulty' = TRUE /\ header_ok' = header_ok /\ batch_count' = batch_count
  BY DEF ProcessPrefixFails, Round, CompletesChunk, header, batch
<1>2. batch_count' \in 0..BATCH
  BY <1>1 DEF IInv, TypeOK
<1>3. QED BY <1>1, <1>2, ChunkFailedLatches

\* The free slot receives the alpha1 just completed, the slots below keep theirs.
LEMMA SlotFilled ==
  ASSUME Round, CompletesChunk(2),
         alpha1_batch' = [alpha1_batch EXCEPT ![batch_count] =
                            Chunk(alpha1_chunk_buf', ALPHA1_SIZE)]
  PROVE  /\ DOMAIN alpha1_batch' = 0..BATCH-1
         /\ batch_count \in 0..BATCH-1
         /\ Absorbed = e - batch_count /\ Absorbed \in Nat
         /\ \A b \in 0..batch_count : alpha1_batch'[b] = Alpha1Bytes(Absorbed + b)
<1>1. e \in 0..TAU-1 /\ state = "ACTIVE" /\ phase = 2
  BY RoundConsumes, RoundCompletes
<1>2. batch_count \in 0..BATCH-1 /\ DOMAIN alpha1_batch = 0..BATCH-1
  BY <1>1, OTAssumption DEF Round, IInv, TypeOK, SlotsHoldPending
<1>3. Absorbed = e - batch_count /\ Absorbed \in Nat
  BY <1>1, <1>2, OTAssumption DEF Absorbed, Round, IInv, SlotsHoldPending
<1>4. alpha1_batch' = [alpha1_batch EXCEPT ![batch_count] = Alpha1Bytes(e)]
  BY RoundCompletes
<1>5. ASSUME NEW b \in 0..batch_count
      PROVE  alpha1_batch'[b] = Alpha1Bytes(Absorbed + b)
  <2>1. CASE b = batch_count
    <3>1. Absorbed + b = e
      BY <1>1, <1>2, <1>3, <2>1
    <3>2. QED BY <1>2, <1>4, <2>1, <3>1
  <2>2. CASE b # batch_count
    <3>1. b \in 0..batch_count-1 /\ b \in 0..BATCH-1
      BY <1>2, <2>2, OTAssumption
    <3>2. alpha1_batch[b] = Alpha1Bytes(Absorbed + b)
      BY <1>1, <3>1 DEF Round, IInv, SlotsHoldPending, Absorbed
    <3>3. QED BY <1>2, <1>4, <2>2, <3>1, <3>2
  <2>3. QED BY <2>1, <2>2
<1>6. QED BY <1>2, <1>3, <1>4, <1>5

LEMMA ProcessAlpha1Preserves ==
  ASSUME IInv, ProcessAlpha1
  PROVE  IInv'
<1> DEFINE n == batch_count + 1
<1>1. /\ Round /\ CompletesChunk(2) /\ ChunkDone(2)
      /\ alpha1_batch' = [alpha1_batch EXCEPT ![n - 1] =
                            Chunk(alpha1_chunk_buf', ALPHA1_SIZE)]
      /\ IF FlushDue(n)
         THEN com2_ctx' = com2_ctx \o BatchAlphas(n, e - n + 1)
              /\ batch_count' = 0
         ELSE batch_count' = n /\ UNCHANGED com2_ctx
      /\ e' = e + 1
      /\ UNCHANGED <<faulty, prefix_ptr, heap, header_ok, sig_id, com1>>
      /\ presigid_ctx' = presigid_ctx
  BY DEF ProcessAlpha1, Round, CompletesChunk, header
<1>2. /\ phase = 2 /\ phase' = 2 /\ pos' = 0 /\ state' = "ACTIVE" /\ live'
      /\ avail' \in 0..MaxPart /\ ret' \in {"ok", "fail", "running"}
      /\ fed' = Base + NextChunkSize /\ fed' \in 0..SigSize
      /\ prefix_buf' \in [0..PREFIX_SIZE-1 -> Int]
      /\ alpha1_chunk_buf' \in [0..ALPHA1_SIZE-1 -> Int]
      /\ UNCHANGED <<live, sig>>
      /\ NextChunkSize' \in Nat \ {0}
      /\ RunningIsActive'
  BY <1>1, ChunkDoneAdvances
<1>3. e \in 0..TAU-1 /\ state = "ACTIVE" /\ e' \in 1..TAU
  <2>1. e \in 0..TAU-1 /\ state = "ACTIVE" /\ e' = e + 1
    BY <1>1, RoundConsumes
  <2>2. QED BY <2>1, OTAssumption
<1>4. batch_count \in Nat /\ n - 1 = batch_count
  BY DEF IInv, TypeOK
<1>5. /\ DOMAIN alpha1_batch' = 0..BATCH-1
      /\ batch_count \in 0..BATCH-1
      /\ Absorbed = e - batch_count /\ Absorbed \in Nat
      /\ \A b \in 0..batch_count : alpha1_batch'[b] = Alpha1Bytes(Absorbed + b)
  BY <1>1, <1>4, SlotFilled
<1>6. e - n + 1 = Absorbed
  BY <1>3, <1>4, <1>5
<1>7. /\ com2_ctx = [i \in 1..Absorbed |-> ExecAlphas(i - 1)]
      /\ presigid_ctx = OneShotPresigId
      /\ com1 = [i \in Execs |-> ExecEval(i)]
  BY <1>2, <1>3 DEF IInv, TranscriptIsPrefix, CommitmentsMade
<1>8. fed' = Base' + pos'
  <2>1. Base = AlphaBase(e) /\ NextChunkSize = ALPHA1_SIZE
    BY <1>2, Phases
  <2>2. Base' = AlphaBase(e + 1)
    BY <1>1, <1>2 DEF Base, AlphaBase
  <2>3. /\ AlphaBase(e) \in Nat
        /\ AlphaBase(e + 1) = AlphaBase(e) + ALPHA1_SIZE
    BY <1>3, Offsets
  <2>4. QED BY <1>2, <2>1, <2>2, <2>3, OTAssumption
<1>9. HeaderSeen' /\ PrefixBufferOwned' /\ CommitmentsMade' /\ Reassembled'
  <2>1. HeaderSeen'
    BY <1>1, <1>2, <1>3 DEF IInv, HeaderSeen
  <2>2. PrefixBufferOwned'
    BY <1>1, <1>2, <1>3 DEF IInv, PrefixBufferOwned
  <2>3. CommitmentsMade'
    BY <1>1, <1>7 DEF CommitmentsMade
  <2>4. Reassembled'
    BY <1>2 DEF Reassembled
  <2>5. QED BY <2>1, <2>2, <2>3, <2>4
<1>10. ASSUME batch_count' \in 0..BATCH
       PROVE  TypeOK'
  <2>1. /\ pos' \in 0..NextChunkSize' /\ phase' \in 0..2 /\ e' \in 0..TAU
    BY <1>2, <1>3, OTAssumption
  <2>2. QED BY <1>1, <1>2, <1>10, <2>1 DEF IInv, TypeOK
<1>11. CASE FlushDue(n)
  <2>1. batch_count' = 0 /\ com2_ctx' = com2_ctx \o BatchAlphas(n, Absorbed)
    BY <1>1, <1>6, <1>11
  <2>2. Absorbed' = Absorbed + n
    BY <1>1, <1>3, <1>4, <1>5, <2>1 DEF Absorbed
  <2>3. ASSUME NEW i \in 1..n
        PROVE  Alphas(Absorbed + i - 1, com1[Absorbed + i - 1], alpha1_batch'[i - 1])
                 = ExecAlphas(Absorbed + i - 1)
    <3>1. /\ i - 1 \in 0..batch_count /\ Absorbed + (i - 1) = Absorbed + i - 1
          /\ Absorbed + i - 1 \in Execs
      BY <1>3, <1>4, <1>5, OTAssumption DEF Execs
    <3>2. com1[Absorbed + i - 1] = ExecEval(Absorbed + i - 1)
      BY <1>7, <3>1
    <3>3. alpha1_batch'[i - 1] = Alpha1Bytes(Absorbed + i - 1)
      BY <1>5, <3>1
    <3>4. QED BY <3>2, <3>3 DEF ExecAlphas
  <2>4. BatchAlphas(n, Absorbed) = [i \in 1..n |-> ExecAlphas(Absorbed + i - 1)]
    BY <2>3 DEF BatchAlphas
  <2>5. com2_ctx' = [i \in 1..Absorbed' |-> ExecAlphas(i - 1)]
    <3>1. n \in Nat /\ Absorbed \in Nat
      BY <1>4, <1>5
    <3>2. QED BY <1>7, <2>1, <2>2, <2>4, <3>1, PrefixExtended
  <2>6. SlotsHoldPending'
    <3>1. e' >= 0 /\ BATCH > 0
      BY <1>3, OTAssumption
    <3>2. QED BY <1>5, <2>1, <3>1 DEF SlotsHoldPending
  <2>7. TranscriptIsPrefix'
    BY <1>1, <1>2, <1>7, <1>8, <2>1, <2>5 DEF TranscriptIsPrefix
  <2>8. TypeOK'
    BY <1>10, <2>1, OTAssumption
  <2>9. QED BY <1>2, <1>9, <2>6, <2>7, <2>8 DEF IInv
<1>12. CASE ~FlushDue(n)
  <2>1. batch_count' = n /\ com2_ctx' = com2_ctx
    BY <1>1, <1>12
  <2>2. n < BATCH /\ e' # TAU
    BY <1>1, <1>3, <1>4, <1>5, <1>12, OTAssumption DEF FlushDue
  <2>3. Absorbed' = Absorbed /\ n <= e'
    BY <1>1, <1>3, <1>4, <1>5, <2>1 DEF Absorbed
  <2>4. \A b \in 0..batch_count'-1 :
           alpha1_batch'[b] = Alpha1Bytes(e' - batch_count' + b)
    <3>1. e' - batch_count' = Absorbed
      BY <1>1, <1>3, <1>4, <1>5, <2>1
    <3>2. 0..batch_count'-1 = 0..batch_count
      BY <1>4, <2>1
    <3>3. QED BY <1>5, <3>1, <3>2
  <2>5. SlotsHoldPending'
    BY <1>5, <2>1, <2>2, <2>3, <2>4 DEF SlotsHoldPending
  <2>6. TranscriptIsPrefix'
    BY <1>1, <1>2, <1>7, <1>8, <2>1, <2>2, <2>3 DEF TranscriptIsPrefix
  <2>7. TypeOK'
    BY <1>4, <1>10, <2>1, <2>2, OTAssumption
  <2>8. QED BY <1>2, <1>9, <2>5, <2>6, <2>7 DEF IInv
<1>13. QED BY <1>11, <1>12

LEMMA ProcessAlpha1FailsPreserves ==
  ASSUME IInv, ProcessAlpha1Fails
  PROVE  IInv'
<1>1. /\ Round /\ CompletesChunk(2) /\ ChunkFailed
      /\ faulty' = TRUE /\ header_ok' = header_ok
      /\ batch_count' = batch_count + 1
  BY DEF ProcessAlpha1Fails, Round, CompletesChunk, header
<1>2. batch_count' \in 0..BATCH
  <2>1. state = "ACTIVE"
    BY <1>1, RoundConsumes
  <2>2. batch_count \in 0..BATCH-1
    BY <2>1, OTAssumption DEF IInv, TypeOK, SlotsHoldPending
  <2>3. QED BY <1>1, <2>2, OTAssumption
<1>3. QED BY <1>1, <1>2, ChunkFailedLatches

LEMMA FinalizePreserves ==
  ASSUME IInv, NEW m \in Messages, NEW fault \in BOOLEAN,
         StreamedVerify_Finalize(m, fault)
  PROVE  IInv'
<1>1. /\ live /\ state = "ACTIVE"
      /\ faulty' = (faulty \/ fault)
      /\ \/ state' = "DONE" /\ ret' = "ok"
         \/ state' = "FAILED" /\ ret' = "fail"
      /\ UNCHANGED <<live, sig, fed, avail, phase, e, pos, header_ok, com1>>
      /\ UNCHANGED <<prefix_ptr, heap, prefix_buf, alpha1_chunk_buf, sig_id>>
      /\ UNCHANGED <<batch_count, alpha1_batch, com2_ctx, presigid_ctx>>
  BY DEF StreamedVerify_Finalize, FinalizeReady, Idle, buffers, header, batch
<1>2. NextChunkSize' = NextChunkSize /\ Base' = Base /\ Absorbed' = Absorbed
  BY <1>1 DEF NextChunkSize, Base, Absorbed
<1>3. TypeOK' /\ PrefixBufferOwned'
  BY <1>1, <1>2 DEF IInv, TypeOK, PrefixBufferOwned
<1>4. /\ RunningIsActive' /\ HeaderSeen' /\ Reassembled'
      /\ CommitmentsMade' /\ SlotsHoldPending'
  BY <1>1 DEF RunningIsActive, HeaderSeen, Reassembled, CommitmentsMade,
              SlotsHoldPending
<1>5. TranscriptIsPrefix'
  BY <1>1, <1>2 DEF IInv, TranscriptIsPrefix
<1>6. QED BY <1>3, <1>4, <1>5 DEF IInv

\* Every step of the specification preserves the invariant.
LEMMA NextPreserves ==
  ASSUME IInv, [Next]_vars
  PROVE  IInv'
<1>1. ASSUME NEW s \in Sigs, StreamedVerify_Init(s)
      PROVE  IInv'
  <2>1. heap = {}
    BY <1>1 DEF StreamedVerify_Init, IInv, PrefixBufferOwned
  <2>2. heap' = {"ctx", "prefix_buf"}
    BY <1>1, <2>1 DEF StreamedVerify_Init
  <2>3. QED BY <1>1, <2>2, ZeroedContext DEF StreamedVerify_Init
<1>2. CASE StreamedVerify_InitFails
  BY <1>2, ContextUnchanged DEF StreamedVerify_InitFails
<1>3. ASSUME NEW null \in BOOLEAN, UpdateRefused(null)
      PROVE  IInv'
  BY <1>3, ContextUnchanged DEF UpdateRefused, Refused
<1>4. ASSUME NEW n \in 0..MaxPart, UpdateCall(n)
      PROVE  IInv'
  BY <1>4, UpdateCallPreserves
<1>5. CASE UpdateProgress
  BY <1>5, UpdateOverlongPreserves, UpdateBufferPreserves,
     ProcessHeaderPreserves, ProcessPrefixPreserves, ProcessAlpha1Preserves
  DEF UpdateProgress
<1>6. CASE UpdateFault
  BY <1>6, ProcessHeaderPreserves, ProcessPrefixFailsPreserves,
     ProcessAlpha1FailsPreserves DEF UpdateFault
<1>7. ASSUME NEW m \in Messages, FinalizeRefused(m)
      PROVE  IInv'
  BY <1>7, ContextUnchanged DEF FinalizeRefused, Refused
<1>8. ASSUME NEW m \in Messages, NEW fault \in BOOLEAN,
             StreamedVerify_Finalize(m, fault)
      PROVE  IInv'
  BY <1>8, FinalizePreserves
<1>9. CASE StreamedVerify_Clean
  <2>1. live' = FALSE /\ sig' \in Sigs /\ prefix_ptr' = FALSE
    BY <1>9 DEF StreamedVerify_Clean, IInv, TypeOK
  <2>2. heap' = {}
    BY <1>9 DEF StreamedVerify_Clean, Idle, IInv, PrefixBufferOwned
  <2>3. QED BY <1>9, <2>1, <2>2, ZeroedContext DEF StreamedVerify_Clean
<1>10. CASE UNCHANGED vars
  <2>1. /\ UNCHANGED <<live, sig, fed, faulty, avail, state, phase, e, pos>>
        /\ UNCHANGED <<prefix_ptr, heap, prefix_buf, alpha1_chunk_buf, header_ok>>
        /\ UNCHANGED <<sig_id, com1, batch_count, alpha1_batch, com2_ctx>>
        /\ UNCHANGED <<presigid_ctx, ret, call>>
    BY <1>10 DEF vars, session, ctx, chunking, buffers, header, batch
  <2>2. NextChunkSize' = NextChunkSize /\ Base' = Base /\ Absorbed' = Absorbed
    BY <2>1 DEF NextChunkSize, Base, Absorbed
  <2>3. TypeOK' /\ PrefixBufferOwned' /\ RunningIsActive' /\ HeaderSeen'
    BY <2>1, <2>2
    DEF IInv, TypeOK, PrefixBufferOwned, RunningIsActive, HeaderSeen
  <2>4. /\ Reassembled' /\ CommitmentsMade'
        /\ SlotsHoldPending' /\ TranscriptIsPrefix'
    BY <2>1, <2>2
    DEF IInv, Reassembled, CommitmentsMade, SlotsHoldPending, TranscriptIsPrefix
  <2>5. QED BY <2>3, <2>4 DEF IInv
<1>11. QED
  BY <1>1, <1>2, <1>3, <1>4, <1>5, <1>6, <1>7, <1>8, <1>9, <1>10 DEF Next

\* The state before the first session satisfies it.
LEMMA InitEstablishes ==
  ASSUME Init
  PROVE  IInv
<1>1. TypeOK
  <2>1. /\ live \in BOOLEAN /\ sig \in Sigs /\ faulty \in BOOLEAN
        /\ header_ok \in BOOLEAN /\ prefix_ptr \in BOOLEAN
        /\ state \in {"ACTIVE", "FAILED", "DONE"}
        /\ ret \in {"ok", "fail", "running"}
        /\ heap \subseteq {"ctx", "prefix_buf"}
    BY DEF Init
  <2>2. /\ prefix_buf \in [0..PREFIX_SIZE-1 -> Int]
        /\ alpha1_chunk_buf \in [0..ALPHA1_SIZE-1 -> Int]
    BY DEF Init
  <2>3. NextChunkSize = HEADER_SIZE
    BY DEF Init, NextChunkSize
  <2>4. /\ fed \in 0..SigSize /\ avail \in 0..MaxPart /\ phase \in 0..2
        /\ e \in 0..TAU /\ pos \in 0..NextChunkSize /\ batch_count \in 0..BATCH
    BY <2>3, Offsets, OTAssumption DEF Init
  <2>5. QED BY <2>1, <2>2, <2>4 DEF TypeOK
<1>2. PrefixBufferOwned /\ RunningIsActive /\ HeaderSeen /\ CommitmentsMade
  BY DEF PrefixBufferOwned, RunningIsActive, HeaderSeen, CommitmentsMade, Init
<1>3. Reassembled /\ SlotsHoldPending
  BY OTAssumption DEF Reassembled, SlotsHoldPending, Init, Base, NextChunkSize
<1>4. TranscriptIsPrefix
  <2>1. Absorbed = 0 /\ Base = 0
    BY DEF Init, Absorbed, Base
  <2>2. QED BY <2>1, OTAssumption DEF TranscriptIsPrefix, Init
<1>5. QED BY <1>1, <1>2, <1>3, <1>4 DEF IInv

LEMMA Invariance == Spec => []IInv
BY InitEstablishes, NextPreserves, PTL DEF Spec

-----------------------------------------------------------------------------
(***************************************************************************)
(* What the runs check, for every value of the constants.                  *)
(***************************************************************************)

\* No index of the context leaves its array, and the prefix buffer is on the
\* heap exactly while the context points to it: it is used by no phase that
\* comes after its release, freed once, and leaked by no failure.
THEOREM BuffersCorrect == Spec => []BufferInvariant
<1>1. IInv => BufferInvariant
  BY DEF IInv, BufferInvariant
<1> QED
  BY Invariance, <1>1, PTL

\* The transcripts are those of one-shot verification, up to the last flush.
THEOREM TranscriptCorrect == Spec => []TranscriptIsPrefix
BY Invariance, PTL DEF IInv

-----------------------------------------------------------------------------
(***************************************************************************)
(* The streaming verifier implements VerifyOnce.                           *)
(***************************************************************************)

\* What the states of the context mean to the caller.
LEMMA Verdicts ==
  /\ VerdictOf["ACTIVE"] = "pending"
  /\ VerdictOf["FAILED"] = "rejected"
  /\ VerdictOf["DONE"] = "accepted"
BY DEF VerdictOf

LEMMA InitImplements ==
  ASSUME Init
  PROVE  OneShot!Init
BY Verdicts DEF Init, OneShot!Init, OneShot!Sigs, Sigs

\* A round that consumes bytes and does not fail takes them.
LEMMA RoundTakes ==
  ASSUME Round, CopyPart, state' = "ACTIVE", ret' \in {"running", "ok"},
         UNCHANGED <<live, sig, faulty, call>>
  PROVE  OneShot!Take
<1>1. fed' \in fed..SigSize
  BY RoundCopies, RoundConsumes, Offsets
<1>2. state = "ACTIVE" /\ live /\ call = <<"update">>
  BY RoundConsumes DEF Round, InUpdate, IInv, RunningIsActive
<1>3. QED BY <1>1, <1>2, Verdicts DEF OneShot!Take

\* So does a round that completes a chunk.
LEMMA ChunkDoneTakes ==
  ASSUME Round, NEW p \in 0..2, NEW q \in 1..2, CompletesChunk(p), ChunkDone(q),
         faulty' = faulty
  PROVE  OneShot!Take
<1>1. CopyPart
  BY DEF CompletesChunk
<1>2. /\ state' = "ACTIVE" /\ ret' \in {"running", "ok"}
      /\ UNCHANGED <<live, sig, call>>
  BY ChunkDoneAdvances
<1>3. QED BY <1>1, <1>2, RoundTakes

\* A round that fails, for a reason one-shot verification has too, refuses.
LEMMA RoundRefuses ==
  ASSUME Round, NEW p \in 0..2, CompletesChunk(p), ChunkFailed,
         faulty' \in {faulty, TRUE}, faulty' \/ sig = "badheader"
  PROVE  OneShot!RefusePart
<1>1. fed' \in fed..SigSize
  BY RoundCopies, RoundConsumes, Offsets DEF CompletesChunk
<1>2. state = "ACTIVE" /\ live /\ ret = "running"
  BY RoundConsumes DEF Round, InUpdate
<1>3. state' = "FAILED" /\ ret' = "fail" /\ UNCHANGED <<live, sig, call>>
  BY DEF CompletesChunk, ChunkFailed, Latch
<1>4. QED BY <1>1, <1>2, <1>3, Verdicts DEF OneShot!RefusePart

\* Once the last chunk is processed, every byte was fed.
LEMMA AllFed ==
  ASSUME IInv, state = "ACTIVE", phase = 2, e = TAU
  PROVE  fed = SigSize /\ pos = 0
<1>1. pos = 0
  BY DEF IInv, Reassembled
<1>2. fed = Base + pos /\ Base = AlphaBase(TAU)
  BY DEF IInv, TranscriptIsPrefix, Base, AlphaBase
<1>3. QED BY <1>1, <1>2, Offsets

LEMMA UpdateImplements ==
  ASSUME IInv, UpdateProgress \/ UpdateFault
  PROVE  OneShot!Take \/ OneShot!RefusePart
<1>1. CASE UpdateOverlong
  <2>1. /\ live /\ ret = "running" /\ state = "ACTIVE"
        /\ phase = 2 /\ e = TAU
    BY <1>1, OTAssumption
    DEF UpdateOverlong, InUpdate, ChunksLeft, IInv, TypeOK, RunningIsActive
  <2>2. fed = SigSize
    BY <2>1, AllFed
  <2>3. QED BY <1>1, <2>1, <2>2, Offsets, Verdicts
            DEF UpdateOverlong, Latch, OneShot!RefusePart
<1>2. CASE UpdateBuffer
  <2>1. Round /\ CopyPart /\ ret' \in {"running", "ok"} /\ state' = "ACTIVE"
        /\ UNCHANGED <<live, sig, faulty, call>>
    BY <1>2, RoundConsumes DEF UpdateBuffer, Round
  <2>2. QED BY <2>1, RoundTakes
<1>3. ASSUME NEW fault \in BOOLEAN, ProcessHeader(fault)
      PROVE  OneShot!Take \/ OneShot!RefusePart
  <2>1. Round /\ CompletesChunk(0) /\ faulty' = (faulty \/ fault)
    BY <1>3 DEF ProcessHeader, Round, CompletesChunk
  <2>2. CASE fault \/ sig = "badheader"
    <3>1. ChunkFailed /\ faulty' \in {faulty, TRUE}
      BY <1>3, <2>1, <2>2 DEF ProcessHeader, IInv, TypeOK
    <3>2. faulty' \/ sig = "badheader"
      BY <2>1, <2>2
    <3>3. 0 \in 0..2
      OBVIOUS
    <3>4. QED BY <2>1, <3>1, <3>2, <3>3, RoundRefuses, Zenon
  <2>3. CASE ~(fault \/ sig = "badheader")
    <3>1. ChunkDone(1) /\ faulty' = faulty
      BY <1>3, <2>1, <2>3 DEF ProcessHeader, IInv, TypeOK
    <3>2. QED BY <2>1, <3>1, ChunkDoneTakes
  <2>4. QED BY <2>2, <2>3
<1>4. CASE ProcessPrefix
  <2>1. Round /\ CompletesChunk(1) /\ ChunkDone(2) /\ faulty' = faulty
    BY <1>4 DEF ProcessPrefix, Round, CompletesChunk
  <2>2. QED BY <2>1, ChunkDoneTakes
<1>5. CASE ProcessAlpha1
  <2>1. Round /\ CompletesChunk(2) /\ ChunkDone(2) /\ faulty' = faulty
    BY <1>5 DEF ProcessAlpha1, Round, CompletesChunk
  <2>2. QED BY <2>1, ChunkDoneTakes
<1>6. CASE ProcessPrefixFails
  <2>1. Round /\ CompletesChunk(1) /\ ChunkFailed /\ faulty' = TRUE
    BY <1>6 DEF ProcessPrefixFails, Round, CompletesChunk
  <2>2. QED BY <2>1, RoundRefuses
<1>7. CASE ProcessAlpha1Fails
  <2>1. Round /\ CompletesChunk(2) /\ ChunkFailed /\ faulty' = TRUE
    BY <1>7 DEF ProcessAlpha1Fails, Round, CompletesChunk
  <2>2. QED BY <2>1, RoundRefuses
<1>8. QED
  BY <1>1, <1>2, <1>3, <1>4, <1>5, <1>6, <1>7 DEF UpdateProgress, UpdateFault

\* A Finalize that is refused comes too late, or before the last byte.
LEMMA FinalizeRefusedImplements ==
  ASSUME IInv, NEW m \in Messages, FinalizeRefused(m)
  PROVE  OneShot!Refused(<<"finalize", m>>)
<1>1. /\ live /\ ret # "running" /\ ~FinalizeReady
      /\ call' = <<"finalize", m>> /\ ret' = "fail"
      /\ UNCHANGED <<live, sig, fed, state, faulty>>
  BY DEF FinalizeRefused, Refused, Idle, session, ctx, chunking
<1>2. CASE state # "ACTIVE"
  <2>1. VerdictOf[state] # "pending"
    BY <1>2, Verdicts DEF IInv, TypeOK
  <2>2. QED BY <1>1, <2>1 DEF OneShot!Refused, OneShot!Idle
<1>3. CASE state = "ACTIVE"
  <2>1. phase \in 0..2 /\ e \in 0..TAU /\ pos \in Nat
    BY OTAssumption DEF IInv, TypeOK, NextChunkSize
  <2>2. fed < SigSize
    <3>1. e # TAU
      <4>1. SUFFICES ASSUME e = TAU PROVE FALSE
        OBVIOUS
      <4>2. phase = 2
        BY <1>3, <2>1, <4>1, OTAssumption DEF IInv, Reassembled
      <4>3. pos = 0 /\ header_ok
        BY <1>3, <4>1, <4>2, AllFed DEF IInv, HeaderSeen
      <4>4. QED BY <1>1, <1>3, <4>1, <4>2, <4>3 DEF FinalizeReady
    <3>2. pos < NextChunkSize /\ fed = Base + pos
      BY <1>3, <3>1 DEF IInv, Reassembled, TranscriptIsPrefix
    <3>3. TAU * ALPHA1_SIZE \in Nat
      <4>1. \A a, b \in Nat : a * b \in Nat
        OBVIOUS
      <4>2. QED BY <4>1, OTAssumption
    <3>4. CASE phase = 0
      BY <2>1, <3>2, <3>3, <3>4, Phases, OTAssumption DEF SigSize
    <3>5. CASE phase = 1
      BY <2>1, <3>2, <3>3, <3>5, Phases, OTAssumption DEF SigSize
    <3>6. CASE phase = 2
      <4>1. e \in 0..TAU-1
        BY <2>1, <3>1, OTAssumption
      <4>2. /\ AlphaBase(e) \in Nat
            /\ AlphaBase(e) + ALPHA1_SIZE <= SigSize /\ SigSize \in Nat
        BY <4>1, Offsets
      <4>3. fed = AlphaBase(e) + pos /\ pos < ALPHA1_SIZE
        BY <2>1, <3>2, <3>6, Phases
      <4>4. QED BY <2>1, <4>2, <4>3, OTAssumption
    <3>7. QED BY <2>1, <3>4, <3>5, <3>6
  <2>3. QED BY <1>1, <2>2 DEF OneShot!Refused, OneShot!Idle
<1>4. QED BY <1>2, <1>3

\* A Finalize that is served judges the whole signature: both transcripts are
\* complete, so the identifiers match exactly for the genuine signature.
LEMMA FinalizeImplements ==
  ASSUME IInv, NEW m \in Messages, NEW fault \in BOOLEAN,
         StreamedVerify_Finalize(m, fault)
  PROVE  OneShot!Judge(m)
<1>1. /\ live /\ ret # "running" /\ state = "ACTIVE" /\ header_ok
      /\ phase = 2 /\ e = TAU
      /\ call' = <<"finalize", m>>
      /\ faulty' = (faulty \/ fault)
      /\ UNCHANGED <<live, sig, fed>>
  BY DEF StreamedVerify_Finalize, FinalizeReady, Idle
<1>2. fed = SigSize /\ sig_id = Bytes(0, HEADER_SIZE) /\ ~faulty
  BY <1>1, AllFed DEF IInv, HeaderSeen
<1>3. com2_ctx = OneShotCom2 /\ presigid_ctx = OneShotPresigId
  <2>1. batch_count = 0
    BY <1>1 DEF IInv, TranscriptIsPrefix
  <2>2. Absorbed = TAU
    BY <1>1, <2>1, OTAssumption DEF Absorbed
  <2>3. QED BY <1>1, <2>2 DEF IInv, TranscriptIsPrefix, OneShotCom2
<1>4. IdMatches(m) <=> sig = "genuine" /\ m = SignedMsg
  BY <1>2, <1>3 DEF IdMatches
<1>5. faulty' \in {faulty, TRUE} /\ (faulty' <=> fault)
  BY <1>1, <1>2 DEF IInv, TypeOK
<1>6. CASE ~fault /\ IdMatches(m)
  <2>1. state' = "DONE" /\ ret' = "ok"
    BY <1>6 DEF StreamedVerify_Finalize
  <2>2. QED BY <1>1, <1>2, <1>4, <1>5, <1>6, <2>1, Verdicts
            DEF OneShot!Judge, OneShot!Idle
<1>7. CASE ~(~fault /\ IdMatches(m))
  <2>1. state' = "FAILED" /\ ret' = "fail"
    BY <1>7 DEF StreamedVerify_Finalize
  <2>2. QED BY <1>1, <1>2, <1>4, <1>5, <1>7, <2>1, Verdicts
            DEF OneShot!Judge, OneShot!Idle
<1>8. QED BY <1>6, <1>7

LEMMA NextImplements ==
  ASSUME IInv, [Next]_vars
  PROVE  [OneShot!Next]_(OneShot!vars)
<1>1. ASSUME NEW s \in Sigs, StreamedVerify_Init(s)
      PROVE  OneShot!Open(s)
  BY <1>1, Verdicts DEF StreamedVerify_Init, CtxZero, OneShot!Open
<1>2. CASE StreamedVerify_InitFails
  BY <1>2 DEF StreamedVerify_InitFails, session, ctx, chunking, OneShot!Next,
              OneShot!OpenFails
<1>3. ASSUME NEW null \in BOOLEAN, UpdateRefused(null)
      PROVE  OneShot!Refused(<<"update">>)
  BY <1>3 DEF UpdateRefused, Refused, Idle, session, ctx, chunking,
              OneShot!Refused, OneShot!Idle
<1>4. ASSUME NEW n \in 0..MaxPart, UpdateCall(n)
      PROVE  OneShot!Take
  <2>1. fed \in fed..SigSize
    BY Offsets DEF IInv, TypeOK
  <2>2. QED BY <1>4, <2>1, Verdicts
            DEF UpdateCall, Idle, ctx, chunking, OneShot!Take
<1>5. CASE UpdateProgress \/ UpdateFault
  BY <1>5, UpdateImplements DEF OneShot!Next
<1>6. ASSUME NEW m \in Messages, FinalizeRefused(m)
      PROVE  OneShot!Refused(<<"finalize", m>>)
  BY <1>6, FinalizeRefusedImplements
<1>7. ASSUME NEW m \in Messages, NEW fault \in BOOLEAN,
             StreamedVerify_Finalize(m, fault)
      PROVE  OneShot!Judge(m)
  BY <1>7, FinalizeImplements
<1>8. CASE StreamedVerify_Clean
  BY <1>8, Verdicts
  DEF StreamedVerify_Clean, Idle, CtxZero, OneShot!Next, OneShot!Close,
      OneShot!Idle
<1>9. CASE UNCHANGED vars
  BY <1>9 DEF vars, session, ctx, chunking, OneShot!vars
<1>10. /\ Sigs = OneShot!Sigs
       /\ <<"update">> \in OneShot!Calls \ {<<"none">>, <<"init">>, <<"clean">>}
       /\ \A m \in Messages : <<"finalize", m>> \in
             OneShot!Calls \ {<<"none">>, <<"init">>, <<"clean">>}
  BY DEF Sigs, OneShot!Sigs, OneShot!Calls
<1>11. QED
  BY <1>1, <1>2, <1>3, <1>4, <1>5, <1>6, <1>7, <1>8, <1>9, <1>10
  DEF Next, OneShot!Next

\* Whatever the parts, every call answers what one-shot verification would.
THEOREM Implements == Spec => RefinesOneShot
BY InitEstablishes, InitImplements, NextPreserves, NextImplements, PTL
DEF Spec, RefinesOneShot, OneShot!Spec

=============================================================================
