------------------------------- MODULE PreSign -------------------------------
(***************************************************************************)
(* Pre-signatures (src/sign_pre.c): the message-independent half of a      *)
(* signature is computed into a caller-owned buffer by                     *)
(* crypto_sign_prepare() and turned into a signature of one message by     *)
(* crypto_sign_finalize(), or by the low-level Sign_Finalize() under it.   *)
(*                                                                         *)
(* One sequential caller owns the buffers; it may also copy one to         *)
(* another, reuse one, or call Sign_Finalize() directly.  Any hash, XOF,   *)
(* randombytes() or commitment call inside the library may fail.           *)
(*                                                                         *)
(* A commitment is named by the number of the Sign_Prepare() call that     *)
(* made it: (salt, mseed, mask_rnd) are drawn afresh for each.  A buffer   *)
(* is its clear rnd and four slots; a slot is the field it holds, the      *)
(* commitment it belongs to and the mask over it, <<key, rnd>> or NoMask.  *)
(***************************************************************************)
EXTENDS Naturals, FiniteSets, Sequences

CONSTANTS
  Buf,          \* the caller's presig buffers
  Msg,          \* messages
  Key,          \* signing keys
  MaxPrepares,  \* bound: commitments made in a behaviour
  MaxKept       \* bound: copies and direct Sign_Finalize() calls

ASSUME PreSignAssumption ==
  /\ IsFiniteSet(Buf)
  /\ MaxPrepares \in Nat
  /\ MaxKept \in Nat

VARIABLES
  buf,      \* contents of each presig buffer
  sig,      \* the caller's signature buffer
  siglen,   \* *siglen: 0 or 1 (MQOM3_SIG_SIZE)
  call,     \* the call in progress, or the last one when pc = "idle"
  data,     \* Sign_Finalize's plaintext scratch copy of the payload
  made,     \* number of commitments made
  used,     \* used[c]: finalisations of a live presig of c, whatever they returned
  kept,     \* kept[c]: times the caller kept a live presig of c: by a copy,
            \* or by calling Sign_Finalize(), which does not wipe
  spent     \* buffers whose live presig a Sign_Finalize() of crypto_sign_finalize()
            \* has used, and that hold no other since

vars == <<buf, sig, siglen, call, data, made, used, kept, spent>>

Commitment == 1..MaxPrepares

NoMask == <<>>
Plain(f, c) == [field |-> f, com |-> c, mask |-> NoMask]
Zero  == Plain("zero", 0)
Noise == Plain("noise", 0)

ZeroedBuf == [rnd |-> 0, slots |-> [i \in 1..4 |-> Zero]]
ZeroedSig == [id |-> <<>>, salt |-> Zero, opening |-> <<>>]

\* The order in which Sign_Prepare lays the payload out after rnd, and the
\* order in which Sign_Finalize walks it.
PrepareLayout  == <<"id", "salt", "alpha1", "ckey">>
FinalizeLayout_Swapped == <<"salt", "id", "alpha1", "ckey">>  \* (wrong on purpose)
FinalizeLayout == <<"id", "salt", "alpha1", "ckey">>

SlotOf(f, layout) == CHOOSE i \in 1..4 : layout[i] = f

\* Everything past rnd, XORed with XOF(sk || rnd).  Removing a mask that was
\* never applied, as over an all-zero buffer, leaves noise.
Masked(b, k) == [b EXCEPT !.slots = [i \in 1..4 |-> [b.slots[i] EXCEPT !.mask = <<k, b.rnd>>]]]
Demasked(b, k) ==
  [i \in 1..4 |-> IF b.slots[i].mask = <<k, b.rnd>>
                    THEN [b.slots[i] EXCEPT !.mask = NoMask] ELSE Noise]

\* sig_id = Hash_4(presig_id, msg); the opening is a function of the key, of
\* alpha1 and of the challenge that sig_id determines.
Signature(id, salt, alpha1, ckey, m) ==
  [id |-> <<id, m>>, salt |-> salt, opening |-> <<ckey, alpha1, <<id, m>>>>]

\* What Sign() outputs for the same (salt, mseed, msg).
DirectSign(c, m) ==
  Signature(Plain("id", c), Plain("salt", c), Plain("alpha1", c), Plain("ckey", c), m)

-----------------------------------------------------------------------------
Init ==
  /\ buf = [b \in Buf |-> ZeroedBuf]
  /\ sig = ZeroedSig
  /\ siglen = 0
  /\ call = [pc |-> "idle", op |-> "none", ret |-> 0]
  /\ data = [i \in 1..4 |-> Zero]
  /\ made = 0
  /\ used = [c \in Commitment |-> 0]
  /\ kept = [c \in Commitment |-> 0]
  /\ spent = {}

Idle == call.pc = "idle"

Return(r) == call' = [call EXCEPT !.pc = "idle", !.ret = r]

\* crypto_sign_prepare: one of the three randombytes() calls fails before the
\* buffer is touched.
RandomFails(b, k) ==
  /\ Idle
  /\ call' = [pc |-> "idle", op |-> "prepare", ret |-> 1, b |-> b, k |-> k]
  /\ UNCHANGED <<buf, sig, siglen, data, made, used, kept, spent>>

\* The randomness is drawn and Sign_Prepare writes rnd and the salt: the
\* payload stays in clear in the caller's buffer until the last step.
PrepareStart(b, k) ==
  /\ Idle
  /\ made < MaxPrepares
  /\ made' = made + 1
  /\ buf' = [buf EXCEPT ![b] =
       [rnd |-> made',
        slots |-> [@.slots EXCEPT ![SlotOf("salt", PrepareLayout)] = Plain("salt", made')]]]
  /\ call' = [pc |-> "fill", op |-> "prepare", ret |-> 1, b |-> b, k |-> k]
  /\ spent' = spent \ {b}
  /\ UNCHANGED <<sig, siglen, data, used, kept>>

\* BLC_Commit_compact, ComputePAlpha, Hash_1 and Hash_2 succeed: alpha1,
\* presig_id and the serialised opening key join the salt, still in clear.
PrepareFill ==
  /\ call.pc = "fill"
  /\ buf' = [buf EXCEPT ![call.b].slots =
       [i \in 1..4 |-> IF PrepareLayout[i] = "salt" THEN @[i] ELSE Plain(PrepareLayout[i], made)]]
  /\ call' = [call EXCEPT !.pc = "mask"]
  /\ UNCHANGED <<sig, siglen, data, made, used, kept, spent>>

PrepareMask ==
  /\ call.pc = "mask"
  /\ buf' = [buf EXCEPT ![call.b] = Masked(@, call.k)]
  /\ Return(0)
  /\ UNCHANGED <<sig, siglen, data, made, used, kept, spent>>

\* What a failing Sign_Prepare leaves in the buffer: the memset() under err.
AfterPrepareError_Kept(b) == b  \* (wrong on purpose)
AfterPrepareError(b) == ZeroedBuf

PrepareFails ==
  /\ call.pc \in {"fill", "mask"}
  /\ buf' = [buf EXCEPT ![call.b] = AfterPrepareError(@)]
  /\ Return(1)
  /\ UNCHANGED <<sig, siglen, data, made, used, kept, spent>>

-----------------------------------------------------------------------------
\* Level "crypto" is crypto_sign_finalize(), level "raw" a direct call of
\* Sign_Finalize().  "given" remembers the buffer as it was passed.
Live(b) == b.rnd # 0

Counted(f, b) == IF Live(buf[b]) THEN [f EXCEPT ![buf[b].rnd] = @ + 1] ELSE f

FinalizeStart(b, k, m, level) ==
  /\ Idle
  /\ level = "raw" /\ Live(buf[b]) => kept[buf[b].rnd] < MaxKept
  /\ kept' = IF level = "raw" THEN Counted(kept, b) ELSE kept
  /\ call' = [pc |-> "demask", op |-> level, ret |-> 1, b |-> b, k |-> k, m |-> m,
              given |-> buf[b], reused |-> b \in spent]
  /\ used' = Counted(used, b)
  /\ UNCHANGED <<buf, sig, siglen, data, made, spent>>

\* Remove the mask into the scratch copy and write the salt to the signature.
FinalizeDemask ==
  /\ call.pc = "demask"
  /\ data' = Demasked(buf[call.b], call.k)
  /\ sig' = [sig EXCEPT !.salt = data'[SlotOf("salt", FinalizeLayout)]]
  /\ call' = [call EXCEPT !.pc = "open"]
  /\ UNCHANGED <<buf, siglen, made, used, kept, spent>>

\* The buffer, *siglen and the spent set when Sign_Finalize() has returned r
\* (0 on success): crypto_sign_finalize() wipes presig whatever r is.
WipesAfter_SuccessOnly(r) == call.op = "crypto" /\ r = 0  \* (wrong on purpose)
WipesAfter(r) == call.op = "crypto"

Epilogue(r) ==
  /\ Return(r)
  /\ data' = [i \in 1..4 |-> Zero]
  /\ siglen' = IF call.op = "crypto" THEN (IF r = 0 THEN 1 ELSE 0) ELSE siglen
  /\ buf' = IF WipesAfter(r) THEN [buf EXCEPT ![call.b] = ZeroedBuf] ELSE buf
  /\ spent' = IF WipesAfter(r) /\ Live(buf[call.b]) THEN spent \cup {call.b} ELSE spent

\* SampleChallenge and BLC_Open_compact succeed.  Neither looks at whether
\* what it is given is a commitment key or noise.
FinalizeOpen ==
  LET At(f) == data[SlotOf(f, FinalizeLayout)] IN
     /\ call.pc = "open"
     /\ sig' = Signature(At("id"), sig.salt, At("alpha1"), At("ckey"), call.m)
     /\ Epilogue(0)
     /\ UNCHANGED <<made, used, kept>>

\* What a failing Sign_Finalize leaves in the signature buffer.
AfterFinalizeError_Kept(s) == s  \* (wrong on purpose)
AfterFinalizeError(s) == ZeroedSig

FinalizeFails ==
  /\ call.pc \in {"demask", "open"}
  /\ sig' = AfterFinalizeError(sig)
  /\ Epilogue(1)
  /\ UNCHANGED <<made, used, kept>>

\* A message longer than SIZE_MAX: presig is consumed, sig is not written.
FinalizeTooLong(b, k) ==
  /\ Idle
  /\ call' = [pc |-> "idle", op |-> "toolong", ret |-> 1, b |-> b, k |-> k]
  /\ buf' = [buf EXCEPT ![b] = ZeroedBuf]
  /\ siglen' = 0
  /\ used' = Counted(used, b)
  /\ UNCHANGED <<sig, data, made, kept, spent>>

\* The caller duplicates a live presig.
Copy(from, to) ==
  /\ Idle
  /\ from # to
  /\ Live(buf[from]) /\ kept[buf[from].rnd] < MaxKept
  /\ buf' = [buf EXCEPT ![to] = buf[from]]
  /\ kept' = Counted(kept, from)
  /\ spent' = spent \ {to}
  /\ UNCHANGED <<sig, siglen, call, data, made, used>>

Next ==
  \/ \E b \in Buf, k \in Key : RandomFails(b, k) \/ PrepareStart(b, k) \/ FinalizeTooLong(b, k)
  \/ PrepareFill
  \/ PrepareMask
  \/ PrepareFails
  \/ \E b \in Buf, k \in Key, m \in Msg, level \in {"crypto", "raw"} : FinalizeStart(b, k, m, level)
  \/ FinalizeDemask
  \/ FinalizeOpen
  \/ FinalizeFails
  \/ \E from, to \in Buf : Copy(from, to)

Spec == Init /\ [][Next]_vars
-----------------------------------------------------------------------------
Field == {"id", "salt", "alpha1", "ckey"}
Slot  == [field : Field \cup {"zero", "noise"}, com : 0..MaxPrepares,
          mask : {NoMask} \cup (Key \X Commitment)]

\* Type invariant.
TypeOK ==
  /\ DOMAIN buf = Buf
  /\ \A b \in Buf : buf[b].rnd \in 0..MaxPrepares /\ \A i \in 1..4 : buf[b].slots[i] \in Slot
  /\ siglen \in {0, 1}
  /\ call.pc \in {"idle", "fill", "mask", "demask", "open"}
  /\ \A i \in 1..4 : data[i] \in Slot /\ data[i].mask = NoMask
  /\ made \in 0..MaxPrepares
  /\ used \in [Commitment -> Nat] /\ kept \in [Commitment -> 0..MaxKept]
  /\ spent \subseteq Buf

\* Between calls no buffer holds payload in clear: Sign_Prepare lays the
\* opening key out unmasked in the caller's memory, and whichever of its calls
\* fails before the mask goes on, the buffer is cleared before it returns.
NoPlaintextLeft ==
  Idle => \A b \in Buf : buf[b] = ZeroedBuf \/ \A i \in 1..4 : buf[b].slots[i].mask # NoMask

HoldersOf(c) == Cardinality({b \in Buf : buf[b].rnd = c})

\* A presig serves one message: the finalisations a commitment goes through,
\* successful or not, and the buffers that still hold a presig of it never
\* outnumber the one Sign_Prepare made and those the caller kept, by a copy or
\* by a direct Sign_Finalize().  With nothing kept, one finalisation at most.
UsedOncePerPresig == Idle => \A c \in Commitment : used[c] + HoldersOf(c) <= 1 + kept[c]

\* A successful finalisation of a presig made with the same key is the
\* signature Sign() computes from the same (salt, mseed, msg).
MatchesDirectSign ==
  Idle /\ call.op \in {"crypto", "raw"} /\ call.ret = 0 /\ Live(call.given)
       /\ call.given.slots[1].mask = <<call.k, call.given.rnd>>
    => sig = DirectSign(call.given.rnd, call.m)

Complete(s) == s.id # <<>> /\ s.opening # <<>>

\* Between calls the signature buffer is either all zero or a complete
\* signature, never the head of one that failed half way; and after
\* crypto_sign_finalize() *siglen is non-zero exactly for a complete one.
AnswerComplete ==
  Idle => /\ sig = ZeroedSig \/ Complete(sig)
          /\ call.op = "crypto" => (siglen = 1 <=> Complete(sig)) /\ (siglen = 1 <=> call.ret = 0)

\* What finalisation answers is a complete signature, the one Sign() makes, or
\* nothing; every variable has its type.
AnswersAreSignatures == TypeOK /\ MatchesDirectSign /\ AnswerComplete

\* README.md: presig is wiped by crypto_sign_finalize() after use (success or
\* failure), "so reusing that same buffer fails cleanly instead of silently
\* succeeding".
ReusedBufferFails == Idle /\ call.op = "crypto" /\ call.reused => call.ret # 0
==============================================================================
