----------------------------- MODULE PreSignProofs -----------------------------
(***************************************************************************)
(* Proofs about PreSign, for every set of buffers, keys and messages, any  *)
(* number of commitments and any number of copies:                         *)
(*                                                                         *)
(*   NothingInClear   no buffer holds payload in clear between calls;      *)
(*   OneUse           a presig serves one message, unless the caller kept  *)
(*                    it;                                                  *)
(*   Answers          finalisation answers the signature of Sign(), or     *)
(*                    nothing.                                             *)
(*                                                                         *)
(* Each property speaks of idle states only.  The invariant adds what a    *)
(* call in progress has done so far: which buffer is being filled, which   *)
(* presig was counted but not wiped yet, what the scratch copy holds.      *)
(***************************************************************************)
EXTENDS PreSign, FiniteSetTheorems, TLAPS

Preparing  == call.pc \in {"fill", "mask"}
Finalising == call.pc \in {"demask", "open"}

Buffer == [rnd : 0..MaxPrepares, slots : [1..4 -> Slot]]

Types ==
  /\ buf \in [Buf -> Buffer]
  /\ siglen \in {0, 1}
  /\ data \in [1..4 -> Slot] /\ \A i \in 1..4 : data[i].mask = NoMask
  /\ made \in 0..MaxPrepares
  /\ used \in [Commitment -> Nat] /\ kept \in [Commitment -> 0..MaxKept]
  /\ spent \subseteq Buf
  /\ {"id", "salt", "opening"} \subseteq DOMAIN sig

\* A call in progress knows its arguments, and that it works on its buffer.
CallKnown ==
  /\ call.pc \in {"idle", "fill", "mask", "demask", "open"}
  /\ {"pc", "op", "ret"} \subseteq DOMAIN call
  /\ Preparing => /\ {"b", "k"} \subseteq DOMAIN call
                  /\ call.op = "prepare" /\ call.b \in Buf /\ call.k \in Key
  /\ Finalising => /\ {"b", "k", "m", "given"} \subseteq DOMAIN call
                   /\ call.op \in {"crypto", "raw"}
                   /\ call.b \in Buf /\ call.k \in Key
                   /\ call.given = buf[call.b]

\* A buffer that holds a presig of commitment c, masked under k.
Payload(c) == [i \in 1..4 |-> Plain(PrepareLayout[i], c)]
Sealed(b, k) ==
  /\ b.rnd \in Commitment
  /\ b.slots = [i \in 1..4 |-> [field |-> PrepareLayout[i], com |-> b.rnd,
                                mask |-> <<k, b.rnd>>]]

\* Every buffer is clear or sealed, but the one Sign_Prepare is working on.
Contents ==
  /\ \A b \in Buf : \/ Preparing /\ b = call.b
                    \/ buf[b] = ZeroedBuf
                    \/ \E k \in Key : Sealed(buf[b], k)
  /\ Preparing => made \in 1..MaxPrepares /\ buf[call.b].rnd = made
  /\ call.pc = "fill" => buf[call.b].slots[2] = Plain("salt", made)
  /\ call.pc = "mask" => buf[call.b].slots = Payload(made)

\* Commitments not made yet are nowhere.
Fresh ==
  /\ \A b \in Buf : buf[b].rnd <= made
  /\ \A c \in Commitment : c > made => used[c] = 0

\* A presig counted by crypto_sign_finalize() and not wiped yet.
Pending(c) ==
  IF Finalising /\ call.op = "crypto" /\ buf[call.b].rnd = c THEN 1 ELSE 0

Counts ==
  \A c \in Commitment : used[c] + HoldersOf(c) <= 1 + kept[c] + Pending(c)

\* The scratch copy and the salt of a finalisation under way.
Scratch ==
  call.pc = "open" => /\ data = Demasked(buf[call.b], call.k)
                      /\ sig.salt = data[2]

\* The signature buffer is untouched until then.
SigWhole == call.pc # "open" => sig = ZeroedSig \/ Complete(sig)

\* The inductive invariant.
IInv ==
  /\ Types /\ CallKnown
  /\ Contents /\ Fresh /\ Counts
  /\ Scratch /\ SigWhole
  /\ MatchesDirectSign /\ AnswerComplete

-----------------------------------------------------------------------------
(***************************************************************************)
(* Layouts, masks and holders.                                             *)
(***************************************************************************)

\* Both layouts name the four fields in the same places.
LEMMA Layouts ==
  /\ PrepareLayout = FinalizeLayout
  /\ SlotOf("id", PrepareLayout) = 1
  /\ SlotOf("salt", PrepareLayout) = 2
  /\ SlotOf("alpha1", PrepareLayout) = 3
  /\ SlotOf("ckey", PrepareLayout) = 4
  /\ \A i \in 1..4 : PrepareLayout[i] \in Field
  /\ PrepareLayout[1] = "id" /\ PrepareLayout[2] = "salt"
  /\ PrepareLayout[3] = "alpha1" /\ PrepareLayout[4] = "ckey"
BY DEF PrepareLayout, FinalizeLayout, SlotOf, Field

LEMMA Zeroed ==
  /\ ZeroedBuf \in Buffer /\ ZeroedBuf.rnd = 0
  /\ Zero \in Slot /\ Noise \in Slot /\ Zero.mask = NoMask /\ Noise.mask = NoMask
BY PreSignAssumption
DEF ZeroedBuf, Buffer, Zero, Noise, Plain, Slot, Field, Commitment, NoMask

LEMMA PlainTypes ==
  ASSUME NEW f \in Field, NEW c \in Commitment
  PROVE  Plain(f, c) \in Slot
BY PreSignAssumption DEF Plain, Slot, Commitment

\* Masking a payload seals it, and the buffer stays a buffer.
LEMMA MaskSeals ==
  ASSUME NEW b \in Buffer, NEW k \in Key, b.rnd \in Commitment,
         b.slots = Payload(b.rnd)
  PROVE  Masked(b, k) \in Buffer /\ Sealed(Masked(b, k), k) /\ Masked(b, k).rnd = b.rnd
<1>2. /\ Masked(b, k).rnd = b.rnd
      /\ Masked(b, k).slots = [i \in 1..4 |-> [field |-> PrepareLayout[i],
                                               com |-> b.rnd, mask |-> <<k, b.rnd>>]]
  BY DEF Masked, Payload, Plain, Buffer
<1>3. Masked(b, k).slots \in [1..4 -> Slot]
  <2>1. <<k, b.rnd>> \in Key \X Commitment
    OBVIOUS
  <2>2. \A i \in 1..4 : [field |-> PrepareLayout[i], com |-> b.rnd,
                         mask |-> <<k, b.rnd>>] \in Slot
    BY <2>1, Layouts, PreSignAssumption DEF Slot, Commitment
  <2>3. QED BY <1>2, <2>2
<1>4. Masked(b, k) \in Buffer
  BY <1>2, <1>3 DEF Masked, Buffer
<1>5. QED BY <1>2, <1>4 DEF Sealed

LEMMA DemaskTypes ==
  ASSUME NEW b \in Buffer, NEW k \in Key
  PROVE  /\ Demasked(b, k) \in [1..4 -> Slot]
         /\ \A i \in 1..4 : Demasked(b, k)[i].mask = NoMask
<1>1. ASSUME NEW i \in 1..4
      PROVE  /\ (IF b.slots[i].mask = <<k, b.rnd>>
                 THEN [b.slots[i] EXCEPT !.mask = NoMask] ELSE Noise) \in Slot
             /\ (IF b.slots[i].mask = <<k, b.rnd>>
                 THEN [b.slots[i] EXCEPT !.mask = NoMask] ELSE Noise).mask = NoMask
  <2>1. b.slots[i] \in Slot
    BY DEF Buffer
  <2>2. /\ [b.slots[i] EXCEPT !.mask = NoMask] \in Slot
        /\ [b.slots[i] EXCEPT !.mask = NoMask].mask = NoMask
    BY <2>1 DEF Slot
  <2>3. QED BY <2>2, Zeroed
<1>2. QED BY <1>1 DEF Demasked

\* The buffers that hold commitment c.
Holders(f, c) == {b \in Buf : f[b].rnd = c}

LEMMA HoldersFinite ==
  ASSUME NEW f, NEW c
  PROVE  IsFiniteSet(Holders(f, c)) /\ Cardinality(Holders(f, c)) \in Nat
<1>1. Holders(f, c) \subseteq Buf
  BY DEF Holders
<1>2. QED BY <1>1, PreSignAssumption, FS_Subset, FS_CardinalityType

\* A buffer that stops holding c is one holder less, and no other changes.
LEMMA HolderGone ==
  ASSUME NEW f, NEW g, NEW x \in Buf, NEW c, g[x].rnd # c,
         \A b \in Buf \ {x} : g[b].rnd = f[b].rnd
  PROVE  /\ Cardinality(Holders(g, c)) <= Cardinality(Holders(f, c))
         /\ f[x].rnd = c => Cardinality(Holders(g, c)) = Cardinality(Holders(f, c)) - 1
<1>1. Holders(g, c) = Holders(f, c) \ {x}
  BY DEF Holders
<1>2. CASE f[x].rnd = c
  <2>1. x \in Holders(f, c)
    BY <1>2 DEF Holders
  <2>2. Cardinality(Holders(g, c)) = Cardinality(Holders(f, c)) - 1
    BY <1>1, <2>1, HoldersFinite, FS_RemoveElement
  <2>3. QED BY <2>2, HoldersFinite
<1>3. CASE f[x].rnd # c
  <2>1. Holders(g, c) = Holders(f, c)
    BY <1>3 DEF Holders
  <2>2. QED BY <1>3, <2>1, HoldersFinite
<1>4. QED BY <1>2, <1>3

\* A buffer that changes hands adds at most one holder.
LEMMA HolderAdded ==
  ASSUME NEW f, NEW g, NEW x \in Buf, NEW c,
         \A b \in Buf \ {x} : g[b].rnd = f[b].rnd
  PROVE  Cardinality(Holders(g, c)) <= Cardinality(Holders(f, c)) + 1
<1>1. CASE g[x].rnd = c
  <2>1. Holders(g, c) = Holders(f, c) \cup {x}
    BY <1>1 DEF Holders
  <2>2. CASE x \in Holders(f, c)
    <3>1. Holders(g, c) = Holders(f, c)
      BY <2>1, <2>2
    <3>2. QED BY <3>1, HoldersFinite
  <2>3. CASE x \notin Holders(f, c)
    <3>1. Cardinality(Holders(f, c) \cup {x}) = Cardinality(Holders(f, c)) + 1
      BY <2>3, HoldersFinite, FS_AddElement
    <3>2. QED BY <2>1, <3>1, HoldersFinite
  <2>4. QED BY <2>2, <2>3
<1>2. CASE g[x].rnd # c
  <2>1. Cardinality(Holders(g, c)) <= Cardinality(Holders(f, c))
    BY <1>2, HolderGone
  <2>2. /\ Cardinality(Holders(g, c)) \in Nat
        /\ Cardinality(Holders(f, c)) \in Nat
    BY HoldersFinite
  <2>3. QED BY <2>1, <2>2
<1>3. QED BY <1>1, <1>2

-----------------------------------------------------------------------------
(***************************************************************************)
(* Every action preserves the invariant: crypto_sign_prepare.              *)
(***************************************************************************)

\* Nothing moves and no finalisation starts or ends: the counts stay.
LEMMA SameHolders ==
  ASSUME Counts, UNCHANGED <<used, kept>>, \A b \in Buf : buf'[b].rnd = buf[b].rnd,
         \A c \in Commitment : Pending(c)' = Pending(c)
  PROVE  Counts'
<1>1. \A c \in Commitment : HoldersOf(c)' = HoldersOf(c)
  BY DEF HoldersOf
<1>2. QED BY <1>1 DEF Counts

\* In a state between calls nothing is pending.
LEMMA NonePending ==
  ASSUME NEW c \in Commitment, ~Finalising
  PROVE  Pending(c) = 0
BY DEF Pending

LEMMA RandomFailsPreserves ==
  ASSUME IInv, NEW b \in Buf, NEW k \in Key, RandomFails(b, k)
  PROVE  IInv'
<1>1. /\ call.pc = "idle" /\ call'.pc = "idle" /\ call'.op = "prepare"
      /\ {"pc", "op", "ret"} \subseteq DOMAIN call'
      /\ UNCHANGED <<buf, sig, siglen, data, made, used, kept, spent>>
  BY DEF RandomFails, Idle
<1>2. ~Preparing /\ ~Preparing' /\ ~Finalising /\ ~Finalising'
  BY <1>1 DEF Preparing, Finalising
<1>3. Types' /\ CallKnown' /\ Contents' /\ Fresh'
  <2>1. Types'
    BY <1>1 DEF IInv, Types
  <2>2. CallKnown'
    BY <1>1, <1>2 DEF CallKnown
  <2>3. Contents' /\ Fresh'
    BY <1>1, <1>2 DEF IInv, Contents, Fresh
  <2>4. QED BY <2>1, <2>2, <2>3
<1>4. Counts'
  BY <1>1, <1>2, SameHolders DEF IInv, Pending
<1>5. Scratch' /\ SigWhole' /\ MatchesDirectSign' /\ AnswerComplete'
  BY <1>1 DEF IInv, Scratch, SigWhole, MatchesDirectSign, AnswerComplete, Complete
<1>6. QED BY <1>3, <1>4, <1>5 DEF IInv

LEMMA PrepareStartPreserves ==
  ASSUME IInv, NEW b \in Buf, NEW k \in Key, PrepareStart(b, k)
  PROVE  IInv'
<1>1. /\ call.pc = "idle" /\ made < MaxPrepares /\ made' = made + 1
      /\ call'.pc = "fill" /\ call'.op = "prepare" /\ call'.b = b /\ call'.k = k
      /\ {"pc", "op", "ret", "b", "k"} \subseteq DOMAIN call'
      /\ spent' = spent \ {b}
      /\ UNCHANGED <<sig, siglen, data, used, kept>>
  BY DEF PrepareStart, Idle
<1>2. ~Preparing /\ Preparing' /\ ~Finalising /\ ~Finalising'
  BY <1>1 DEF Preparing, Finalising
<1>3. made \in Nat /\ made' \in 1..MaxPrepares /\ made' \in Commitment
  BY <1>1, PreSignAssumption DEF IInv, Types, Commitment
<1>4. /\ buf' \in [Buf -> Buffer]
      /\ buf'[b].rnd = made' /\ buf'[b].slots[2] = Plain("salt", made')
      /\ \A x \in Buf \ {b} : buf'[x] = buf[x]
  <2>1. buf \in [Buf -> Buffer]
    BY DEF IInv, Types
  <2>2. Plain("salt", made') \in Slot
    BY <1>3, PlainTypes DEF Field
  <2> DEFINE filled == [buf[b].slots EXCEPT ![2] = Plain("salt", made')]
  <2>3. buf' = [buf EXCEPT ![b] = [rnd |-> made', slots |-> filled]]
    BY Layouts DEF PrepareStart
  <2>4. filled \in [1..4 -> Slot] /\ filled[2] = Plain("salt", made')
    BY <2>1, <2>2 DEF Buffer
  <2> HIDE DEF filled
  <2>5. [rnd |-> made', slots |-> filled] \in Buffer
    BY <1>3, <2>4, PreSignAssumption DEF Buffer
  <2>6. QED BY <2>1, <2>3, <2>4, <2>5
<1>5. Types' /\ CallKnown'
  BY <1>1, <1>2, <1>3, <1>4, PreSignAssumption DEF IInv, Types, CallKnown
<1>6. Contents'
  <2>1. ASSUME NEW x \in Buf, x # b
        PROVE  buf'[x] = ZeroedBuf \/ \E kk \in Key : Sealed(buf'[x], kk)
    BY <1>2, <1>4, <2>1 DEF IInv, Contents
  <2>2. QED BY <1>1, <1>2, <1>3, <1>4, <2>1 DEF Contents
<1>7. Fresh'
  <2>1. \A x \in Buf : buf'[x].rnd <= made'
    <3>1. ASSUME NEW x \in Buf, x # b
          PROVE  buf'[x].rnd <= made'
      <4>1. buf'[x].rnd = buf[x].rnd /\ buf[x].rnd \in Nat /\ buf[x].rnd <= made
        BY <1>4, <3>1 DEF IInv, Types, Fresh, Buffer
      <4>2. QED BY <1>1, <1>3, <4>1
    <3>2. QED BY <1>3, <1>4, <3>1, PreSignAssumption
  <2>2. \A c \in Commitment : c > made' => used'[c] = 0
    BY <1>1, <1>3, PreSignAssumption DEF IInv, Fresh, Commitment
  <2>3. QED BY <2>1, <2>2 DEF Fresh
<1>8. Counts'
  <2>1. ASSUME NEW c \in Commitment
        PROVE  used'[c] + HoldersOf(c)' <= 1 + kept'[c] + Pending(c)'
    <3>1. /\ Pending(c) = 0 /\ Pending(c)' = 0
          /\ used[c] \in Nat /\ kept[c] \in Nat
          /\ UNCHANGED <<used, kept>>
      BY <1>1, <1>2, PreSignAssumption DEF Pending, IInv, Types
    <3>2. /\ HoldersOf(c) = Cardinality(Holders(buf, c)) /\ HoldersOf(c) \in Nat
          /\ HoldersOf(c)' = Cardinality(Holders(buf', c)) /\ HoldersOf(c)' \in Nat
      BY HoldersFinite DEF HoldersOf, Holders
    <3>3. \A x \in Buf \ {b} : buf'[x].rnd = buf[x].rnd
      BY <1>4
    <3>4. CASE c = made'
      <4>1. used[c] = 0
        BY <1>1, <1>3, <3>4 DEF IInv, Fresh
      <4>2. Holders(buf, c) = {}
        BY <1>1, <1>3, <3>4 DEF IInv, Fresh, Holders, Types, Buffer
      <4>3. HoldersOf(c) = 0
        BY <3>2, <4>2, FS_EmptySet
      <4>4. HoldersOf(c)' <= HoldersOf(c) + 1
        BY <3>2, <3>3, HolderAdded
      <4>5. QED BY <3>1, <3>2, <4>1, <4>3, <4>4
    <3>5. CASE c # made'
      <4>1. HoldersOf(c)' <= HoldersOf(c)
        <5>1. buf'[b].rnd # c
          BY <1>4, <3>5
        <5>2. Cardinality(Holders(buf', c)) <= Cardinality(Holders(buf, c))
          BY <3>3, <5>1, HolderGone
        <5>3. QED BY <3>2, <5>2
      <4>2. used[c] + HoldersOf(c) <= 1 + kept[c] + Pending(c)
        BY DEF IInv, Counts
      <4>3. QED BY <3>1, <3>2, <4>1, <4>2
    <3>6. QED BY <3>4, <3>5
  <2>2. QED BY <2>1 DEF Counts
<1>9. Scratch' /\ SigWhole' /\ MatchesDirectSign' /\ AnswerComplete'
  BY <1>1 DEF IInv, Scratch, SigWhole, MatchesDirectSign, AnswerComplete, Complete, Idle
<1>10. QED BY <1>5, <1>6, <1>7, <1>8, <1>9 DEF IInv

LEMMA PrepareFillPreserves ==
  ASSUME IInv, PrepareFill
  PROVE  IInv'
<1> DEFINE b == call.b
<1>1. /\ call.pc = "fill" /\ call' = [call EXCEPT !.pc = "mask"]
      /\ UNCHANGED <<sig, siglen, data, made, used, kept, spent>>
  BY DEF PrepareFill
<1>2. /\ Preparing /\ Preparing' /\ ~Finalising
      /\ b \in Buf /\ call.k \in Key /\ call.op = "prepare"
      /\ {"pc", "op", "ret", "b", "k"} \subseteq DOMAIN call
  BY <1>1 DEF Preparing, Finalising, IInv, CallKnown
<1>3. /\ call'.pc = "mask" /\ call'.op = "prepare" /\ call'.b = b
      /\ call'.k = call.k /\ DOMAIN call' = DOMAIN call
  BY <1>1, <1>2
<1>4. ~Finalising'
  BY <1>3 DEF Finalising
<1>5. /\ buf \in [Buf -> Buffer] /\ made \in 1..MaxPrepares /\ buf[b].rnd = made
      /\ buf[b].slots[2] = Plain("salt", made)
  BY <1>1, <1>2 DEF IInv, Types, Contents
<1>6. /\ buf' \in [Buf -> Buffer]
      /\ buf'[b].rnd = made /\ buf'[b].slots = Payload(made)
      /\ \A x \in Buf \ {b} : buf'[x] = buf[x]
  <2>1. Payload(made) \in [1..4 -> Slot]
    <3>1. \A i \in 1..4 : Plain(PrepareLayout[i], made) \in Slot
      BY <1>5, Layouts, PlainTypes, PreSignAssumption DEF Commitment
    <3>2. QED BY <3>1 DEF Payload
  <2>2. [i \in 1..4 |-> IF PrepareLayout[i] = "salt" THEN buf[b].slots[i]
                                                    ELSE Plain(PrepareLayout[i], made)]
          = Payload(made)
    <3>1. ASSUME NEW i \in 1..4, PrepareLayout[i] = "salt"
          PROVE  i = 2
      BY <3>1, Layouts
    <3>2. QED BY <1>5, <3>1, Layouts DEF Payload
  <2>3. buf' = [buf EXCEPT ![b].slots =
           [i \in 1..4 |-> IF PrepareLayout[i] = "salt" THEN @[i]
                           ELSE Plain(PrepareLayout[i], made)]]
    BY DEF PrepareFill
  <2>4. buf' = [buf EXCEPT ![b].slots = Payload(made)]
    BY <2>2, <2>3
  <2>5. QED BY <1>2, <1>5, <2>1, <2>4 DEF Buffer
<1>7. Types' /\ CallKnown'
  BY <1>1, <1>2, <1>3, <1>4, <1>6 DEF IInv, Types, CallKnown
<1>8. Contents'
  <2>1. ASSUME NEW x \in Buf, x # b
        PROVE  buf'[x] = ZeroedBuf \/ \E kk \in Key : Sealed(buf'[x], kk)
    BY <1>6, <2>1 DEF IInv, Contents
  <2>2. QED BY <1>1, <1>2, <1>3, <1>5, <1>6, <2>1 DEF Contents
<1>9. /\ \A x \in Buf : buf'[x].rnd = buf[x].rnd
      /\ \A c \in Commitment : Pending(c)' = Pending(c)
  BY <1>2, <1>4, <1>5, <1>6 DEF Pending
<1>10. Fresh' /\ Counts'
  BY <1>1, <1>9, SameHolders DEF IInv, Fresh
<1>11. Scratch' /\ SigWhole' /\ MatchesDirectSign' /\ AnswerComplete'
  BY <1>1, <1>3 DEF IInv, Scratch, SigWhole, MatchesDirectSign, AnswerComplete,
                    Complete, Idle
<1>12. QED BY <1>7, <1>8, <1>10, <1>11 DEF IInv

LEMMA PrepareMaskPreserves ==
  ASSUME IInv, PrepareMask
  PROVE  IInv'
<1> DEFINE b == call.b
<1>1. /\ call.pc = "mask" /\ call' = [call EXCEPT !.pc = "idle", !.ret = 0]
      /\ buf' = [buf EXCEPT ![b] = Masked(@, call.k)]
      /\ UNCHANGED <<sig, siglen, data, made, used, kept, spent>>
  BY DEF PrepareMask, Return
<1>2. /\ Preparing /\ ~Finalising
      /\ b \in Buf /\ call.k \in Key /\ call.op = "prepare"
      /\ {"pc", "op", "ret"} \subseteq DOMAIN call
  BY <1>1 DEF Preparing, Finalising, IInv, CallKnown
<1>3. /\ call'.pc = "idle" /\ call'.op = "prepare" /\ DOMAIN call' = DOMAIN call
      /\ ~Preparing' /\ ~Finalising'
  BY <1>1, <1>2 DEF Preparing, Finalising
<1>4. /\ buf \in [Buf -> Buffer] /\ made \in 1..MaxPrepares /\ buf[b].rnd = made
      /\ buf[b].slots = Payload(made)
  BY <1>1, <1>2 DEF IInv, Types, Contents
<1>5. /\ buf'[b] \in Buffer /\ Sealed(buf'[b], call.k) /\ buf'[b].rnd = made
      /\ buf' \in [Buf -> Buffer]
      /\ \A x \in Buf \ {b} : buf'[x] = buf[x]
  <2>1. buf[b] \in Buffer /\ buf[b].rnd \in Commitment
    BY <1>2, <1>4, PreSignAssumption DEF Commitment
  <2>2. /\ Masked(buf[b], call.k) \in Buffer /\ Sealed(Masked(buf[b], call.k), call.k)
        /\ Masked(buf[b], call.k).rnd = made
    BY <1>2, <1>4, <2>1, MaskSeals
  <2>3. QED BY <1>1, <1>2, <1>4, <2>2
<1>6. Types' /\ CallKnown'
  BY <1>1, <1>2, <1>3, <1>5 DEF IInv, Types, CallKnown
<1>7. Contents'
  <2>1. ASSUME NEW x \in Buf
        PROVE  buf'[x] = ZeroedBuf \/ \E kk \in Key : Sealed(buf'[x], kk)
    <3>1. CASE x = b
      BY <1>2, <1>5, <3>1
    <3>2. CASE x # b
      BY <1>5, <3>2 DEF IInv, Contents
    <3>3. QED BY <3>1, <3>2
  <2>2. QED BY <1>3, <2>1 DEF Contents
<1>8. /\ \A x \in Buf : buf'[x].rnd = buf[x].rnd
      /\ \A c \in Commitment : Pending(c)' = Pending(c)
  BY <1>2, <1>3, <1>4, <1>5 DEF Pending
<1>9. Fresh' /\ Counts'
  BY <1>1, <1>8, SameHolders DEF IInv, Fresh
<1>10. Scratch' /\ SigWhole' /\ MatchesDirectSign' /\ AnswerComplete'
  BY <1>1, <1>3 DEF IInv, Scratch, SigWhole, MatchesDirectSign, AnswerComplete,
                    Complete, Idle
<1>11. QED BY <1>6, <1>7, <1>9, <1>10 DEF IInv

LEMMA PrepareFailsPreserves ==
  ASSUME IInv, PrepareFails
  PROVE  IInv'
<1> DEFINE b == call.b
<1>1. /\ Preparing /\ call' = [call EXCEPT !.pc = "idle", !.ret = 1]
      /\ buf' = [buf EXCEPT ![b] = ZeroedBuf]
      /\ UNCHANGED <<sig, siglen, data, made, used, kept, spent>>
  BY DEF PrepareFails, Return, AfterPrepareError, Preparing
<1>2. /\ ~Finalising /\ b \in Buf /\ call.op = "prepare"
      /\ {"pc", "op", "ret"} \subseteq DOMAIN call
      /\ buf \in [Buf -> Buffer]
  BY <1>1 DEF Preparing, Finalising, IInv, CallKnown, Types
<1>3. /\ call'.pc = "idle" /\ call'.op = "prepare" /\ DOMAIN call' = DOMAIN call
      /\ ~Preparing' /\ ~Finalising'
  BY <1>1, <1>2 DEF Preparing, Finalising
<1>4. /\ buf' \in [Buf -> Buffer] /\ buf'[b] = ZeroedBuf /\ buf'[b].rnd = 0
      /\ \A x \in Buf \ {b} : buf'[x] = buf[x]
  BY <1>1, <1>2, Zeroed
<1>5. Types' /\ CallKnown'
  BY <1>1, <1>2, <1>3, <1>4 DEF IInv, Types, CallKnown
<1>6. Contents'
  BY <1>3, <1>4 DEF IInv, Contents
<1>7. Fresh'
  BY <1>1, <1>4 DEF IInv, Types, Fresh
<1>8. Counts'
  <2>1. ASSUME NEW c \in Commitment
        PROVE  used'[c] + HoldersOf(c)' <= 1 + kept'[c] + Pending(c)'
    <3>1. /\ Pending(c) = 0 /\ Pending(c)' = 0
          /\ used[c] \in Nat /\ kept[c] \in Nat
          /\ UNCHANGED <<used, kept>>
      BY <1>1, <1>2, <1>3, PreSignAssumption DEF Pending, IInv, Types
    <3>2. /\ HoldersOf(c) = Cardinality(Holders(buf, c)) /\ HoldersOf(c) \in Nat
          /\ HoldersOf(c)' = Cardinality(Holders(buf', c)) /\ HoldersOf(c)' \in Nat
      BY HoldersFinite DEF HoldersOf, Holders
    <3>3. HoldersOf(c)' <= HoldersOf(c)
      <4>1. buf'[b].rnd # c /\ \A x \in Buf \ {b} : buf'[x].rnd = buf[x].rnd
        BY <1>4, PreSignAssumption DEF Commitment
      <4>2. Cardinality(Holders(buf', c)) <= Cardinality(Holders(buf, c))
        BY <1>2, <4>1, HolderGone
      <4>3. QED BY <3>2, <4>2
    <3>4. used[c] + HoldersOf(c) <= 1 + kept[c] + Pending(c)
      BY DEF IInv, Counts
    <3>5. QED BY <3>1, <3>2, <3>3, <3>4
  <2>2. QED BY <2>1 DEF Counts
<1>9. Scratch' /\ SigWhole' /\ MatchesDirectSign' /\ AnswerComplete'
  BY <1>1, <1>3 DEF IInv, Scratch, SigWhole, MatchesDirectSign, AnswerComplete,
                    Complete, Idle, Preparing
<1>10. QED BY <1>5, <1>6, <1>7, <1>8, <1>9 DEF IInv

-----------------------------------------------------------------------------
(***************************************************************************)
(* crypto_sign_finalize, Sign_Finalize and the caller's copies.            *)
(***************************************************************************)

\* A live buffer holds a commitment, and counting it adds one to its count.
LEMMA Counting ==
  ASSUME IInv, NEW b \in Buf, NEW f \in [Commitment -> Nat]
  PROVE  /\ Live(buf[b]) <=> buf[b].rnd \in Commitment
         /\ Counted(f, b) \in [Commitment -> Nat]
         /\ \A c \in Commitment :
              Counted(f, b)[c] = IF buf[b].rnd = c THEN f[c] + 1 ELSE f[c]
<1>1. buf[b].rnd \in 0..MaxPrepares
  BY DEF IInv, Types, Buffer
<1>2. Live(buf[b]) <=> buf[b].rnd \in Commitment
  BY <1>1, PreSignAssumption DEF Live, Commitment
<1>3. CASE Live(buf[b])
  BY <1>2, <1>3 DEF Counted
<1>4. CASE ~Live(buf[b])
  BY <1>2, <1>4 DEF Counted
<1>5. QED BY <1>2, <1>3, <1>4

LEMMA FinalizeStartPreserves ==
  ASSUME IInv, NEW b \in Buf, NEW k \in Key, NEW m \in Msg,
         NEW level \in {"crypto", "raw"}, FinalizeStart(b, k, m, level)
  PROVE  IInv'
<1>1. /\ call.pc = "idle"
      /\ (level = "raw" /\ Live(buf[b])) => kept[buf[b].rnd] < MaxKept
      /\ kept' = IF level = "raw" THEN Counted(kept, b) ELSE kept
      /\ used' = Counted(used, b)
      /\ call'.pc = "demask" /\ call'.op = level /\ call'.b = b /\ call'.k = k
      /\ call'.given = buf[b]
      /\ {"pc", "op", "ret", "b", "k", "m", "given"} \subseteq DOMAIN call'
      /\ UNCHANGED <<buf, sig, siglen, data, made, spent>>
  BY DEF FinalizeStart, Idle
<1>2. ~Preparing /\ ~Preparing' /\ ~Finalising /\ Finalising'
  BY <1>1 DEF Preparing, Finalising
<1>3. used \in [Commitment -> Nat] /\ kept \in [Commitment -> 0..MaxKept]
      /\ kept \in [Commitment -> Nat] /\ MaxKept \in Nat
  BY PreSignAssumption DEF IInv, Types
<1>4. /\ used' \in [Commitment -> Nat]
      /\ \A c \in Commitment :
           used'[c] = IF buf[b].rnd = c THEN used[c] + 1 ELSE used[c]
  BY <1>1, <1>3, Counting
<1>5. /\ kept' \in [Commitment -> 0..MaxKept]
      /\ \A c \in Commitment :
           kept'[c] = IF level = "raw" /\ buf[b].rnd = c THEN kept[c] + 1 ELSE kept[c]
  <2>1. CASE level = "raw"
    <3>1. \A c \in Commitment :
            kept'[c] = IF buf[b].rnd = c THEN kept[c] + 1 ELSE kept[c]
      BY <1>1, <1>3, <2>1, Counting
    <3>2. kept' \in [Commitment -> Nat]
      BY <1>1, <1>3, <2>1, Counting
    <3>3. ASSUME NEW c \in Commitment
          PROVE  kept'[c] \in 0..MaxKept
      <4>1. CASE buf[b].rnd = c
        <5>1. kept[c] < MaxKept
          BY <1>1, <2>1, <4>1, <1>3, Counting
        <5>2. QED BY <1>3, <3>1, <4>1, <5>1
      <4>2. CASE buf[b].rnd # c
        BY <1>3, <3>1, <4>2
      <4>3. QED BY <4>1, <4>2
    <3>4. QED BY <2>1, <3>1, <3>2, <3>3
  <2>2. CASE level # "raw"
    BY <1>1, <1>3, <2>2
  <2>3. QED BY <2>1, <2>2
<1>6. Types' /\ CallKnown'
  BY <1>1, <1>2, <1>4, <1>5 DEF IInv, Types, CallKnown
<1>7. Contents'
  BY <1>1, <1>2 DEF IInv, Contents
<1>8. Fresh'
  <2>1. \A c \in Commitment : c > made => used'[c] = 0
    <3>1. buf[b].rnd \in Nat /\ buf[b].rnd <= made /\ made \in Nat
      BY PreSignAssumption DEF IInv, Types, Fresh, Buffer
    <3>2. QED BY <1>4, <3>1, PreSignAssumption DEF IInv, Fresh, Commitment
  <2>2. QED BY <1>1, <2>1 DEF IInv, Fresh
<1>9. Counts'
  <2>1. ASSUME NEW c \in Commitment
        PROVE  used'[c] + HoldersOf(c)' <= 1 + kept'[c] + Pending(c)'
    <3>1. /\ Pending(c) = 0 /\ used[c] \in Nat /\ kept[c] \in Nat
          /\ HoldersOf(c)' = HoldersOf(c) /\ HoldersOf(c) \in Nat
      <4>1. HoldersOf(c) \in Nat
        BY HoldersFinite DEF HoldersOf, Holders
      <4>2. HoldersOf(c)' = HoldersOf(c)
        BY <1>1 DEF HoldersOf
      <4>3. QED BY <1>2, <1>3, <4>1, <4>2 DEF Pending
    <3>2. Pending(c)' = IF level = "crypto" /\ buf[b].rnd = c THEN 1 ELSE 0
      BY <1>1, <1>2 DEF Pending
    <3>3. used[c] + HoldersOf(c) <= 1 + kept[c] + Pending(c)
      BY DEF IInv, Counts
    <3>4. CASE buf[b].rnd = c
      BY <1>4, <1>5, <3>1, <3>2, <3>3, <3>4
    <3>5. CASE buf[b].rnd # c
      BY <1>4, <1>5, <3>1, <3>2, <3>3, <3>5
    <3>6. QED BY <3>4, <3>5
  <2>2. QED BY <2>1 DEF Counts
<1>10. Scratch' /\ SigWhole' /\ MatchesDirectSign' /\ AnswerComplete'
  BY <1>1 DEF IInv, Scratch, SigWhole, MatchesDirectSign, AnswerComplete,
              Complete, Idle
<1>11. QED BY <1>6, <1>7, <1>8, <1>9, <1>10 DEF IInv

LEMMA FinalizeDemaskPreserves ==
  ASSUME IInv, FinalizeDemask
  PROVE  IInv'
<1>1. /\ call.pc = "demask" /\ call' = [call EXCEPT !.pc = "open"]
      /\ data' = Demasked(buf[call.b], call.k)
      /\ sig' = [sig EXCEPT !.salt = data'[2]]
      /\ UNCHANGED <<buf, siglen, made, used, kept, spent>>
  BY Layouts DEF FinalizeDemask
<1>2. /\ Finalising /\ ~Preparing
      /\ call.b \in Buf /\ call.k \in Key /\ call.op \in {"crypto", "raw"}
      /\ {"pc", "op", "ret", "b", "k", "m", "given"} \subseteq DOMAIN call
      /\ call.given = buf[call.b] /\ buf[call.b] \in Buffer
      /\ {"id", "salt", "opening"} \subseteq DOMAIN sig
  BY <1>1 DEF Preparing, Finalising, IInv, CallKnown, Types
<1>3. /\ call'.pc = "open" /\ DOMAIN call' = DOMAIN call
      /\ call'.op = call.op /\ call'.b = call.b /\ call'.k = call.k
      /\ call'.given = call.given
      /\ sig'.salt = data'[2] /\ DOMAIN sig' = DOMAIN sig
  BY <1>1, <1>2
<1>4. Finalising' /\ ~Preparing'
  BY <1>3 DEF Finalising, Preparing
<1>5. data' \in [1..4 -> Slot] /\ \A i \in 1..4 : data'[i].mask = NoMask
  BY <1>1, <1>2, DemaskTypes
<1>6. Types' /\ CallKnown'
  BY <1>1, <1>2, <1>3, <1>4, <1>5 DEF IInv, Types, CallKnown
<1>7. Contents' /\ Fresh'
  BY <1>1, <1>2, <1>3, <1>4 DEF IInv, Contents, Fresh
<1>8. Counts'
  BY <1>1, <1>2, <1>3, <1>4, SameHolders DEF IInv, Pending
<1>9. Scratch' /\ SigWhole' /\ MatchesDirectSign' /\ AnswerComplete'
  BY <1>1, <1>3 DEF Scratch, SigWhole, MatchesDirectSign, AnswerComplete, Idle
<1>10. QED BY <1>6, <1>7, <1>8, <1>9 DEF IInv

\* However Sign_Finalize() ends, its epilogue clears the scratch copy, and the
\* presig at the level of crypto_sign: what was pending is gone with its holder.
LEMMA EpiloguePreserves ==
  ASSUME IInv, Finalising, NEW r \in {0, 1}, Epilogue(r),
         UNCHANGED <<made, used, kept>>,
         {"id", "salt", "opening"} \subseteq DOMAIN sig'
  PROVE  /\ Types' /\ CallKnown' /\ Contents' /\ Fresh' /\ Counts' /\ Scratch'
         /\ call'.pc = "idle" /\ call'.ret = r
         /\ call'.op = call.op /\ call'.k = call.k /\ call'.m = call.m
         /\ call'.given = buf[call.b]
         /\ call.op = "crypto" => siglen' = 1 - r
<1> DEFINE b == call.b
<1>1. /\ call' = [call EXCEPT !.pc = "idle", !.ret = r]
      /\ data' = [i \in 1..4 |-> Zero]
      /\ siglen' = IF call.op = "crypto" THEN (IF r = 0 THEN 1 ELSE 0) ELSE siglen
      /\ buf' = IF call.op = "crypto" THEN [buf EXCEPT ![b] = ZeroedBuf] ELSE buf
      /\ spent' = IF call.op = "crypto" /\ Live(buf[b]) THEN spent \cup {b} ELSE spent
  BY DEF Epilogue, Return, WipesAfter
<1>2. /\ ~Preparing /\ b \in Buf /\ call.op \in {"crypto", "raw"}
      /\ {"pc", "op", "ret", "b", "k", "m", "given"} \subseteq DOMAIN call
      /\ call.given = buf[b] /\ buf \in [Buf -> Buffer]
  BY DEF Preparing, Finalising, IInv, CallKnown, Types
<1>3. /\ call'.pc = "idle" /\ call'.ret = r /\ DOMAIN call' = DOMAIN call
      /\ call'.op = call.op /\ call'.k = call.k /\ call'.m = call.m
      /\ call'.given = buf[b]
  BY <1>1, <1>2
<1>4. ~Preparing' /\ ~Finalising'
  BY <1>3 DEF Preparing, Finalising
<1>5. /\ buf' \in [Buf -> Buffer]
      /\ \A x \in Buf \ {b} : buf'[x] = buf[x]
      /\ call.op = "crypto" => buf'[b] = ZeroedBuf
      /\ call.op = "raw" => buf' = buf
  BY <1>1, <1>2, Zeroed
<1>6. Types'
  <2>1. data' \in [1..4 -> Slot] /\ \A i \in 1..4 : data'[i].mask = NoMask
    BY <1>1, Zeroed
  <2>2. siglen' \in {0, 1} /\ spent' \subseteq Buf
    BY <1>1, <1>2 DEF IInv, Types
  <2>3. QED BY <1>5, <2>1, <2>2 DEF IInv, Types
<1>7. CallKnown'
  BY <1>2, <1>3, <1>4 DEF CallKnown
<1>8. \A x \in Buf : buf'[x] = buf[x] \/ buf'[x] = ZeroedBuf
  BY <1>2, <1>5
<1>9. Contents'
  BY <1>2, <1>3, <1>4, <1>8 DEF IInv, Contents
<1>10. Fresh'
  BY <1>8, Zeroed, PreSignAssumption DEF IInv, Types, Fresh
<1>11. Counts'
  <2>1. ASSUME NEW c \in Commitment
        PROVE  used'[c] + HoldersOf(c)' <= 1 + kept'[c] + Pending(c)'
    <3>1. /\ Pending(c)' = 0 /\ used[c] \in Nat /\ kept[c] \in Nat
          /\ Pending(c) = IF call.op = "crypto" /\ buf[b].rnd = c THEN 1 ELSE 0
      BY <1>4, PreSignAssumption DEF Pending, IInv, Types
    <3>2. /\ HoldersOf(c) = Cardinality(Holders(buf, c)) /\ HoldersOf(c) \in Nat
          /\ HoldersOf(c)' = Cardinality(Holders(buf', c)) /\ HoldersOf(c)' \in Nat
      BY HoldersFinite DEF HoldersOf, Holders
    <3>3. used[c] + HoldersOf(c) <= 1 + kept[c] + Pending(c)
      BY DEF IInv, Counts
    <3>4. CASE call.op = "crypto"
      <4>1. buf'[b].rnd # c /\ \A x \in Buf \ {b} : buf'[x].rnd = buf[x].rnd
        BY <1>5, <3>4, Zeroed, PreSignAssumption DEF Commitment
      <4>2. /\ Cardinality(Holders(buf', c)) <= Cardinality(Holders(buf, c))
            /\ buf[b].rnd = c =>
                 Cardinality(Holders(buf', c)) = Cardinality(Holders(buf, c)) - 1
        BY <1>2, <4>1, HolderGone
      <4>3. QED BY <3>1, <3>2, <3>3, <3>4, <4>2
    <3>5. CASE call.op = "raw"
      <4>1. HoldersOf(c)' = HoldersOf(c)
        BY <1>5, <3>2, <3>5
      <4>2. QED BY <3>1, <3>2, <3>3, <3>5, <4>1
    <3>6. QED BY <1>2, <3>4, <3>5
  <2>2. QED BY <2>1 DEF Counts
<1>12. Scratch'
  BY <1>3 DEF Scratch
<1>13. QED
  BY <1>1, <1>3, <1>6, <1>7, <1>9, <1>10, <1>11, <1>12

\* Removing the mask of a sealed buffer with its own key gives the payload.
LEMMA Unsealed ==
  ASSUME NEW b \in Buffer, NEW kk \in Key, Sealed(b, kk), NEW k \in Key,
         b.slots[1].mask = <<k, b.rnd>>
  PROVE  Demasked(b, k) = Payload(b.rnd)
<1>1. b.slots[1].mask = <<kk, b.rnd>>
  BY DEF Sealed
<1>2. <<k, b.rnd>> = <<kk, b.rnd>>
  BY <1>1
<1>3. k = kk
  BY <1>2
<1>4. \A i \in 1..4 : b.slots[i] = [field |-> PrepareLayout[i], com |-> b.rnd,
                                   mask |-> <<k, b.rnd>>]
  BY <1>3 DEF Sealed
<1>5. QED BY <1>4 DEF Demasked, Payload, Plain

LEMMA FinalizeOpenPreserves ==
  ASSUME IInv, FinalizeOpen
  PROVE  IInv'
<1>1. /\ call.pc = "open" /\ Epilogue(0) /\ UNCHANGED <<made, used, kept>>
      /\ sig' = Signature(data[1], sig.salt, data[3], data[4], call.m)
  BY Layouts DEF FinalizeOpen
<1>2. Finalising
  BY <1>1 DEF Finalising
<1>3. /\ {"id", "salt", "opening"} \subseteq DOMAIN sig'
      /\ Complete(sig')
  BY <1>1 DEF Signature, Complete
<1>4. /\ Types' /\ CallKnown' /\ Contents' /\ Fresh' /\ Counts' /\ Scratch'
      /\ call'.pc = "idle" /\ call'.ret = 0
      /\ call'.op = call.op /\ call'.k = call.k /\ call'.m = call.m
      /\ call'.given = buf[call.b]
      /\ call.op = "crypto" => siglen' = 1
  BY <1>1, <1>2, <1>3, EpiloguePreserves
<1>5. MatchesDirectSign'
  <2>1. ASSUME Live(call'.given),
               call'.given.slots[1].mask = <<call'.k, call'.given.rnd>>
        PROVE  sig' = DirectSign(call'.given.rnd, call'.m)
    <3> DEFINE b == buf[call.b]
    <3>1. /\ b \in Buffer /\ call.k \in Key
          /\ b = ZeroedBuf \/ \E kk \in Key : Sealed(b, kk)
      BY <1>2 DEF IInv, Types, CallKnown, Contents, Preparing, Finalising
    <3>2. PICK kk \in Key : Sealed(b, kk)
      BY <1>4, <2>1, <3>1, Zeroed DEF Live
    <3>3. Demasked(b, call.k) = Payload(b.rnd)
      BY <1>4, <2>1, <3>1, <3>2, Unsealed
    <3>4. data = Payload(b.rnd) /\ sig.salt = data[2]
      BY <1>1, <3>3 DEF IInv, Scratch
    <3>5. /\ data[1] = Plain("id", b.rnd) /\ sig.salt = Plain("salt", b.rnd)
          /\ data[3] = Plain("alpha1", b.rnd) /\ data[4] = Plain("ckey", b.rnd)
      BY <3>4, Layouts DEF Payload
    <3>6. QED BY <1>1, <1>4, <3>5 DEF DirectSign
  <2>2. QED BY <2>1 DEF MatchesDirectSign
<1>6. SigWhole' /\ AnswerComplete'
  BY <1>3, <1>4 DEF SigWhole, AnswerComplete
<1>7. QED BY <1>4, <1>5, <1>6 DEF IInv

LEMMA FinalizeFailsPreserves ==
  ASSUME IInv, FinalizeFails
  PROVE  IInv'
<1>1. /\ Finalising /\ Epilogue(1) /\ UNCHANGED <<made, used, kept>>
      /\ sig' = ZeroedSig
  BY DEF FinalizeFails, Finalising, AfterFinalizeError
<1>2. {"id", "salt", "opening"} \subseteq DOMAIN sig' /\ ~Complete(sig')
  BY <1>1 DEF ZeroedSig, Complete
<1>3. /\ Types' /\ CallKnown' /\ Contents' /\ Fresh' /\ Counts' /\ Scratch'
      /\ call'.pc = "idle" /\ call'.ret = 1 /\ call'.op = call.op
      /\ call.op = "crypto" => siglen' = 0
  BY <1>1, <1>2, EpiloguePreserves
<1>4. SigWhole' /\ MatchesDirectSign' /\ AnswerComplete'
  BY <1>1, <1>2, <1>3 DEF SigWhole, MatchesDirectSign, AnswerComplete
<1>5. QED BY <1>3, <1>4 DEF IInv

LEMMA FinalizeTooLongPreserves ==
  ASSUME IInv, NEW b \in Buf, NEW k \in Key, FinalizeTooLong(b, k)
  PROVE  IInv'
<1>1. /\ call.pc = "idle" /\ call'.pc = "idle" /\ call'.op = "toolong"
      /\ {"pc", "op", "ret"} \subseteq DOMAIN call'
      /\ buf' = [buf EXCEPT ![b] = ZeroedBuf]
      /\ siglen' = 0 /\ used' = Counted(used, b)
      /\ UNCHANGED <<sig, data, made, kept, spent>>
  BY DEF FinalizeTooLong, Idle
<1>2. ~Preparing /\ ~Preparing' /\ ~Finalising /\ ~Finalising'
  BY <1>1 DEF Preparing, Finalising
<1>3. /\ buf \in [Buf -> Buffer] /\ used \in [Commitment -> Nat]
      /\ kept \in [Commitment -> Nat]
  BY PreSignAssumption DEF IInv, Types
<1>4. /\ buf' \in [Buf -> Buffer] /\ buf'[b] = ZeroedBuf /\ buf'[b].rnd = 0
      /\ \A x \in Buf \ {b} : buf'[x] = buf[x]
  BY <1>1, <1>3, Zeroed
<1>5. /\ used' \in [Commitment -> Nat]
      /\ \A c \in Commitment :
           used'[c] = IF buf[b].rnd = c THEN used[c] + 1 ELSE used[c]
  BY <1>1, <1>3, Counting
<1>6. Types' /\ CallKnown'
  BY <1>1, <1>2, <1>4, <1>5 DEF IInv, Types, CallKnown
<1>7. Contents'
  BY <1>1, <1>2, <1>4 DEF IInv, Contents
<1>8. Fresh'
  <2>1. buf[b].rnd \in Nat /\ buf[b].rnd <= made /\ made \in Nat
    BY PreSignAssumption DEF IInv, Types, Fresh, Buffer
  <2>2. \A c \in Commitment : c > made => used'[c] = 0
    BY <1>5, <2>1, PreSignAssumption DEF IInv, Fresh, Commitment
  <2>3. \A x \in Buf : buf'[x].rnd <= made
    BY <1>4, <2>1 DEF IInv, Fresh
  <2>4. QED BY <1>1, <2>2, <2>3 DEF Fresh
<1>9. Counts'
  <2>1. ASSUME NEW c \in Commitment
        PROVE  used'[c] + HoldersOf(c)' <= 1 + kept'[c] + Pending(c)'
    <3>1. /\ Pending(c) = 0 /\ Pending(c)' = 0
          /\ used[c] \in Nat /\ kept[c] \in Nat
          /\ kept' = kept
      BY <1>1, <1>2, <1>3 DEF Pending
    <3>2. /\ HoldersOf(c) = Cardinality(Holders(buf, c)) /\ HoldersOf(c) \in Nat
          /\ HoldersOf(c)' = Cardinality(Holders(buf', c)) /\ HoldersOf(c)' \in Nat
      BY HoldersFinite DEF HoldersOf, Holders
    <3>3. buf'[b].rnd # c /\ \A x \in Buf \ {b} : buf'[x].rnd = buf[x].rnd
      BY <1>4, PreSignAssumption DEF Commitment
    <3>4. /\ Cardinality(Holders(buf', c)) <= Cardinality(Holders(buf, c))
          /\ buf[b].rnd = c =>
               Cardinality(Holders(buf', c)) = Cardinality(Holders(buf, c)) - 1
      BY <3>3, HolderGone
    <3>5. used[c] + HoldersOf(c) <= 1 + kept[c] + Pending(c)
      BY DEF IInv, Counts
    <3>6. QED BY <1>5, <3>1, <3>2, <3>4, <3>5
  <2>2. QED BY <2>1 DEF Counts
<1>10. Scratch' /\ SigWhole' /\ MatchesDirectSign' /\ AnswerComplete'
  BY <1>1 DEF IInv, Scratch, SigWhole, MatchesDirectSign, AnswerComplete,
              Complete, Idle
<1>11. QED BY <1>6, <1>7, <1>8, <1>9, <1>10 DEF IInv

LEMMA CopyPreserves ==
  ASSUME IInv, NEW from \in Buf, NEW to \in Buf, Copy(from, to)
  PROVE  IInv'
<1>1. /\ call.pc = "idle" /\ Live(buf[from]) /\ kept[buf[from].rnd] < MaxKept
      /\ buf' = [buf EXCEPT ![to] = buf[from]]
      /\ kept' = Counted(kept, from)
      /\ spent' = spent \ {to}
      /\ UNCHANGED <<sig, siglen, call, data, made, used>>
  BY DEF Copy, Idle
<1>2. ~Preparing /\ ~Preparing' /\ ~Finalising /\ ~Finalising'
  BY <1>1 DEF Preparing, Finalising
<1>3. /\ buf \in [Buf -> Buffer] /\ used \in [Commitment -> Nat]
      /\ kept \in [Commitment -> 0..MaxKept] /\ kept \in [Commitment -> Nat]
      /\ MaxKept \in Nat
  BY PreSignAssumption DEF IInv, Types
<1>4. /\ buf' \in [Buf -> Buffer] /\ buf'[to] = buf[from]
      /\ \A x \in Buf \ {to} : buf'[x] = buf[x]
  BY <1>1, <1>3
<1>5. /\ kept' \in [Commitment -> Nat]
      /\ \A c \in Commitment :
           kept'[c] = IF buf[from].rnd = c THEN kept[c] + 1 ELSE kept[c]
  BY <1>1, <1>3, Counting
<1>6. kept' \in [Commitment -> 0..MaxKept]
  <2>1. \A c \in Commitment : kept'[c] \in 0..MaxKept
    BY <1>1, <1>3, <1>5
  <2>2. QED BY <1>5, <2>1
<1>7. Types' /\ CallKnown'
  BY <1>1, <1>2, <1>4, <1>6 DEF IInv, Types, CallKnown
<1>8. Contents' /\ Fresh'
  BY <1>1, <1>2, <1>4 DEF IInv, Contents, Fresh
<1>9. Counts'
  <2>1. ASSUME NEW c \in Commitment
        PROVE  used'[c] + HoldersOf(c)' <= 1 + kept'[c] + Pending(c)'
    <3>1. /\ Pending(c) = 0 /\ Pending(c)' = 0
          /\ used[c] \in Nat /\ kept[c] \in Nat
          /\ used' = used
      BY <1>1, <1>2, <1>3 DEF Pending
    <3>2. /\ HoldersOf(c) = Cardinality(Holders(buf, c)) /\ HoldersOf(c) \in Nat
          /\ HoldersOf(c)' = Cardinality(Holders(buf', c)) /\ HoldersOf(c)' \in Nat
      BY HoldersFinite DEF HoldersOf, Holders
    <3>3. used[c] + HoldersOf(c) <= 1 + kept[c] + Pending(c)
      BY DEF IInv, Counts
    <3>4. \A x \in Buf \ {to} : buf'[x].rnd = buf[x].rnd
      BY <1>4
    <3>5. CASE buf[from].rnd = c
      <4>1. Cardinality(Holders(buf', c)) <= Cardinality(Holders(buf, c)) + 1
        BY <3>4, HolderAdded
      <4>2. QED BY <1>5, <3>1, <3>2, <3>3, <3>5, <4>1
    <3>6. CASE buf[from].rnd # c
      <4>1. buf'[to].rnd # c
        BY <1>4, <3>6
      <4>2. Cardinality(Holders(buf', c)) <= Cardinality(Holders(buf, c))
        BY <3>4, <4>1, HolderGone
      <4>3. QED BY <1>5, <3>1, <3>2, <3>3, <3>6, <4>2
    <3>7. QED BY <3>5, <3>6
  <2>2. QED BY <2>1 DEF Counts
<1>10. Scratch' /\ SigWhole' /\ MatchesDirectSign' /\ AnswerComplete'
  BY <1>1 DEF IInv, Scratch, SigWhole, MatchesDirectSign, AnswerComplete,
              Complete, Idle
<1>11. QED BY <1>7, <1>8, <1>9, <1>10 DEF IInv

-----------------------------------------------------------------------------
(***************************************************************************)
(* The specification.                                                      *)
(***************************************************************************)

LEMMA NextPreserves ==
  ASSUME IInv, [Next]_vars
  PROVE  IInv'
<1>1. ASSUME NEW b \in Buf, NEW k \in Key,
             RandomFails(b, k) \/ PrepareStart(b, k) \/ FinalizeTooLong(b, k)
      PROVE  IInv'
  BY <1>1, RandomFailsPreserves, PrepareStartPreserves, FinalizeTooLongPreserves
<1>2. CASE PrepareFill
  BY <1>2, PrepareFillPreserves
<1>3. CASE PrepareMask
  BY <1>3, PrepareMaskPreserves
<1>4. CASE PrepareFails
  BY <1>4, PrepareFailsPreserves
<1>5. ASSUME NEW b \in Buf, NEW k \in Key, NEW m \in Msg,
             NEW level \in {"crypto", "raw"}, FinalizeStart(b, k, m, level)
      PROVE  IInv'
  BY <1>5, FinalizeStartPreserves
<1>6. CASE FinalizeDemask
  BY <1>6, FinalizeDemaskPreserves
<1>7. CASE FinalizeOpen
  BY <1>7, FinalizeOpenPreserves
<1>8. CASE FinalizeFails
  BY <1>8, FinalizeFailsPreserves
<1>9. ASSUME NEW from \in Buf, NEW to \in Buf, Copy(from, to)
      PROVE  IInv'
  BY <1>9, CopyPreserves
<1>10. CASE UNCHANGED vars
  <2>1. UNCHANGED <<buf, sig, siglen, call, data, made, used, kept, spent>>
    BY <1>10 DEF vars
  <2>2. Types' /\ CallKnown' /\ Contents' /\ Fresh'
    BY <2>1 DEF IInv, Types, CallKnown, Contents, Fresh, Preparing, Finalising
  <2>3. Counts'
    BY <2>1, SameHolders DEF IInv, Pending, Finalising
  <2>4. Scratch' /\ SigWhole' /\ MatchesDirectSign' /\ AnswerComplete'
    BY <2>1 DEF IInv, Scratch, SigWhole, MatchesDirectSign, AnswerComplete,
                Complete, Idle
  <2>5. QED BY <2>2, <2>3, <2>4 DEF IInv
<1>11. QED
  BY <1>1, <1>2, <1>3, <1>4, <1>5, <1>6, <1>7, <1>8, <1>9, <1>10 DEF Next

LEMMA InitEstablishes ==
  ASSUME Init
  PROVE  IInv
<1>1. /\ call.pc = "idle" /\ call.op = "none"
      /\ {"pc", "op", "ret"} \subseteq DOMAIN call
  BY DEF Init
<1>2. ~Preparing /\ ~Finalising
  BY <1>1 DEF Preparing, Finalising
<1>3. Types
  <2>1. buf \in [Buf -> Buffer] /\ data \in [1..4 -> Slot]
    BY Zeroed DEF Init
  <2>2. \A i \in 1..4 : data[i].mask = NoMask
    BY Zeroed DEF Init
  <2>3. {"id", "salt", "opening"} \subseteq DOMAIN sig
    BY DEF Init, ZeroedSig
  <2>4. QED BY <2>1, <2>2, <2>3, PreSignAssumption DEF Init, Types
<1>4. CallKnown /\ Contents /\ Fresh
  <2>1. \A b \in Buf : buf[b] = ZeroedBuf /\ buf[b].rnd = 0
    BY Zeroed DEF Init
  <2>2. made = 0 /\ \A c \in Commitment : used[c] = 0
    BY DEF Init
  <2>3. QED BY <1>1, <1>2, <2>1, <2>2 DEF CallKnown, Contents, Fresh
<1>5. Counts
  <2>1. ASSUME NEW c \in Commitment
        PROVE  used[c] + HoldersOf(c) <= 1 + kept[c] + Pending(c)
    <3>1. used[c] = 0 /\ kept[c] = 0 /\ Pending(c) = 0
      BY <1>2 DEF Init, Pending
    <3>2. \A b \in Buf : buf[b].rnd # c
      BY Zeroed, PreSignAssumption DEF Init, Commitment
    <3>3. {b \in Buf : buf[b].rnd = c} = {}
      BY <3>2
    <3>4. HoldersOf(c) = 0
      BY <3>3, FS_EmptySet DEF HoldersOf
    <3>5. QED BY <3>1, <3>4
  <2>2. QED BY <2>1 DEF Counts
<1>6. Scratch /\ SigWhole /\ MatchesDirectSign /\ AnswerComplete
  BY <1>1 DEF Init, Scratch, SigWhole, MatchesDirectSign, AnswerComplete
<1>7. QED BY <1>3, <1>4, <1>5, <1>6 DEF IInv

LEMMA Invariance == Spec => []IInv
BY InitEstablishes, NextPreserves, PTL DEF Spec

-----------------------------------------------------------------------------
(***************************************************************************)
(* What the runs check, for every value of the constants.                  *)
(***************************************************************************)

\* Between calls no buffer of the caller holds any payload in clear, whichever
\* call inside the library failed.
THEOREM NothingInClear == Spec => []NoPlaintextLeft
<1>1. IInv => NoPlaintextLeft
  <2>1. SUFFICES ASSUME IInv, Idle, NEW b \in Buf, buf[b] # ZeroedBuf
                 PROVE  \A i \in 1..4 : buf[b].slots[i].mask # NoMask
    BY DEF NoPlaintextLeft
  <2>2. PICK k \in Key : Sealed(buf[b], k)
    BY <2>1 DEF IInv, Contents, Preparing, Idle
  <2>3. \A i \in 1..4 : buf[b].slots[i].mask = <<k, buf[b].rnd>>
    BY <2>2 DEF Sealed
  <2>4. <<k, buf[b].rnd>> # NoMask
    BY DEF NoMask
  <2>5. QED BY <2>3, <2>4
<1> QED
  BY Invariance, <1>1, PTL

\* A presig serves one message, and one more for each copy the caller keeps.
THEOREM OneUse == Spec => []UsedOncePerPresig
<1>1. IInv => UsedOncePerPresig
  <2>1. SUFFICES ASSUME IInv, Idle, NEW c \in Commitment
                 PROVE  used[c] + HoldersOf(c) <= 1 + kept[c]
    BY DEF UsedOncePerPresig
  <2>2. Pending(c) = 0 /\ kept[c] \in Nat
    BY <2>1, PreSignAssumption DEF Pending, Finalising, Idle, IInv, Types
  <2>3. used[c] + HoldersOf(c) <= 1 + kept[c] + Pending(c)
    BY <2>1 DEF IInv, Counts
  <2>4. QED BY <2>2, <2>3
<1> QED
  BY Invariance, <1>1, PTL

\* What finalisation answers is the signature Sign() makes of the same
\* commitment and message, or nothing at all.
THEOREM Answers == Spec => []AnswersAreSignatures
<1>1. IInv => AnswersAreSignatures
  <2>1. SUFFICES ASSUME IInv
                 PROVE  TypeOK
    BY DEF IInv, AnswersAreSignatures
  <2>2. DOMAIN buf = Buf /\ \A b \in Buf : /\ buf[b].rnd \in 0..MaxPrepares
                                           /\ \A i \in 1..4 : buf[b].slots[i] \in Slot
    BY <2>1 DEF IInv, Types, Buffer
  <2>3. QED BY <2>1, <2>2 DEF IInv, Types, CallKnown, TypeOK
<1> QED
  BY Invariance, <1>1, PTL

=============================================================================
