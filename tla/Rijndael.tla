------------------------------- MODULE Rijndael -------------------------------
(***************************************************************************)
(* The block ciphers of three builds (src/rijndael): the C reference,      *)
(* AES-NI, and VAES with registers of 128, 256 or 512 bits. A call keys    *)
(* its contexts, then encrypts: one block, two, four or eight blocks under *)
(* as many keys, from separate contexts or from one that holds them all,   *)
(* or the blocks of a buffer under one key.                                *)
(*                                                                         *)
(* The reference gives the bytes and words their names. <<b, k, r, p>> is  *)
(* byte p of block b after round r of its encryption under key k; k is 0   *)
(* before the first key is added. A byte that no step of the reference     *)
(* computes is Garbled. A word of a key schedule is a set of atoms, the    *)
(* words it is the exclusive or of: words of the key, S-box images of      *)
(* words of the schedule, constants of a round. A wrong byte taken by a    *)
(* round, a key of another round or block, or a MixColumns too many thus   *)
(* leaves Garbled, and Garbled stays. The keys are pairwise different.     *)
(***************************************************************************)
EXTENDS Integers, Sequences, FiniteSetsExt, SequencesExt

VARIABLES
  rj_call,   \* [impl, alg, op : STRING, flags : SUBSET STRING, n : Nat];
             \* n blocks, flags are the RIJNDAEL_VAES macros that are defined
  rj_pc,     \* "setkey", "enc", "done" or "off"
  rj_ctx,    \* the contexts
  rj_out     \* [ret, ct]: what the call returns and the ciphertext blocks

rj_vars == <<rj_call, rj_pc, rj_ctx, rj_out>>

Algs == {"aes128", "aes256", "rijndael256"}
Keys == 1 .. 8
Nk == [aes128 |-> 4, aes256 |-> 8, rijndael256 |-> 8]
Nb == [aes128 |-> 4, aes256 |-> 4, rijndael256 |-> 8]
Nr == [aes128 |-> 10, aes256 |-> 14, rijndael256 |-> 14]

\* From first to last - 1 in steps.
Counted(first, last, step) == [x \in 1 .. (last - first + step - 1) \div step |-> first + step * (x - 1)]

\* A loop over the sequence xs, then what is stored of the state it leaves. The
\* bound names make TLC evaluate a state once, not at each of its uses.
Looped(start, xs, step(_, _), stored(_)) ==
  LET last == FoldLeft(LAMBDA s, x : CHOOSE t \in {step(u, x) : u \in {s}} : TRUE, start, xs)
  IN  CHOOSE t \in {stored(u) : u \in {last}} : TRUE

Same(x) == x

(***************************************************************************)
(* The reference: key schedules.                                           *)
(***************************************************************************)
rcon == <<1, 2, 4, 8, 16, 32, 64, 128, 27, 54, 108, 216, 171, 77>>

\* SubWord and SubWord after RotWord, of word i of the schedule of key k.
Sub(k, i) == {<<"sub", k, i>>}
SubRot(k, i) == {<<"subrot", k, i>>}
Constant(value) == IF value = 0 THEN {} ELSE {<<"rcon", value, 0>>}

sched(k, i, n) == SymDiff(SubRot(k, i), Constant(rcon[n]))

RIJNDAEL_SETKEY_ENC(alg, k) ==
  LET nk == Nk[alg]
      words == Nb[alg] * (Nr[alg] + 1)
      next(rk, i) ==
        SymDiff(rk[i - nk + 1], CASE i % nk = 0 -> sched(k, i - 1, i \div nk)
                                 [] i % nk = 4 /\ nk > 6 -> Sub(k, i - 1)
                                 [] OTHER -> rk[i])
  IN  Looped([i \in 1 .. nk |-> {<<"key", k, i - 1>>}], Counted(nk, words, nk),
             LAMBDA rk, from : Looped(rk, Counted(from, Min({from + nk, words}), 1),
                                      LAMBDA s, i : Append(s, next(s, i)), Same),
             Same)

ScheduleOf == [alg \in Algs |-> [k \in Keys |-> RIJNDAEL_SETKEY_ENC(alg, k)]]
KeyWord(alg, k, i) == ScheduleOf[alg][k][i + 1]

(***************************************************************************)
(* The reference: rounds.                                                  *)
(***************************************************************************)
Garbled == <<0, 0, 0, 0>>
Plain(b, size) == [p \in 0 .. size - 1 |-> <<b, 0, 0, p>>]
BlockSizeOf(alg) == 4 * Nb[alg]

\* Where SubBytes and ShiftRows take the bytes from.
SUB_BYTES_SR(nb) ==
  IF nb = 4
  THEN <<0, 5, 10, 15, 4, 9, 14, 3, 8, 13, 2, 7, 12, 1, 6, 11>>
  ELSE <<0, 5, 14, 19, 4, 9, 18, 23, 8, 13, 22, 27, 12, 17, 26, 31,
         16, 21, 30, 3, 20, 25, 2, 7, 24, 29, 6, 11, 28, 1, 10, 15>>

\* Byte row of the column that MixColumns, left out in the last round, and a
\* word of the key make of four bytes.
MixedWithKey(alg, four, word, last, row) ==
  LET b == four[1][1]
      k == four[1][2]
      r == four[1][3]
      column == four[1][4] \div 4
  IN  IF /\ k \in Keys /\ r < Nr[alg]
         /\ \A i \in 1 .. 4 : four[i] = <<b, k, r, SUB_BYTES_SR(Nb[alg])[(4 * column) + i]>>
         /\ word = KeyWord(alg, k, (Nb[alg] * (r + 1)) + column)
         /\ last <=> (r + 1 = Nr[alg])
      THEN <<b, k, r + 1, (4 * column) + row>>
      ELSE Garbled

\* The first key on a byte of plaintext.
FirstKey(alg, byte, word, row) ==
  LET owners == {k \in Keys : word = KeyWord(alg, k, byte[4] \div 4)}
  IN  IF byte # Garbled /\ byte[2] = 0 /\ byte[4] % 4 = row /\ owners # {}
      THEN <<byte[1], CHOOSE k \in owners : TRUE, 0, byte[4]>>
      ELSE Garbled

ADD_RKEY(alg, m, word) == [j \in DOMAIN m |-> FirstKey(alg, m[j], word[j \div 4], j % 4)]

RIJNDAEL_ENC(alg, block, rk) ==
  LET nb == Nb[alg]
      four(s, column) == [i \in 1 .. 4 |-> s[SUB_BYTES_SR(nb)[(4 * column) + i]]]
  IN  Looped(ADD_RKEY(alg, block, [c \in 0 .. nb - 1 |-> rk[c + 1]]), Counted(1, Nr[alg] + 1, 1),
             LAMBDA s, r : [j \in DOMAIN s |->
               MixedWithKey(alg, four(s, j \div 4), rk[(nb * r) + (j \div 4) + 1], r = Nr[alg], j % 4)],
             Same)

(***************************************************************************)
(* Calls: a return value and the blocks stored. The contexts of a call are *)
(* a sequence, and so are its blocks.                                      *)
(***************************************************************************)
Checked(ctxs, alg, ct) ==
  IF \A e \in DOMAIN ctxs : ctxs[e].rtype = alg THEN [ret |-> 0, ct |-> ct] ELSE [ret |-> -1, ct |-> <<>>]

\* Groups of size blocks, each with its contexts or round keys.
InGroups(size, blocks, keys, kernel(_, _)) ==
  Looped(<<>>, Counted(0, Len(blocks), size),
         LAMBDA ct, x : LET end == Min({x + size, Len(blocks)})
                        IN  ct \o kernel(SubSeq(blocks, x + 1, end), SubSeq(keys, x + 1, end)),
         Same)

RoundKeys(ctxs) == [e \in DOMAIN ctxs |-> ctxs[e].rk]
SameKey(rk, blocks) == [e \in DOMAIN blocks |-> rk]

(***************************************************************************)
(* Buffers of nblocks blocks. A phase of an ECB function is a loop over    *)
(* groups of one size, or takes one group of the first size that fits.     *)
(***************************************************************************)
LoopOf(size, kernel) == [loop |-> TRUE, sizes |-> <<size>>, kernel |-> kernel]
FirstOf(sizes, kernel) == [loop |-> FALSE, sizes |-> sizes, kernel |-> kernel]

\* (wrong on purpose) A loop takes a group more for the blocks left over.
Groups_RoundedUp(left, phase) ==
  LET size == phase.sizes[1]
  IN  [x \in 1 .. (left + size - 1) \div size |-> size]

\* The groups that a phase makes of the blocks left.
Groups(left, phase) ==
  LET fitting == {x \in DOMAIN phase.sizes : phase.sizes[x] <= left}
  IN  IF phase.loop
      THEN [x \in 1 .. left \div phase.sizes[1] |-> phase.sizes[1]]
      ELSE [x \in 1 .. Min({1, Cardinality(fitting)}) |-> phase.sizes[Min(fitting)]]

\* The buffers are followed by blocks of someone else.
Beyond == 16
BlockOf(alg, nblocks, i) ==
  IF i <= nblocks THEN Plain(i, BlockSizeOf(alg)) ELSE [p \in 0 .. BlockSizeOf(alg) - 1 |-> Garbled]
OldBlock(alg, i) == [p \in 0 .. BlockSizeOf(alg) - 1 |-> <<i, 0, -1, p>>]

Ecb(alg, nblocks, phases, kernel(_, _)) ==
  Looped(<<>>, phases,
         LAMBDA done, phase :
           Looped(done, Groups(nblocks - Len(done), phase),
                  LAMBDA ct, size :
                    ct \o kernel(phase.kernel, [e \in 1 .. size |-> BlockOf(alg, nblocks, Len(ct) + e)]),
                  Same),
         LAMBDA ct : ct \o [e \in 1 .. nblocks + Beyond - Len(ct) |-> OldBlock(alg, Len(ct) + e)])

(***************************************************************************)
(* rijndael_ref.c and the macros of rijndael_common.h: block by block.     *)
(***************************************************************************)
RefContext(alg, k) == [rtype |-> alg, rk |-> RIJNDAEL_SETKEY_ENC(alg, k)]

\* enc, enc_x2, enc_x4 and enc_x8.
ref_enc(alg, ctxs, blocks) ==
  Checked(ctxs, alg, [e \in DOMAIN blocks |-> RIJNDAEL_ENC(alg, blocks[e], ctxs[e].rk)])

ref_enc_ecb(alg, ctx, nblocks) ==
  LET phases == <<LoopOf(8, "enc"), FirstOf(<<4>>, "enc"), FirstOf(<<2>>, "enc"), FirstOf(<<1>>, "enc")>>
  IN  Checked(<<ctx>>, alg,
              Ecb(alg, nblocks, phases,
                  LAMBDA p, blocks : [e \in DOMAIN blocks |-> RIJNDAEL_ENC(alg, blocks[e], ctx.rk)]))

(***************************************************************************)
(* Instructions. A register of L lanes has 16 L bytes or 4 L words, from   *)
(* 0 on. k is a round key, last says aesenclast.                           *)
(***************************************************************************)
aesenc(alg, m, k, last) ==
  LET four(j) == [i \in 1 .. 4 |-> m[(16 * (j \div 16)) + SUB_BYTES_SR(4)[(4 * ((j \div 4) % 4)) + i]]]
  IN  [j \in DOMAIN m |-> MixedWithKey(alg, four(j), k[j \div 4], last, j % 4)]

blendv(a, b, mask) == [j \in DOMAIN a |-> IF j % 16 \in mask THEN b[j] ELSE a[j]]
shuffle(a, idx) == [j \in DOMAIN a |-> a[(16 * (j \div 16)) + idx[(j % 16) + 1]]]
swap(a) == [j \in DOMAIN a |-> a[(j + 16) % 32]]
permutex(a, idx) == [j \in DOMAIN a |-> a[idx[j + 1]]]
permutex2(a, idx, b) == [j \in DOMAIN a |-> IF idx[j + 1] < 32 THEN a[idx[j + 1]] ELSE b[idx[j + 1] - 32]]

xor(x, y) == [w \in DOMAIN x |-> SymDiff(x[w], y[w])]
slli(x) == [w \in DOMAIN x |-> IF w % 4 = 0 THEN {} ELSE x[w - 1]]
broadcast(x, word) == [w \in DOMAIN x |-> x[(4 * (w \div 4)) + word]]

\* The S-box on a word. What is not a word of a schedule gets a name of its own.
PlacesOf(alg, word) ==
  {p \in Keys \X (0 .. (Nb[alg] * (Nr[alg] + 1)) - 1) : KeyWord(alg, p[1], p[2]) = word}
SubWord(alg, word) ==
  IF PlacesOf(alg, word) = {} THEN {<<"sub of", word>>}
  ELSE {CHOOSE atom \in {<<"sub", p[1], p[2]>> : p \in PlacesOf(alg, word)} : TRUE}
SubRotWord(alg, word) ==
  IF PlacesOf(alg, word) = {} THEN {<<"subrot of", word>>}
  ELSE {CHOOSE atom \in {<<"subrot", p[1], p[2]>> : p \in PlacesOf(alg, word)} : TRUE}

aeskeygenassist(alg, x, rc) ==
  [w \in 0 .. 3 |-> CASE w = 0 -> SubWord(alg, x[1])
                      [] w = 1 -> SymDiff(SubRotWord(alg, x[1]), Constant(rc))
                      [] w = 2 -> SubWord(alg, x[3])
                      [] w = 3 -> SymDiff(SubRotWord(alg, x[3]), Constant(rc))]

(***************************************************************************)
(* Rounds on registers. The round keys k are registers, from 0 on.         *)
(***************************************************************************)
LanesOf(rks) ==
  [r \in 0 .. Len(rks[1]) - 1 |-> [w \in 0 .. (4 * Len(rks)) - 1 |-> rks[(w \div 4) + 1][r + 1][w % 4]]]

Loaded(blocks, offset) ==
  [j \in 0 .. (16 * Len(blocks)) - 1 |-> blocks[(j \div 16) + 1][offset + (j % 16)]]

AesRounds(alg, rounds, blocks, k) ==
  Looped(ADD_RKEY(alg, Loaded(blocks, 0), k[0]), Counted(1, rounds + 1, 1),
         LAMBDA m, r : aesenc(alg, m, k[r], r = rounds),
         LAMBDA m : [e \in DOMAIN blocks |-> [p \in 0 .. 15 |-> m[(16 * (e - 1)) + p]]])

\* Rijndael-256 from rounds of AES: its ShiftRows in, that of AES out.
blend_mask == {1, 2, 3, 6, 7, 10, 11, 15}
shuffle_mask == <<0, 1, 6, 7, 4, 5, 10, 11, 8, 9, 14, 15, 12, 13, 2, 3>>

COMPENSATE_SR(ml, mr) ==
  <<shuffle(blendv(ml, mr, blend_mask), shuffle_mask), shuffle(blendv(mr, ml, blend_mask), shuffle_mask)>>

\* Left and right halves in a register each.
HalfRounds(compensate(_, _), blocks, k) ==
  LET alg == "rijndael256"
      rounds(s, off) ==
        LET t == compensate(s[1], s[2])
        IN  <<aesenc(alg, t[1], k[off], off = 28), aesenc(alg, t[2], k[off + 1], off = 28)>>
  IN  Looped(<<ADD_RKEY(alg, Loaded(blocks, 0), k[0]),
               ADD_RKEY(alg, Loaded(blocks, 16), k[1])>>,
             Counted(2, 30, 2), rounds,
             LAMBDA s : [e \in DOMAIN blocks |->
               [p \in 0 .. 31 |-> s[(p \div 16) + 1][(16 * (e - 1)) + (p % 16)]]])

(***************************************************************************)
(* Key schedules from aeskeygenassist. The words of a key are loaded from  *)
(* first on.                                                               *)
(***************************************************************************)
KeyRegister(k, first) == [w \in 0 .. 3 |-> {<<"key", k, first + w>>}]

AES_128_KEY_EXP(key, rc) ==
  LET once(x) == xor(x, slli(x))
  IN  xor(once(once(once(key))), broadcast(aeskeygenassist("aes128", key, rc), 3))

\* temp ^ temp << 4 ^ temp << 8 ^ temp << 12
Ladder4(temp) == xor(xor(xor(temp, slli(temp)), slli(slli(temp))), slli(slli(slli(temp))))

KEY_256_ASSIST_1(temp1, temp2) == xor(Ladder4(temp1), broadcast(temp2, 3))
KEY_256_ASSIST_2(alg, temp1, temp3) == xor(Ladder4(temp3), broadcast(aeskeygenassist(alg, temp1, 0), 2))

Scheduled128(k, rcs) ==
  Looped(<<KeyRegister(k, 0)>>, rcs, LAMBDA ks, rc : Append(ks, AES_128_KEY_EXP(Last(ks), rc)), Same)

Assist1(alg, ks, rc) ==
  Append(ks, KEY_256_ASSIST_1(ks[Len(ks) - 1], aeskeygenassist(alg, Last(ks), rc)))
Assist2(alg, ks) == Append(ks, KEY_256_ASSIST_2(alg, Last(ks), ks[Len(ks) - 1]))

\* A second assist follows each first one, except maybe the last.
Scheduled256(alg, k, both, first) ==
  Looped(Looped(<<KeyRegister(k, 0), KeyRegister(k, 4)>>, both,
                LAMBDA ks, rc : Assist2(alg, Assist1(alg, ks, rc)), Same),
         first, LAMBDA ks, rc : Assist1(alg, ks, rc), Same)

(***************************************************************************)
(* rijndael_aes_ni.c: a block per register, in two for Rijndael-256.       *)
(***************************************************************************)
aes128_aes_ni_setkey_enc(k) ==
  [rtype |-> "aes128", rk |-> Scheduled128(k, <<1, 2, 4, 8, 16, 32, 64, 128, 27, 54>>)]
aes256_aes_ni_setkey_enc(k) ==
  [rtype |-> "aes256", rk |-> Scheduled256("aes256", k, <<1, 2, 4, 8, 16, 32>>, <<64>>)]
rijndael256_aes_ni_setkey_enc(k) ==
  [rtype |-> "rijndael256",
   rk |-> Scheduled256("rijndael256", k, <<1, 2, 4, 8, 16, 32, 64, 128, 27, 54, 108, 216, 171, 77>>, <<>>)]

\* One block or several, each with its round keys.
DO_ENC_BLOCK_128_128(blocks, rks) ==
  InGroups(1, blocks, rks, LAMBDA b, r : AesRounds("aes128", 10, b, LanesOf(r)))
DO_ENC_BLOCK_128_256(blocks, rks) ==
  InGroups(1, blocks, rks, LAMBDA b, r : AesRounds("aes256", 14, b, LanesOf(r)))
DO_ENC_BLOCK_256_256(blocks, rks) ==
  InGroups(1, blocks, rks, LAMBDA b, r : HalfRounds(COMPENSATE_SR, b, LanesOf(r)))

\* enc, enc_x2, enc_x4 and enc_x8.
aes128_aes_ni_enc(ctxs, blocks) == Checked(ctxs, "aes128", DO_ENC_BLOCK_128_128(blocks, RoundKeys(ctxs)))
aes256_aes_ni_enc(ctxs, blocks) == Checked(ctxs, "aes256", DO_ENC_BLOCK_128_256(blocks, RoundKeys(ctxs)))
\* Eight blocks are four and four.
rijndael256_aes_ni_enc(ctxs, blocks) ==
  Checked(ctxs, "rijndael256", InGroups(4, blocks, RoundKeys(ctxs), DO_ENC_BLOCK_256_256))

SamekeyPhases == <<LoopOf(8, "samekey"), FirstOf(<<4>>, "samekey"), FirstOf(<<2>>, "samekey"),
                   FirstOf(<<1>>, "samekey")>>

aes_ni_ecb_samekey(alg, rk, blocks) ==
  IF alg = "aes128"
  THEN DO_ENC_BLOCK_128_128(blocks, SameKey(rk, blocks))
  ELSE DO_ENC_BLOCK_128_256(blocks, SameKey(rk, blocks))

aes128_aes_ni_enc_ecb(ctx, nblocks) ==
  Checked(<<ctx>>, "aes128",
          Ecb("aes128", nblocks, SamekeyPhases, LAMBDA p, b : aes_ni_ecb_samekey("aes128", ctx.rk, b)))
aes256_aes_ni_enc_ecb(ctx, nblocks) ==
  Checked(<<ctx>>, "aes256",
          Ecb("aes256", nblocks, SamekeyPhases, LAMBDA p, b : aes_ni_ecb_samekey("aes256", ctx.rk, b)))
rijndael256_aes_ni_enc_ecb(ctx, nblocks) ==
  Checked(<<ctx>>, "rijndael256",
          Ecb("rijndael256", nblocks,
              <<LoopOf(4, "samekey"), FirstOf(<<2>>, "samekey"), FirstOf(<<1>>, "samekey")>>,
              LAMBDA p, b : DO_ENC_BLOCK_256_256(b, SameKey(ctx.rk, b))))

(***************************************************************************)
(* rijndael_vaes.c: AES-128 and AES-256.                                   *)
(***************************************************************************)
aes128_vaes_setkey_enc(k) ==
  [rtype |-> "aes128", rk |-> Scheduled128(k, <<1, 2, 4, 8, 16, 32, 64, 128, 27, 54>>)]
aes256_vaes_setkey_enc(k) ==
  [rtype |-> "aes256", rk |-> Scheduled256("aes256", k, <<1, 2, 4, 8, 16, 32>>, <<64>>)]

DO_ENC_BLOCK_VAES_128_128(block, rk) == AesRounds("aes128", 10, <<block>>, LanesOf(<<rk>>))
DO_ENC_BLOCK_VAES_128_256(block, rk) == AesRounds("aes256", 14, <<block>>, LanesOf(<<rk>>))

\* Blocks under one key, as many per register as it has lanes.
Broadcast(lanes, rk) == LanesOf([i \in 1 .. lanes |-> rk])

InRegisters(lanes, blocks, rounds(_)) ==
  InGroups(lanes, blocks, blocks, LAMBDA b, r : rounds(b))

DO_ENC_BLOCK_128_128_VAES256_ECB_x4(blocks, rk) ==
  InRegisters(2, blocks, LAMBDA b : AesRounds("aes128", 10, b, Broadcast(2, rk)))
DO_ENC_BLOCK_128_256_VAES256_ECB_x4(blocks, rk) ==
  InRegisters(2, blocks, LAMBDA b : AesRounds("aes256", 14, b, Broadcast(2, rk)))
DO_ENC_BLOCK_128_128_VAES512_ECB_x4(blocks, rk) ==
  InRegisters(4, blocks, LAMBDA b : AesRounds("aes128", 10, b, Broadcast(4, rk)))
DO_ENC_BLOCK_128_256_VAES512_ECB_x4(blocks, rk) ==
  InRegisters(4, blocks, LAMBDA b : AesRounds("aes256", 14, b, Broadcast(4, rk)))
aes128_vaes_ecb_samekey_tail(blocks, rk) ==
  InRegisters(2, blocks, LAMBDA b : AesRounds("aes128", 10, b, Broadcast(2, rk)))

\* enc_x2, enc_x4 and enc_x8 pack the keys of two contexts in a register, unless
\* 128-bit chains are faster.
aes128_vaes_enc_xN(flags, ctxs, blocks) ==
  LET lanes == IF "vaes256" \in flags /\ "chains" \notin flags THEN 2 ELSE 1
  IN  Checked(ctxs, "aes128",
              InGroups(lanes, blocks, RoundKeys(ctxs),
                       LAMBDA b, r : AesRounds("aes128", 10, b, LanesOf(r))))

\* ret |= of calls of enc.
aes256_vaes_enc_xN(ctxs, blocks) ==
  Checked(ctxs, "aes256",
          InGroups(1, blocks, RoundKeys(ctxs), LAMBDA b, r : DO_ENC_BLOCK_VAES_128_256(b[1], r[1])))

\* Contexts of two keys each.
PerPair(n, context(_)) == Looped(<<>>, Counted(1, n + 1, 2), LAMBDA ctx, k : Append(ctx, context(k)), Same)

\* The registers of two schedules side by side.
PackedPair(alg, k, setkey(_)) ==
  Looped(<<>>, <<k, k + 1>>, LAMBDA rks, e : Append(rks, setkey(e).rk),
         LAMBDA rks : [rtype |-> alg, rk |-> LanesOf(rks)])

aes128_vaes_setkey_enc_xN(n) == PerPair(n, LAMBDA k : PackedPair("aes128", k, aes128_vaes_setkey_enc))

PairRegister(k, first) == [w \in 0 .. 7 |-> KeyRegister(k + (w \div 4), first)[w % 4]]

\* The S-box of GFNI on the last word of each lane, in every word of the lane.
SubLast(alg, x) == [w \in DOMAIN x |-> SubWord(alg, broadcast(x, 3)[w])]
SubRotLast(alg, x, rc) == [w \in DOMAIN x |-> SymDiff(SubRotWord(alg, broadcast(x, 3)[w]), Constant(rc))]

chain_gfni(x, assist) ==
  LET once(y) == xor(y, slli(y))
  IN  xor(once(once(once(x))), assist)

ZeroBased(ks) == [r \in 0 .. Len(ks) - 1 |-> ks[r + 1]]

aes128_vaes_setkey_enc_xN_gfni(n) ==
  LET expanded(key, rc) == chain_gfni(key, SubRotLast("aes128", key, rc))
      pair(k) == Looped(<<PairRegister(k, 0)>>, <<1, 2, 4, 8, 16, 32, 64, 128, 27, 54>>,
                        LAMBDA ks, rc : Append(ks, expanded(Last(ks), rc)), ZeroBased)
  IN  PerPair(n, LAMBDA k : [rtype |-> "aes128", rk |-> pair(k)])

\* Two blocks per packed pair of keys.
InPairs(ctx, blocks, rounds(_, _)) ==
  Looped(<<>>, ctx,
         LAMBDA ct, pair : ct \o rounds(SubSeq(blocks, Len(ct) + 1, Len(ct) + 2), pair.rk), Same)

aes128_vaes_enc_xN_xN(ctx, blocks) ==
  Checked(ctx, "aes128", InPairs(ctx, blocks, LAMBDA b, k : AesRounds("aes128", 10, b, k)))

aes128_vaes_phases(flags) ==
  (IF "vaes512" \in flags THEN <<LoopOf(16, "vaes512")>> ELSE <<>>)
  \o (IF "vaes256" \in flags THEN <<LoopOf(8, "vaes256"), FirstOf(<<6, 4, 2>>, "tail")>> ELSE <<>>)
  \o <<LoopOf(1, "enc")>>

aes128_vaes_enc_ecb(flags, ctx, nblocks) ==
  LET kernel(name, b) == CASE name = "vaes512" -> DO_ENC_BLOCK_128_128_VAES512_ECB_x4(b, ctx.rk)
                           [] name = "vaes256" -> DO_ENC_BLOCK_128_128_VAES256_ECB_x4(b, ctx.rk)
                           [] name = "tail" -> aes128_vaes_ecb_samekey_tail(b, ctx.rk)
                           [] name = "enc" -> DO_ENC_BLOCK_VAES_128_128(b[1], ctx.rk)
  IN  Checked(<<ctx>>, "aes128", Ecb("aes128", nblocks, aes128_vaes_phases(flags), kernel))

aes256_vaes_enc_ecb(flags, ctx, nblocks) ==
  LET phases == (IF "vaes512" \in flags THEN <<LoopOf(16, "vaes512")>> ELSE <<>>)
                \o (IF "vaes256" \in flags THEN <<LoopOf(8, "vaes256")>> ELSE <<>>)
                \o <<LoopOf(1, "enc")>>
      kernel(name, b) == CASE name = "vaes512" -> DO_ENC_BLOCK_128_256_VAES512_ECB_x4(b, ctx.rk)
                           [] name = "vaes256" -> DO_ENC_BLOCK_128_256_VAES256_ECB_x4(b, ctx.rk)
                           [] name = "enc" -> DO_ENC_BLOCK_VAES_128_256(b[1], ctx.rk)
  IN  Checked(<<ctx>>, "aes256", Ecb("aes256", nblocks, phases, kernel))

(***************************************************************************)
(* rijndael_vaes.c: Rijndael-256.                                          *)
(***************************************************************************)
rijndael256_vaes_setkey_enc(k) ==
  [rtype |-> "rijndael256",
   rk |-> Scheduled256("rijndael256", k, <<1, 2, 4, 8, 16, 32, 64, 128, 27, 54, 108, 216, 171, 77>>, <<>>)]

RIJNDAEL256_VBMI_AOS_IDX ==
  <<0, 17, 22, 23, 4, 5, 26, 27, 8, 9, 14, 31, 12, 13, 18, 19,
    16, 1, 6, 7, 20, 21, 10, 11, 24, 25, 30, 15, 28, 29, 2, 3>>
RIJNDAEL256_VBMI_PACKED_L_IDX ==
  <<0, 33, 38, 39, 4, 5, 42, 43, 8, 9, 14, 47, 12, 13, 34, 35,
    16, 49, 54, 55, 20, 21, 58, 59, 24, 25, 30, 63, 28, 29, 50, 51>>
RIJNDAEL256_VBMI_PACKED_R_IDX ==
  <<32, 1, 6, 7, 36, 37, 10, 11, 40, 41, 46, 15, 44, 45, 2, 3,
    48, 17, 22, 23, 52, 53, 26, 27, 56, 57, 62, 31, 60, 61, 18, 19>>

\* ShiftRows on a block in one register: both halves, one per lane.
AosShiftRows(flags, m) ==
  IF "vbmi" \in flags
  THEN permutex(m, RIJNDAEL256_VBMI_AOS_IDX)
  ELSE shuffle(blendv(m, swap(m), blend_mask), shuffle_mask)

DO_ENC_BLOCK_VAES256_AOS(flags, block, rk) ==
  LET alg == "rijndael256"
      pair(off) == [w \in 0 .. 7 |-> rk[off + (w \div 4) + 1][w % 4]]
  IN  Looped(ADD_RKEY(alg, block, pair(0)), Counted(2, 30, 2),
             LAMBDA m, off : aesenc(alg, AosShiftRows(flags, m), pair(off), off = 28),
             LAMBDA m : <<m>>)

DO_ENC_BLOCK_VAES_256_256(block, rk) == HalfRounds(COMPENSATE_SR, <<block>>, LanesOf(<<rk>>))

rijndael256_vaes_block(flags, block, rk) ==
  IF "vaes256" \in flags
  THEN DO_ENC_BLOCK_VAES256_AOS(flags, block, rk)
  ELSE DO_ENC_BLOCK_VAES_256_256(block, rk)

rijndael256_vaes_enc(flags, ctx, block) ==
  Checked(<<ctx>>, "rijndael256", rijndael256_vaes_block(flags, block, ctx.rk))

rijndael256_vaes_enc_xN(flags, ctxs, blocks) ==
  Checked(ctxs, "rijndael256",
          InGroups(1, blocks, RoundKeys(ctxs), LAMBDA b, r : rijndael256_vaes_block(flags, b[1], r[1])))

rijndael256_vaes_setkey_enc_xN(n) ==
  PerPair(n, LAMBDA k : PackedPair("rijndael256", k, rijndael256_vaes_setkey_enc))

rijndael256_vaes_setkey_pair_gfni(k) ==
  LET alg == "rijndael256"
      even(ks, rc) == Append(ks, chain_gfni(ks[Len(ks) - 1], SubRotLast(alg, Last(ks), rc)))
      odd(ks) == Append(ks, chain_gfni(ks[Len(ks) - 1], SubLast(alg, Last(ks))))
  IN  Looped(<<PairRegister(k, 0), PairRegister(k, 4)>>, rcon, LAMBDA ks, rc : odd(even(ks, rc)), ZeroBased)

rijndael256_vaes_setkey_enc_xN_gfni(n) ==
  PerPair(n, LAMBDA k : [rtype |-> "rijndael256", rk |-> rijndael256_vaes_setkey_pair_gfni(k)])

PackedShiftRows(flags, ml, mr) ==
  IF "vbmi" \in flags
  THEN <<permutex2(ml, RIJNDAEL256_VBMI_PACKED_L_IDX, mr), permutex2(ml, RIJNDAEL256_VBMI_PACKED_R_IDX, mr)>>
  ELSE COMPENSATE_SR(ml, mr)

DO_ENC_BLOCK_VAES256_PACKED(flags, blocks, k) ==
  HalfRounds(LAMBDA ml, mr : PackedShiftRows(flags, ml, mr), blocks, k)

rijndael256_vaes_enc_xN_xN(flags, ctx, blocks) ==
  Checked(ctx, "rijndael256", InPairs(ctx, blocks, LAMBDA b, k : DO_ENC_BLOCK_VAES256_PACKED(flags, b, k)))

DO_ENC_BLOCK_256_256_VAES256_ECB_x4(blocks, rk) ==
  InRegisters(2, blocks, LAMBDA b : HalfRounds(COMPENSATE_SR, b, Broadcast(2, rk)))
DO_ENC_BLOCK_256_256_VAES256_ECB_x8(blocks, rk) ==
  InRegisters(2, blocks, LAMBDA b : HalfRounds(COMPENSATE_SR, b, Broadcast(2, rk)))
DO_ENC_BLOCK_256_256_VAES512_ECB_x4(blocks, rk) ==
  InRegisters(4, blocks, LAMBDA b : HalfRounds(COMPENSATE_SR, b, Broadcast(4, rk)))

rijndael256_vaes_enc_ecb(flags, ctx, nblocks) ==
  LET phases == (IF "vaes512" \in flags THEN <<LoopOf(4, "vaes512")>> ELSE <<>>)
                \o (IF "vaes256" \in flags THEN <<LoopOf(8, "x8"), LoopOf(4, "x4")>> ELSE <<>>)
                \o <<LoopOf(1, "enc")>>
      kernel(name, b) == CASE name = "vaes512" -> DO_ENC_BLOCK_256_256_VAES512_ECB_x4(b, ctx.rk)
                           [] name = "x8" -> DO_ENC_BLOCK_256_256_VAES256_ECB_x8(b, ctx.rk)
                           [] name = "x4" -> DO_ENC_BLOCK_256_256_VAES256_ECB_x4(b, ctx.rk)
                           [] name = "enc" -> rijndael256_vaes_block(flags, b[1], ctx.rk)
  IN  Checked(<<ctx>>, "rijndael256", Ecb("rijndael256", nblocks, phases, kernel))

(***************************************************************************)
(* A call c: setkey_enc, setkey_enc_xN or setkey_enc_ecb.                  *)
(***************************************************************************)
IsPacked(c) ==
  c.impl = "vaes" /\ c.op = "enc_xN_xN" /\ c.alg # "aes256" /\ "vaes256" \in c.flags

ContextOf(c, k) ==
  CASE c.impl = "ref" -> RefContext(c.alg, k)
    [] c.impl = "aes_ni" /\ c.alg = "aes128" -> aes128_aes_ni_setkey_enc(k)
    [] c.impl = "aes_ni" /\ c.alg = "aes256" -> aes256_aes_ni_setkey_enc(k)
    [] c.impl = "aes_ni" /\ c.alg = "rijndael256" -> rijndael256_aes_ni_setkey_enc(k)
    [] c.impl = "vaes" /\ c.alg = "aes128" -> aes128_vaes_setkey_enc(k)
    [] c.impl = "vaes" /\ c.alg = "aes256" -> aes256_vaes_setkey_enc(k)
    [] c.impl = "vaes" /\ c.alg = "rijndael256" -> rijndael256_vaes_setkey_enc(k)

PackedContext(c) ==
  CASE c.alg = "aes128" /\ "gfni" \in c.flags -> aes128_vaes_setkey_enc_xN_gfni(c.n)
    [] c.alg = "aes128" /\ "gfni" \notin c.flags -> aes128_vaes_setkey_enc_xN(c.n)
    [] c.alg = "rijndael256" /\ "gfni" \in c.flags -> rijndael256_vaes_setkey_enc_xN_gfni(c.n)
    [] c.alg = "rijndael256" /\ "gfni" \notin c.flags -> rijndael256_vaes_setkey_enc_xN(c.n)

\* A context per key.
SETKEY_XX(c) == [k \in 1 .. c.n |-> ContextOf(c, k)]

ContextsOf(c) ==
  CASE c.op \in {"enc", "enc_ecb"} -> <<ContextOf(c, 1)>>
    [] IsPacked(c) -> PackedContext(c)
    [] OTHER -> SETKEY_XX(c)

(***************************************************************************)
(* A call c: enc, enc_xN, enc_xN_xN or enc_ecb.                            *)
(***************************************************************************)
Separately(c, ctxs, blocks) ==
  CASE c.impl = "ref" -> ref_enc(c.alg, ctxs, blocks)
    [] c.impl = "aes_ni" /\ c.alg = "aes128" -> aes128_aes_ni_enc(ctxs, blocks)
    [] c.impl = "aes_ni" /\ c.alg = "aes256" -> aes256_aes_ni_enc(ctxs, blocks)
    [] c.impl = "aes_ni" /\ c.alg = "rijndael256" -> rijndael256_aes_ni_enc(ctxs, blocks)
    [] c.impl = "vaes" /\ c.alg = "aes128" -> aes128_vaes_enc_xN(c.flags, ctxs, blocks)
    [] c.impl = "vaes" /\ c.alg = "aes256" -> aes256_vaes_enc_xN(ctxs, blocks)
    [] c.impl = "vaes" /\ c.alg = "rijndael256" -> rijndael256_vaes_enc_xN(c.flags, ctxs, blocks)

\* Contexts that are not packed are those of enc_xN.
Together(c, ctx, blocks) ==
  CASE IsPacked(c) /\ c.alg = "aes128" -> aes128_vaes_enc_xN_xN(ctx, blocks)
    [] IsPacked(c) /\ c.alg = "rijndael256" -> rijndael256_vaes_enc_xN_xN(c.flags, ctx, blocks)
    [] OTHER -> Separately(c, ctx, blocks)

OneBlock(c, ctx, block) ==
  CASE c.impl = "vaes" /\ c.alg = "aes128" -> Checked(<<ctx>>, "aes128", DO_ENC_BLOCK_VAES_128_128(block, ctx.rk))
    [] c.impl = "vaes" /\ c.alg = "rijndael256" -> rijndael256_vaes_enc(c.flags, ctx, block)
    [] OTHER -> Separately(c, <<ctx>>, <<block>>)

Buffer(c, ctx) ==
  CASE c.impl = "ref" -> ref_enc_ecb(c.alg, ctx, c.n)
    [] c.impl = "aes_ni" /\ c.alg = "aes128" -> aes128_aes_ni_enc_ecb(ctx, c.n)
    [] c.impl = "aes_ni" /\ c.alg = "aes256" -> aes256_aes_ni_enc_ecb(ctx, c.n)
    [] c.impl = "aes_ni" /\ c.alg = "rijndael256" -> rijndael256_aes_ni_enc_ecb(ctx, c.n)
    [] c.impl = "vaes" /\ c.alg = "aes128" -> aes128_vaes_enc_ecb(c.flags, ctx, c.n)
    [] c.impl = "vaes" /\ c.alg = "aes256" -> aes256_vaes_enc_ecb(c.flags, ctx, c.n)
    [] c.impl = "vaes" /\ c.alg = "rijndael256" -> rijndael256_vaes_enc_ecb(c.flags, ctx, c.n)

Enciphered(c, ctx) ==
  LET blocks == [e \in 1 .. c.n |-> Plain(e, BlockSizeOf(c.alg))]
  IN  CASE c.op = "enc" -> OneBlock(c, ctx[1], blocks[1])
        [] c.op = "enc_xN" -> Separately(c, ctx, blocks)
        [] c.op = "enc_xN_xN" -> Together(c, ctx, blocks)
        [] c.op = "enc_ecb" -> Buffer(c, ctx[1])

(***************************************************************************)
(* The actions.                                                            *)
(***************************************************************************)
NoOutput == [ret |-> 0, ct |-> <<>>]

RijndaelInit(calls, pc) ==
  rj_call \in calls /\ rj_pc = pc /\ rj_ctx = <<>> /\ rj_out = NoOutput

SetKey ==
  /\ rj_pc = "setkey"
  /\ rj_ctx' = ContextsOf(rj_call)
  /\ rj_pc' = "enc"
  /\ UNCHANGED <<rj_call, rj_out>>

Encrypt ==
  /\ rj_pc = "enc"
  /\ rj_out' = Enciphered(rj_call, rj_ctx)
  /\ rj_pc' = "done"
  /\ UNCHANGED <<rj_call, rj_ctx>>

RijndaelNext == SetKey \/ Encrypt

(***************************************************************************)
(* What the calls promise, whatever the build: block e after all rounds of *)
(* the reference, under key e, or under key 1 from one context.            *)
(***************************************************************************)
Cipher(alg, b, k) == [p \in 0 .. BlockSizeOf(alg) - 1 |-> <<b, k, Nr[alg], p>>]

CiphersPromised(c) ==
  IF c.op = "enc_ecb"
  THEN [e \in 1 .. c.n + Beyond |-> IF e <= c.n THEN Cipher(c.alg, e, 1) ELSE OldBlock(c.alg, e)]
  ELSE [e \in 1 .. c.n |-> Cipher(c.alg, e, e)]

\* Every build computes the ciphertext of the reference, block for block, and
\* writes nothing past the buffer: no instruction set, register width, packing
\* of keys or number of blocks left over changes a byte (rijndael_vaes.c,
\* rijndael_aes_ni.c, rijndael_ref.c).
CiphersExact == rj_pc = "done" => rj_out = [ret |-> 0, ct |-> CiphersPromised(rj_call)]

=============================================================================
