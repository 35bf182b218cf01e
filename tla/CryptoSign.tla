------------------------------- MODULE CryptoSign ------------------------------
(***************************************************************************)
(* crypto_sign() and crypto_sign_open() (crypto_sign.c), over              *)
(* crypto_sign_signature() and crypto_sign_verify().                       *)
(*                                                                         *)
(* The caller's buffers are places of one memory and may overlap: the      *)
(* message anywhere, the signed message sm at SM, what is opened anywhere. *)
(* Sign and Verify, modules of their own, are here what they promise.      *)
(***************************************************************************)
EXTENDS Integers, SequencesExt

CONSTANTS
  SIG_SIZE,     \* MQOM3_SIG_SIZE, in cells
  MaxLen,       \* bound: length of a message
  SM            \* where sm is; memory ends MaxLen cells after the longest sm

ASSUME CryptoSignAssumption ==
  /\ SIG_SIZE \in Nat \ {0} /\ MaxLen \in Nat /\ SM \in Nat

VARIABLES
  buf,          \* the caller's choices: where m and the opened message are, NULLs
  cs_pc, cs_ret,
  mem,          \* the memory
  smlen, mlen,  \* *smlen and *mlen
  before,       \* mem when crypto_sign_open was called
  changed       \* what came between: "nothing", or a change of sm or of its length

cs_vars == <<buf, cs_pc, cs_ret, mem, smlen, mlen, before, changed>>

Cells == 0 .. SM + 2 * MaxLen + SIG_SIZE - 1

Byte(k) == [of |-> "byte", msg |-> <<>>, k |-> k]
SigByte(msg, k) == [of |-> "sig", msg |-> msg, k |-> k]
Zero == [of |-> "zero", msg |-> <<>>, k |-> 0]
Other == [of |-> "other", msg |-> <<>>, k |-> 0]

Read(memory, from, n) == [k \in 1 .. n |-> memory[from + k - 1]]
Write(memory, to, bytes) ==
  [a \in Cells |-> IF a - to + 1 \in DOMAIN bytes THEN bytes[a - to + 1] ELSE memory[a]]

\* (wrong on purpose) memcpy(), which copies from the front.
memmove_Forward(memory, to, from, n) ==
  FoldLeft(LAMBDA m, k : [m EXCEPT ![to + k - 1] = m[from + k - 1]], memory, [k \in 1 .. n |-> k])

memmove(memory, to, from, n) == Write(memory, to, Read(memory, from, n))

SignatureBytes(msg) == [k \in 1 .. SIG_SIZE |-> SigByte(msg, k)]
Message == [k \in 1 .. buf.len |-> Byte(k)]

\* too_long: the length the caller gives leaves no room for the signature below
\* SIZE_MAX, whatever is in memory.
Bufs == {b \in [len : 0 .. MaxLen, m : Cells, out : Cells, too_long : BOOLEAN,
                smlen_null : BOOLEAN, mlen_null : BOOLEAN] :
           b.m + b.len - 1 \in Cells \cup {-1} /\ b.out + b.len - 1 \in Cells \cup {-1}}

CSInit(bufs, from) ==
  /\ buf \in bufs
  /\ mem = Write([a \in Cells |-> Other], buf.m, Message)
  /\ cs_pc = from /\ cs_ret = -1
  /\ smlen = -1 /\ mlen = -1
  /\ before = <<>> /\ changed = "nothing"

\* crypto_sign, when the length is refused: nothing is moved or signed.
SignRefused ==
  /\ cs_pc = "sign" /\ buf.too_long
  /\ cs_ret' = -1
  /\ smlen' = IF buf.smlen_null THEN smlen ELSE 0
  /\ cs_pc' = "between"
  /\ UNCHANGED <<buf, mem, mlen, before, changed>>

\* Otherwise the message first, to the start of sm.
MoveMessage ==
  /\ cs_pc = "sign" /\ ~buf.too_long
  /\ mem' = memmove(mem, SM, buf.m, buf.len)
  /\ cs_pc' = "signature"
  /\ UNCHANGED <<buf, cs_ret, smlen, mlen, before, changed>>

\* crypto_sign_signature: randombytes() twice, then Sign, which leaves zeroes
\* when it fails; siglen is written if it is not NULL.
SignAt ==
  /\ cs_pc = "signature"
  /\ \/ /\ cs_ret' = 0
        /\ mem' = Write(mem, SM + buf.len, SignatureBytes(Read(mem, SM, buf.len)))
     \/ /\ cs_ret' = -1
        /\ mem' \in {mem, Write(mem, SM + buf.len, [k \in 1 .. SIG_SIZE |-> Zero])}
  /\ smlen' = IF buf.smlen_null THEN smlen ELSE IF cs_ret' = 0 THEN SIG_SIZE ELSE 0
  /\ cs_pc' = "signed"
  /\ UNCHANGED <<buf, mlen, before, changed>>

\* The end of crypto_sign.
ReturnSigned ==
  /\ cs_pc = "signed"
  /\ smlen' = IF buf.smlen_null THEN smlen ELSE IF cs_ret = 0 THEN smlen + buf.len ELSE 0
  /\ cs_pc' = "between"
  /\ UNCHANGED <<buf, cs_ret, mem, mlen, before, changed>>

\* The caller gives the length that it was given, or knows, to crypto_sign_open;
\* a cell, or the length, may have changed on the way.
Known == IF buf.smlen_null THEN (IF cs_ret = 0 THEN buf.len + SIG_SIZE ELSE 0) ELSE smlen

Deliver ==
  /\ cs_pc = "between"
  /\ \/ changed' = "nothing" /\ smlen' = Known /\ UNCHANGED mem
     \/ /\ changed' = "cell" /\ smlen' = Known
        /\ \E a \in SM .. SM + Known - 1 : mem' = [mem EXCEPT ![a] = Other]
     \/ changed' = "length" /\ smlen' \in 0 .. Known - 1 /\ UNCHANGED mem
  /\ before' = mem'
  /\ cs_pc' = "open"
  /\ UNCHANGED <<buf, cs_ret, mlen>>

\* crypto_sign_open, when it returns before the signature is looked at.
OpenRefused ==
  /\ cs_pc = "open"
  /\ buf.mlen_null \/ smlen < SIG_SIZE
  /\ mlen' = IF buf.mlen_null THEN mlen ELSE 0
  /\ cs_ret' = -1
  /\ cs_pc' = "opened"
  /\ UNCHANGED <<buf, mem, smlen, before, changed>>

\* crypto_sign_verify, with Verify; the message is moved once it is accepted.
OpenVerified ==
  /\ cs_pc = "open"
  /\ ~buf.mlen_null /\ smlen >= SIG_SIZE
  /\ LET len == smlen - SIG_SIZE
         accepted == Read(mem, SM + len, SIG_SIZE) = SignatureBytes(Read(mem, SM, len))
     IN  IF accepted
           THEN /\ cs_ret' = 0 /\ mlen' = len
                /\ mem' = memmove(mem, buf.out, SM, len)
           ELSE /\ cs_ret' = -1 /\ mlen' = 0
                /\ UNCHANGED mem
  /\ cs_pc' = "opened"
  /\ UNCHANGED <<buf, smlen, before, changed>>

CSNext ==
  \/ SignRefused \/ MoveMessage \/ SignAt \/ ReturnSigned
  \/ Deliver
  \/ OpenRefused \/ OpenVerified

-----------------------------------------------------------------------------
\* What was signed is what is opened, however the buffers overlap; and when
\* signing failed, or anything was changed, or there is no room for the length,
\* the caller is given no message: memory is as it was and the length, if it can
\* be written, is 0 (crypto_sign_open).
OpenReturnsMessage ==
  cs_pc = "opened" =>
    IF cs_ret = 0
      THEN /\ changed = "nothing" /\ ~buf.mlen_null
           /\ mlen = buf.len
           /\ Read(mem, buf.out, buf.len) = Message
      ELSE /\ changed # "nothing" \/ buf.mlen_null \/ smlen = 0
           /\ mem = before
           /\ buf.mlen_null \/ mlen = 0

=============================================================================
