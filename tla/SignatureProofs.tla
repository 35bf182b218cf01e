----------------------------- MODULE SignatureProofs ---------------------------
(***************************************************************************)
(* Proofs about signing and verifying, for every build, every window size  *)
(* and every key, and about crypto_sign() and crypto_sign_open(), for all  *)
(* places and lengths of the buffers.                                      *)
(***************************************************************************)
EXTENDS SignVerify, CryptoSign, WellFoundedInduction, FiniteSetTheorems, SequenceTheorems, TLAPS

-----------------------------------------------------------------------------
(***************************************************************************)
(* Sign and Verify: what is open or secret at a step is what the end of    *)
(* the call releases or wipes.                                             *)
(***************************************************************************)
\* The builds of the batching algorithms of sign.c and sign_memopt.c.
PIOPBuilds ==
  [kind : {"default"}, gamma_batch : Nat \ {0}, cached : BOOLEAN]
  \cup [kind : {"memopt"}, nb : Nat \ {0}]
  \cup [kind : {"bitslice"}, word : Nat \ {0}, limit : Nat, composite : BOOLEAN, factored : BOOLEAN]

\* Every call, of every build.  Only a signer that holds all executions at once
\* can keep the trees, or put x0 into the signature.  A build with windows has
\* batches that are not empty, one without has a kind of PIOP.
AllCalls ==
  {j \in [role : {"sign", "verify"}, memopt : BOOLEAN, ot : BOOLEAN, blc_batch : Nat,
          piop_batch : Nat, stream : BOOLEAN, piop : PIOPBuilds \cup {[kind |-> "none"]},
          x0_in_sig : BOOLEAN, keep : BOOLEAN,
          tampered : {"nothing", "message", "nonce", "alpha1", "path"}, key : DOMAIN Keys] :
     /\ j.memopt \/ j.role = "verify" => ~j.keep /\ ~j.x0_in_sig
     /\ j.memopt => j.piop_batch > 0 /\ (j.ot => j.blc_batch > 0)
     /\ ~j.memopt => j.piop \in PIOPBuilds}

SignVerifySpec == SVInit(AllCalls, "enter") /\ [][SVNext]_sv_vars

\* Before a call there is nothing; then there is only what its end releases.
Bookkeeping ==
  /\ job \in AllCalls
  /\ pc = "enter" => active = {} /\ held = {} /\ ret = -1
  /\ active \subseteq Released
  /\ held \subseteq IF Signing THEN Cleansed ELSE {}

\* A call that failed says so, and a signer then returns zeroes.
FailureReported ==
  /\ pc \in {"err", "failed"} => ret # 0
  /\ pc = "done" /\ Signing /\ ret # 0 => sig = ZeroSig

SVInv == Bookkeeping /\ FailureReported /\ NothingKept

-----------------------------------------------------------------------------
\* A call begins with nothing held.
LEMMA CallInitEstablishes == SVInit(AllCalls, "enter") => SVInv
BY DEF SVInit, SVInv, Bookkeeping, FailureReported, NothingKept

\* What a step leaves alone of the call.
LEMMA BuildUnchanged ==
  ASSUME job' = job
  PROVE  /\ Signing' = Signing /\ Released' = Released /\ Cleansed' = Cleansed
         /\ InitialContexts' = InitialContexts /\ ALPHA_ALIASED' = ALPHA_ALIASED
BY DEF Signing, Released, Cleansed, InitialContexts, ALPHA_ALIASED

\* A step on the way to the end of a call.
Goes ==
  /\ job' = job
  /\ pc' \notin {"enter", "done", "failed"}
  /\ pc' = "err" => ret' # 0

\* Such a step keeps the books when it takes on only what the end releases.
LEMMA GoesPreserves ==
  ASSUME SVInv, Goes,
         active' \subseteq Released,
         held' \subseteq IF Signing THEN Cleansed ELSE {}
  PROVE  SVInv'
BY BuildUnchanged DEF SVInv, Bookkeeping, FailureReported, NothingKept, Goes

\* The context of the commitments is among those released.
LEMMA InitialContextsReleased == InitialContexts \subseteq Released /\ "xof_ctx" \in Released
BY DEF InitialContexts, Released

\* A signer without memory for the key returns zeroes.
LEMMA KeyIsNullPreserves == ASSUME SVInv, KeyIsNull PROVE SVInv'
BY BuildUnchanged DEF SVInv, Bookkeeping, FailureReported, NothingKept, KeyIsNull

\* The key, x and the message hash are wiped at the end.
LEMMA EnterSignPreserves == ASSUME SVInv, EnterSign PROVE SVInv'
<1>1. Goes
  BY DEF Goes, EnterSign
<1>2. active' \subseteq Released
  <2>1. CASE active' = InitialContexts \cup (IF ~job.memopt /\ job.x0_in_sig THEN {"xof_ctx"} ELSE {})
    BY <2>1, InitialContextsReleased
  <2>2. CASE active' \in {{}, {"xof_ctx"}, InitialContexts}
    BY <2>2, InitialContextsReleased
  <2> QED
    BY <2>1, <2>2 DEF EnterSign
<1>3. held' \subseteq Cleansed /\ Signing
  <2>1. job.memopt => ~job.keep
    BY DEF SVInv, Bookkeeping, AllCalls
  <2> QED
    BY <2>1 DEF EnterSign, Cleansed
<1> QED
  BY <1>1, <1>2, <1>3, GoesPreserves

\* A verifier holds no secret.
LEMMA EnterVerifyPreserves == ASSUME SVInv, EnterVerify PROVE SVInv'
<1>1. Goes
  BY DEF Goes, EnterVerify
<1>2. active' \subseteq Released
  <2>1. active' = InitialContexts \/ active' \in {{}, {"xof_ctx"}, InitialContexts}
    BY DEF EnterVerify
  <2> QED
    BY <2>1, InitialContextsReleased
<1>3. held' \subseteq IF Signing THEN Cleansed ELSE {}
  BY DEF EnterVerify, SVInv, Bookkeeping
<1> QED
  BY <1>1, <1>2, <1>3, GoesPreserves

\* The lines of a window are wiped at the end by whoever signs.
LEMMA WritesHolds ==
  ASSUME SVInv, NEW first, NEW n, NEW at, NEW com_at, Writes(first, n, at, com_at)
  PROVE  held' \subseteq IF Signing THEN Cleansed ELSE {}
<1>1. held' = held \cup (IF Signing THEN {IF job.memopt THEN "ws" ELSE "workspaces"} ELSE {})
  BY DEF Writes
<1>2. Signing => (IF job.memopt THEN "ws" ELSE "workspaces") \in Cleansed
  BY DEF Cleansed
<1> QED
  BY <1>1, <1>2 DEF SVInv, Bookkeeping

\* The line commitment: all executions, a pass, or one execution.
LEMMA LinesPreserve ==
  ASSUME SVInv, LinesOfAll \/ LinesOfPass \/ LinesOfExecution
  PROVE  SVInv'
<1>1. CASE LinesOfAll
  <2>1. Goes /\ active' = active
    BY <1>1 DEF LinesOfAll, Goes, Reaches
  <2>2. Writes(0, TAU, 0, 0)
    BY <1>1 DEF LinesOfAll
  <2>3. held' \subseteq IF Signing THEN Cleansed ELSE {}
    BY <2>2, WritesHolds
  <2> QED
    BY <2>1, <2>3, GoesPreserves DEF SVInv, Bookkeeping
<1>2. CASE LinesOfPass
  <2>1. Goes /\ active' = active
    BY <1>2 DEF LinesOfPass, Goes, Reaches
  <2>2. Writes(e, Blc_batch, 0, COM1_BATCH)
    BY <1>2 DEF LinesOfPass
  <2>3. held' \subseteq IF Signing THEN Cleansed ELSE {}
    BY <2>2, WritesHolds
  <2> QED
    BY <2>1, <2>3, GoesPreserves DEF SVInv, Bookkeeping
<1>3. CASE LinesOfExecution
  <2>1. Goes /\ active' = active
    BY <1>3 DEF LinesOfExecution, Goes, Reaches
  <2>2. Writes(e, 1, e - WindowStart, COM1_BATCH + (e - WindowStart))
    BY <1>3 DEF LinesOfExecution
  <2>3. held' \subseteq IF Signing THEN Cleansed ELSE {}
    BY <2>2, WritesHolds
  <2> QED
    BY <2>1, <2>3, GoesPreserves DEF SVInv, Bookkeeping
<1> QED
  BY <1>1, <1>2, <1>3

\* The default batching allocates nothing.
LEMMA PAlphaOfAllPreserves ==
  ASSUME SVInv, SignPAlphaOfAll \/ VerifyPAlphaOfAll
  PROVE  SVInv'
<1>1. Goes /\ active' = active /\ held' = held
  BY DEF SignPAlphaOfAll, VerifyPAlphaOfAll, Goes, Reaches
<1> QED
  BY <1>1, GoesPreserves DEF SVInv, Bookkeeping

\* alpha0 and alpha1 are secrets of their own only where they do not share the
\* place of u0 and u1.
LEMMA PAlphaOfBatchPreserves ==
  ASSUME SVInv, SignPAlphaOfBatch \/ VerifyPAlphaOfBatch
  PROVE  SVInv'
<1>1. EndOfBatch /\ job' = job /\ active' = active
  BY DEF SignPAlphaOfBatch, VerifyPAlphaOfBatch
<1>2. Goes
  BY <1>1 DEF EndOfBatch, Goes, Reaches
<1>3. held' \subseteq IF Signing THEN Cleansed ELSE {}
  <2>1. CASE VerifyPAlphaOfBatch
    BY <2>1 DEF VerifyPAlphaOfBatch, SVInv, Bookkeeping
  <2>2. CASE SignPAlphaOfBatch
    <3>1. Signing /\ job.memopt
      BY <2>2 DEF SignPAlphaOfBatch
    <3>2. held' = held \/ (~ALPHA_ALIASED /\ held' = held \cup {"alpha"})
      BY <2>2 DEF SignPAlphaOfBatch
    <3> QED
      BY <3>1, <3>2 DEF SVInv, Bookkeeping, Cleansed
  <2> QED
    BY <2>1, <2>2
<1> QED
  BY <1>1, <1>2, <1>3, GoesPreserves DEF SVInv, Bookkeeping

\* The hashes open xof_ctx, and what they leave is released by the end.
LEMMA HashesPreserve ==
  ASSUME SVInv, HashSign \/ HashVerify
  PROVE  SVInv'
<1>1. Goes /\ HashesOpen
  BY DEF HashSign, HashVerify, Goes, Reaches
<1>2. active' \subseteq Released
  BY <1>1, InitialContextsReleased DEF HashesOpen, SVInv, Bookkeeping
<1>3. held' \subseteq IF Signing THEN Cleansed ELSE {}
  BY DEF HashSign, HashVerify, SVInv, Bookkeeping, Cleansed
<1> QED
  BY <1>1, <1>2, <1>3, GoesPreserves

\* Sampling the challenge and opening change no object that is released.
LEMMA ChallengePreserves ==
  ASSUME SVInv, Sample \/ Open
  PROVE  SVInv'
<1>1. Goes /\ active' = active /\ held' = held
  BY DEF Sample, Open, Goes, Reaches
<1> QED
  BY <1>1, GoesPreserves DEF SVInv, Bookkeeping

\* The end leaves nothing.
LEMMA ExitPreserves ==
  ASSUME SVInv, ExitSign \/ ExitVerify
  PROVE  SVInv'
<1>1. /\ job' = job /\ ret' = ret /\ pc' \in {"done", "failed"}
      /\ pc' = "failed" => ret # 0
      /\ active' = active \ Released
      /\ held' = IF Signing THEN held \ Cleansed ELSE held
      /\ Signing /\ ret # 0 => sig' = ZeroSig
  BY DEF ExitSign, ExitVerify, SVInv, FailureReported
<1>2. active' = {} /\ held' = {}
  BY <1>1 DEF SVInv, Bookkeeping
<1> QED
  BY <1>1, <1>2, BuildUnchanged DEF SVInv, Bookkeeping, FailureReported, NothingKept

\* Nothing happens.
LEMMA SVStutters == ASSUME SVInv, UNCHANGED sv_vars PROVE SVInv'
BY BuildUnchanged DEF SVInv, Bookkeeping, FailureReported, NothingKept, sv_vars

-----------------------------------------------------------------------------
\* The books are kept in every state of every call.
THEOREM SignVerifyInvariant == SignVerifySpec => []SVInv
<1>1. SVInit(AllCalls, "enter") => SVInv
  BY CallInitEstablishes
<1>2. SVInv /\ [SVNext]_sv_vars => SVInv'
  <2> SUFFICES ASSUME SVInv, [SVNext]_sv_vars PROVE SVInv'
    OBVIOUS
  <2> QED
    BY KeyIsNullPreserves, EnterSignPreserves, EnterVerifyPreserves, LinesPreserve,
       PAlphaOfAllPreserves, PAlphaOfBatchPreserves, HashesPreserve, ChallengePreserves,
       ExitPreserves, SVStutters DEF SVNext
<1> QED
  BY <1>1, <1>2, PTL DEF SignVerifySpec

\* A call that has returned, whatever build and wherever it failed, has no open
\* context and no secret (the err labels of Sign and Verify).
THEOREM NothingIsKept == SignVerifySpec => []NothingKept
<1>1. SVInv => NothingKept
  BY DEF SVInv
<1> QED
  BY <1>1, SignVerifyInvariant, PTL

\* A call that failed on the way returns an error, and then the signature is
\* zero (the err labels of Sign and Verify).
THEOREM FailuresAreReported == SignVerifySpec => []FailureReported
<1>1. SVInv => FailureReported
  BY DEF SVInv
<1> QED
  BY <1>1, SignVerifyInvariant, PTL

-----------------------------------------------------------------------------
(***************************************************************************)
(* The field of PIOP, and sums of functions over a range: the sum that     *)
(* Total computes is the only function that satisfies its recursion.       *)
(***************************************************************************)
\* The order of the natural numbers, and the smallest element of a set of them.
LEMMA Smallest ==
  ASSUME NEW S, S \subseteq Nat, S # {}
  PROVE  \E x \in S : \A z \in S : x <= z
<1> DEFINE R == {pair \in Nat \X Nat : pair[1] < pair[2]}
<1>1. IsWellFoundedOn(R, Nat)
  BY NatLessThanWellFounded DEF OpToRel
<1> HIDE DEF R
<1>2. PICK x \in S : \A z \in S : <<z, x>> \notin R
  BY <1>1, WFMin
<1>3. ASSUME NEW z \in S PROVE x <= z
  <2>1. <<z, x>> \notin R
    BY <1>2
  <2> QED
    BY <2>1 DEF R
<1> QED
  BY <1>3

\* Induction: a set that holds zero and, with a number, the next one.
LEMMA AllNumbers ==
  ASSUME NEW S, 0 \in S, \A n \in Nat : n \in S => n + 1 \in S
  PROVE  Nat \subseteq S
<1> DEFINE Out == {n \in Nat : n \notin S}
<1>1. ASSUME Out # {} PROVE FALSE
  <2>1. Out \subseteq Nat
    OBVIOUS
  <2>2. PICK n \in Out : \A m \in Out : n <= m
    BY <1>1, <2>1, Smallest
  <2>3. n \in Nat /\ n # 0
    BY <2>2
  <2>4. n - 1 \in Nat /\ n - 1 \notin Out /\ (n - 1) + 1 = n
    BY <2>2, <2>3
  <2> QED
    BY <2>2, <2>4
<1> QED
  BY <1>1

-----------------------------------------------------------------------------
\* The field: the tables, then the laws.
LEMMA Closed ==
  /\ \A a, b \in Field : Add(a, b) \in Field /\ Mult(a, b) \in Field
  /\ 0 \in Field
  /\ \A a \in Field : Add(a, 0) = a /\ Add(0, a) = a /\ Add(a, a) = 0
  /\ \A a \in Field : Mult(a, 0) = 0 /\ Mult(0, a) = 0 /\ Mult(1, a) = a /\ Mult(a, 1) = a
  /\ 1 \in Field
<1>1. ASSUME NEW a \in Field, NEW b \in Field PROVE Add(a, b) \in Field /\ Mult(a, b) \in Field
  BY DEF Add, Mult, Plus, Times, Field
<1>2. ASSUME NEW a \in Field PROVE /\ Add(a, 0) = a /\ Add(0, a) = a /\ Add(a, a) = 0
                               /\ Mult(a, 0) = 0 /\ Mult(0, a) = 0 /\ Mult(1, a) = a /\ Mult(a, 1) = a
  BY DEF Add, Mult, Plus, Times, Field
<1> QED
  BY <1>1, <1>2 DEF Field

\* Sums and products do not depend on the order.
LEMMA Commutes ==
  \A a, b \in Field : Add(a, b) = Add(b, a) /\ Mult(a, b) = Mult(b, a)
BY DEF Add, Mult, Plus, Times, Field

\* Nor on the grouping.
LEMMA AddAssoc ==
  ASSUME NEW a \in Field, NEW b \in Field, NEW c \in Field
  PROVE  Add(Add(a, b), c) = Add(a, Add(b, c))
<1>1. a \in {0, 1, 2, 3} /\ b \in {0, 1, 2, 3} /\ c \in {0, 1, 2, 3}
  BY DEF Field
<1>2. CASE a = 0
  BY <1>1, <1>2 DEF Add, Plus
<1>3. CASE a = 1
  BY <1>1, <1>3 DEF Add, Plus
<1>4. CASE a = 2
  BY <1>1, <1>4 DEF Add, Plus
<1>5. CASE a = 3
  BY <1>1, <1>5 DEF Add, Plus
<1> QED
  BY <1>1, <1>2, <1>3, <1>4, <1>5

\* The same of products.
LEMMA MultAssoc ==
  ASSUME NEW a \in Field, NEW b \in Field, NEW c \in Field
  PROVE  Mult(Mult(a, b), c) = Mult(a, Mult(b, c))
<1>1. a \in {0, 1, 2, 3} /\ b \in {0, 1, 2, 3} /\ c \in {0, 1, 2, 3}
  BY DEF Field
<1>2. CASE a = 0
  BY <1>1, <1>2 DEF Mult, Times
<1>3. CASE a = 1
  BY <1>1, <1>3 DEF Mult, Times
<1>4. CASE a = 2
  BY <1>1, <1>4 DEF Mult, Times
<1>5. CASE a = 3
  BY <1>1, <1>5 DEF Mult, Times
<1> QED
  BY <1>1, <1>2, <1>3, <1>4, <1>5

\* A product of sums.
LEMMA Distributes ==
  ASSUME NEW a \in Field, NEW b \in Field, NEW c \in Field
  PROVE  Mult(a, Add(b, c)) = Add(Mult(a, b), Mult(a, c))
<1>1. a \in {0, 1, 2, 3} /\ b \in {0, 1, 2, 3} /\ c \in {0, 1, 2, 3}
  BY DEF Field
<1>2. CASE a = 0
  BY <1>1, <1>2 DEF Add, Plus, Mult, Times
<1>3. CASE a = 1
  BY <1>1, <1>3 DEF Add, Plus, Mult, Times
<1>4. CASE a = 2
  BY <1>1, <1>4 DEF Add, Plus, Mult, Times
<1>5. CASE a = 3
  BY <1>1, <1>5 DEF Add, Plus, Mult, Times
<1> QED
  BY <1>1, <1>2, <1>3, <1>4, <1>5

\* (a + b) + (c + d) = (a + c) + (b + d).
LEMMA Exchange ==
  ASSUME NEW a \in Field, NEW b \in Field, NEW c \in Field, NEW d \in Field
  PROVE  Add(Add(a, b), Add(c, d)) = Add(Add(a, c), Add(b, d))
<1>1. Add(Add(a, b), Add(c, d)) = Add(a, Add(b, Add(c, d)))
  BY Closed, AddAssoc
<1>2. Add(b, Add(c, d)) = Add(c, Add(b, d))
  <2>1. Add(b, Add(c, d)) = Add(Add(b, c), d)
    BY AddAssoc
  <2>2. Add(Add(b, c), d) = Add(Add(c, b), d)
    BY Commutes
  <2> QED
    BY <2>1, <2>2, AddAssoc
<1>3. Add(a, Add(c, Add(b, d))) = Add(Add(a, c), Add(b, d))
  BY Closed, AddAssoc
<1> QED
  BY <1>1, <1>2, <1>3

\* Squaring respects sums and products, and is its own inverse.
LEMMA Squares ==
  ASSUME NEW a \in Field, NEW b \in Field
  PROVE  /\ Mult(Add(a, b), Add(a, b)) = Add(Mult(a, a), Mult(b, b))
         /\ Mult(Mult(a, b), Mult(a, b)) = Mult(Mult(a, a), Mult(b, b))
         /\ Mult(Mult(a, a), Mult(a, a)) = a
<1>1. a \in {0, 1, 2, 3} /\ b \in {0, 1, 2, 3}
  BY DEF Field
<1>2. CASE a = 0
  BY <1>1, <1>2 DEF Add, Plus, Mult, Times
<1>3. CASE a = 1
  BY <1>1, <1>3 DEF Add, Plus, Mult, Times
<1>4. CASE a = 2
  BY <1>1, <1>4 DEF Add, Plus, Mult, Times
<1>5. CASE a = 3
  BY <1>1, <1>5 DEF Add, Plus, Mult, Times
<1> QED
  BY <1>1, <1>2, <1>3, <1>4, <1>5

-----------------------------------------------------------------------------
\* The partial sums of g, up to n terms.
SumsOf(s, g, n) == s = [k \in 0 .. n |-> IF k = 0 THEN 0 ELSE Add(s[k - 1], g[k - 1])]

\* They exist.
LEMMA SumsExist == ASSUME NEW g, NEW n \in Nat PROVE \E s : SumsOf(s, g, n)
<1> DEFINE Good == {m \in Nat : \E s : SumsOf(s, g, m)}
<1>1. 0 \in Good
  <2> DEFINE t == [k \in 0 .. 0 |-> 0]
  <2>1. SumsOf(t, g, 0)
    BY DEF SumsOf
  <2> QED
    BY <2>1
<1>2. ASSUME NEW m \in Nat, m \in Good PROVE m + 1 \in Good
  <2>1. PICK s : SumsOf(s, g, m)
    BY <1>2
  <2>2. \A k \in 0 .. m : s[k] = IF k = 0 THEN 0 ELSE Add(s[k - 1], g[k - 1])
    BY <2>1 DEF SumsOf
  <2> DEFINE t == [k \in 0 .. m + 1 |-> IF k = m + 1 THEN Add(s[m], g[m]) ELSE s[k]]
  <2>3. ASSUME NEW k \in 0 .. m + 1
        PROVE  t[k] = IF k = 0 THEN 0 ELSE Add(t[k - 1], g[k - 1])
    <3>1. CASE k = m + 1
      <4>1. k # 0 /\ k - 1 = m /\ m \in 0 .. m + 1 /\ m # m + 1
        BY <3>1
      <4>2. t[m] = s[m]
        BY <4>1
      <4> QED
        BY <3>1, <4>1, <4>2
    <3>2. CASE k # m + 1
      <4>1. k \in 0 .. m /\ (k # 0 => k - 1 \in 0 .. m + 1 /\ k - 1 # m + 1)
        BY <3>2
      <4> QED
        BY <2>2, <3>2, <4>1
    <3> QED
      BY <3>1, <3>2
  <2>4. SumsOf(t, g, m + 1)
    BY <2>3 DEF SumsOf
  <2> HIDE DEF t
  <2> QED
    BY <2>4
<1> HIDE DEF Good
<1>3. Nat \subseteq Good
  BY <1>1, <1>2, AllNumbers
<1> QED
  BY <1>3 DEF Good

\* And there is only one.
LEMMA SumsAgree ==
  ASSUME NEW g, NEW h, NEW n \in Nat, NEW m \in Nat, NEW s, NEW t,
         SumsOf(s, g, n), SumsOf(t, h, m), \A k \in 0 .. n - 1 : g[k] = h[k], n <= m
  PROVE  s[n] = t[n]
<1> DEFINE Good == {k \in Nat : k <= n => s[k] = t[k]}
<1>1. /\ \A k \in 0 .. n : s[k] = IF k = 0 THEN 0 ELSE Add(s[k - 1], g[k - 1])
      /\ \A k \in 0 .. m : t[k] = IF k = 0 THEN 0 ELSE Add(t[k - 1], h[k - 1])
  BY DEF SumsOf
<1>2. 0 \in Good
  BY <1>1
<1>3. ASSUME NEW k \in Nat, k \in Good PROVE k + 1 \in Good
  <2> SUFFICES ASSUME k + 1 <= n PROVE s[k + 1] = t[k + 1]
    OBVIOUS
  <2>1. /\ k + 1 \in 0 .. n /\ k + 1 \in 0 .. m /\ k + 1 # 0 /\ (k + 1) - 1 = k
        /\ k \in 0 .. n - 1 /\ s[k] = t[k]
    BY <1>3
  <2>2. s[k + 1] = Add(s[k], g[k]) /\ t[k + 1] = Add(t[k], h[k])
    BY <1>1, <2>1
  <2> QED
    BY <2>1, <2>2
<1> HIDE DEF Good
<1>4. Nat \subseteq Good
  BY <1>2, <1>3, AllNumbers
<1> QED
  BY <1>4 DEF Good

\* The sum of nothing, and of one element more.
LEMMA TotalSteps ==
  ASSUME NEW g
  PROVE  /\ Total(g, 0) = 0
         /\ \A n \in Nat : Total(g, n + 1) = Add(Total(g, n), g[n])
<1> DEFINE S(n) == CHOOSE s : SumsOf(s, g, n)
<1>1. \A n \in Nat : SumsOf(S(n), g, n)
  BY SumsExist
<1>2. \A n : Total(g, n) = S(n)[n]
  BY DEF Total, SumsOf
<1> HIDE DEF S
<1>3. Total(g, 0) = 0
  <2>1. SumsOf(S(0), g, 0)
    BY <1>1
  <2> QED
    BY <1>2, <2>1 DEF SumsOf
<1>4. ASSUME NEW n \in Nat PROVE Total(g, n + 1) = Add(Total(g, n), g[n])
  <2>1. SumsOf(S(n + 1), g, n + 1) /\ SumsOf(S(n), g, n)
    BY <1>1
  <2>2. S(n + 1)[n + 1] = Add(S(n + 1)[n], g[n])
    <3>1. n + 1 \in 0 .. n + 1 /\ n + 1 # 0 /\ (n + 1) - 1 = n
      OBVIOUS
    <3> QED
      BY <2>1, <3>1 DEF SumsOf
  <2>3. S(n)[n] = S(n + 1)[n]
    BY <2>1, SumsAgree
  <2> QED
    BY <1>2, <2>2, <2>3
<1> QED
  BY <1>3, <1>4

\* Sums of the same elements.
LEMMA TotalSame ==
  ASSUME NEW n \in Nat, NEW g, NEW h, \A k \in 0 .. n - 1 : g[k] = h[k]
  PROVE  Total(g, n) = Total(h, n)
<1> DEFINE Good == {m \in Nat : m <= n => Total(g, m) = Total(h, m)}
<1>1. 0 \in Good
  BY TotalSteps
<1>2. ASSUME NEW m \in Nat, m \in Good PROVE m + 1 \in Good
  <2> SUFFICES ASSUME m + 1 <= n PROVE Total(g, m + 1) = Total(h, m + 1)
    OBVIOUS
  <2>1. g[m] = h[m] /\ Total(g, m) = Total(h, m)
    BY <1>2
  <2>2. Total(g, m + 1) = Add(Total(g, m), g[m]) /\ Total(h, m + 1) = Add(Total(h, m), h[m])
    BY TotalSteps
  <2> QED
    BY <2>1, <2>2
<1> HIDE DEF Good
<1>3. Nat \subseteq Good
  BY <1>1, <1>2, AllNumbers
<1> QED
  BY <1>3 DEF Good

\* Sums are in the field.
LEMMA TotalTyped ==
  ASSUME NEW n \in Nat, NEW g, \A k \in 0 .. n - 1 : g[k] \in Field
  PROVE  Total(g, n) \in Field
<1> DEFINE Good == {m \in Nat : m <= n => Total(g, m) \in Field}
<1>1. 0 \in Good
  BY TotalSteps, Closed
<1>2. ASSUME NEW m \in Nat, m \in Good PROVE m + 1 \in Good
  <2> SUFFICES ASSUME m + 1 <= n PROVE Total(g, m + 1) \in Field
    OBVIOUS
  <2>1. g[m] \in Field /\ Total(g, m) \in Field
    BY <1>2
  <2>2. Total(g, m + 1) = Add(Total(g, m), g[m])
    BY TotalSteps
  <2> QED
    BY <2>1, <2>2, Closed
<1> HIDE DEF Good
<1>3. Nat \subseteq Good
  BY <1>1, <1>2, AllNumbers
<1> QED
  BY <1>3 DEF Good

\* The sum of sums.
LEMMA TotalAdds ==
  ASSUME NEW n \in Nat, NEW g, NEW h, NEW f,
         \A k \in 0 .. n - 1 : g[k] \in Field /\ h[k] \in Field /\ f[k] = Add(g[k], h[k])
  PROVE  Total(f, n) = Add(Total(g, n), Total(h, n))
<1> DEFINE Good == {m \in Nat : m <= n => Total(f, m) = Add(Total(g, m), Total(h, m))}
<1>1. 0 \in Good
  BY TotalSteps, Closed
<1>2. ASSUME NEW m \in Nat, m \in Good PROVE m + 1 \in Good
  <2> SUFFICES ASSUME m + 1 <= n PROVE Total(f, m + 1) = Add(Total(g, m + 1), Total(h, m + 1))
    OBVIOUS
  <2>1. /\ g[m] \in Field /\ h[m] \in Field /\ f[m] = Add(g[m], h[m])
        /\ Total(f, m) = Add(Total(g, m), Total(h, m))
    BY <1>2
  <2>2. Total(g, m) \in Field /\ Total(h, m) \in Field
    <3>1. \A k \in 0 .. m - 1 : k \in 0 .. n - 1
      OBVIOUS
    <3> QED
      BY <3>1, TotalTyped
  <2>3. /\ Total(g, m + 1) = Add(Total(g, m), g[m]) /\ Total(h, m + 1) = Add(Total(h, m), h[m])
        /\ Total(f, m + 1) = Add(Total(f, m), f[m])
    BY TotalSteps
  <2> QED
    BY <2>1, <2>2, <2>3, Exchange
<1> HIDE DEF Good
<1>3. Nat \subseteq Good
  BY <1>1, <1>2, AllNumbers
<1> QED
  BY <1>3 DEF Good

\* The functions that respect sums.
Additive == {q \in [Field -> Field] : q[0] = 0 /\ \A a, b \in Field : q[Add(a, b)] = Add(q[a], q[b])}

\* The sum of images.
LEMMA TotalMaps ==
  ASSUME NEW n \in Nat, NEW q \in Additive, NEW g, NEW f,
         \A k \in 0 .. n - 1 : g[k] \in Field /\ f[k] = q[g[k]]
  PROVE  Total(f, n) = q[Total(g, n)]
<1> DEFINE Good == {m \in Nat : m <= n => Total(f, m) = q[Total(g, m)]}
<1>1. 0 \in Good
  BY TotalSteps DEF Additive
<1>2. ASSUME NEW m \in Nat, m \in Good PROVE m + 1 \in Good
  <2> SUFFICES ASSUME m + 1 <= n PROVE Total(f, m + 1) = q[Total(g, m + 1)]
    OBVIOUS
  <2>1. g[m] \in Field /\ f[m] = q[g[m]] /\ Total(f, m) = q[Total(g, m)]
    BY <1>2
  <2>2. Total(g, m) \in Field
    <3>1. \A k \in 0 .. m - 1 : k \in 0 .. n - 1
      OBVIOUS
    <3> QED
      BY <3>1, TotalTyped
  <2>3. Total(g, m + 1) = Add(Total(g, m), g[m]) /\ Total(f, m + 1) = Add(Total(f, m), f[m])
    BY TotalSteps
  <2> QED
    BY <2>1, <2>2, <2>3 DEF Additive
<1> HIDE DEF Good
<1>3. Nat \subseteq Good
  BY <1>1, <1>2, AllNumbers
<1> QED
  BY <1>3 DEF Good

\* Multiplication by a constant respects sums.
LEMMA TotalScaled ==
  ASSUME NEW n \in Nat, NEW c \in Field, NEW g, NEW f,
         \A k \in 0 .. n - 1 : g[k] \in Field /\ f[k] = Mult(c, g[k])
  PROVE  Total(f, n) = Mult(c, Total(g, n))
<1> DEFINE q == [a \in Field |-> Mult(c, a)]
<1>1. q \in Additive
  BY Closed, Distributes DEF Additive
<1>2. Total(f, n) = q[Total(g, n)]
  BY <1>1, TotalMaps
<1> QED
  BY <1>2, TotalTyped

-----------------------------------------------------------------------------
(***************************************************************************)
(* Inner products of vectors of the field.                                 *)
(***************************************************************************)
\* The vectors of n elements, as functions and by their elements.
Vectors(n) == [0 .. n - 1 -> Field]

\* Vectors may be longer than what is multiplied.
IsVector(v, n) == \A k \in 0 .. n - 1 : v[k] \in Field

\* An inner product is an element of the field.
LEMMA ProductTyped ==
  ASSUME NEW n \in Nat, NEW u, NEW v, IsVector(u, n), IsVector(v, n)
  PROVE  VectMult(u, v, n) \in Field
<1> DEFINE g == [k \in 0 .. n - 1 |-> Mult(u[k], v[k])]
<1>1. \A k \in 0 .. n - 1 : g[k] \in Field
  BY Closed DEF IsVector
<1> QED
  BY <1>1, TotalTyped DEF VectMult

\* The same factors.
LEMMA ProductSame ==
  ASSUME NEW n \in Nat, NEW u, NEW v, NEW s, NEW t,
         \A k \in 0 .. n - 1 : u[k] = s[k] /\ v[k] = t[k]
  PROVE  VectMult(u, v, n) = VectMult(s, t, n)
<1>1. [k \in 0 .. n - 1 |-> Mult(u[k], v[k])] = [k \in 0 .. n - 1 |-> Mult(s[k], t[k])]
  OBVIOUS
<1> QED
  BY <1>1 DEF VectMult

\* The inner product is symmetric.
LEMMA ProductCommutes ==
  ASSUME NEW n \in Nat, NEW u, NEW v, IsVector(u, n), IsVector(v, n)
  PROVE  VectMult(u, v, n) = VectMult(v, u, n)
<1>1. [k \in 0 .. n - 1 |-> Mult(u[k], v[k])] = [k \in 0 .. n - 1 |-> Mult(v[k], u[k])]
  BY Commutes DEF IsVector
<1> QED
  BY <1>1 DEF VectMult

\* It is linear in its first vector: sums.
LEMMA ProductAdds ==
  ASSUME NEW n \in Nat, NEW u, NEW v, NEW w, NEW s, IsVector(u, n), IsVector(v, n), IsVector(w, n),
         \A k \in 0 .. n - 1 : s[k] = Add(v[k], w[k])
  PROVE  /\ VectMult(u, s, n) = Add(VectMult(u, v, n), VectMult(u, w, n))
         /\ VectMult(s, u, n) = Add(VectMult(v, u, n), VectMult(w, u, n))
<1> DEFINE f == [k \in 0 .. n - 1 |-> Mult(u[k], s[k])]
           g == [k \in 0 .. n - 1 |-> Mult(u[k], v[k])]
           h == [k \in 0 .. n - 1 |-> Mult(u[k], w[k])]
<1>1. ASSUME NEW k \in 0 .. n - 1
      PROVE  g[k] \in Field /\ h[k] \in Field /\ f[k] = Add(g[k], h[k])
  <2>1. u[k] \in Field /\ v[k] \in Field /\ w[k] \in Field
    BY DEF IsVector
  <2>2. g[k] = Mult(u[k], v[k]) /\ h[k] = Mult(u[k], w[k]) /\ f[k] = Mult(u[k], Add(v[k], w[k]))
    OBVIOUS
  <2> QED
    BY <2>1, <2>2, Closed, Distributes
<1> HIDE DEF f, g, h
<1>2. Total(f, n) = Add(Total(g, n), Total(h, n))
  BY <1>1, TotalAdds
<1>3. VectMult(u, s, n) = Add(VectMult(u, v, n), VectMult(u, w, n))
  BY <1>2 DEF VectMult, f, g, h
<1>4. IsVector(s, n)
  BY Closed DEF IsVector
<1> QED
  BY <1>3, <1>4, ProductCommutes

\* And multiples.
LEMMA ProductScaled ==
  ASSUME NEW n \in Nat, NEW c \in Field, NEW u, NEW v, NEW s, IsVector(u, n), IsVector(v, n),
         \A k \in 0 .. n - 1 : s[k] = Mult(c, v[k])
  PROVE  /\ VectMult(u, s, n) = Mult(c, VectMult(u, v, n))
         /\ VectMult(s, u, n) = Mult(c, VectMult(v, u, n))
<1> DEFINE f == [k \in 0 .. n - 1 |-> Mult(s[k], u[k])]
           g == [k \in 0 .. n - 1 |-> Mult(v[k], u[k])]
<1>1. ASSUME NEW k \in 0 .. n - 1 PROVE g[k] \in Field /\ f[k] = Mult(c, g[k])
  <2>1. u[k] \in Field /\ v[k] \in Field
    BY DEF IsVector
  <2>2. g[k] = Mult(v[k], u[k]) /\ f[k] = Mult(Mult(c, v[k]), u[k])
    OBVIOUS
  <2> QED
    BY <2>1, <2>2, Closed, MultAssoc
<1> HIDE DEF f, g
<1>2. Total(f, n) = Mult(c, Total(g, n))
  BY <1>1, TotalScaled
<1>3. VectMult(s, u, n) = Mult(c, VectMult(v, u, n))
  BY <1>2 DEF VectMult, f, g
<1>4. IsVector(s, n)
  BY Closed DEF IsVector
<1> QED
  BY <1>3, <1>4, ProductCommutes

-----------------------------------------------------------------------------
(***************************************************************************)
(* The equations of a key, along a line: P_z is a line because the square  *)
(* of x solves them, and so is P_alpha; what a verifier computes from one  *)
(* point and from alpha1 is its value at 0.                                *)
(***************************************************************************)
\* What the equations of a key are made of.
LEMMA MatTyped ==
  ASSUME NEW key, IsKey(key), NEW i \in Eqs, NEW v \in Vectors(N)
  PROVE  /\ DOMAIN MatMult(key.K.A[i], v) = 0 .. N - 1
         /\ \A j \in 0 .. N - 1 : /\ MatMult(key.K.A[i], v)[j] = VectMult(key.K.A[i][j], v, j + 1)
                                  /\ MatMult(key.K.A[i], v)[j] \in Field
         /\ IsVector(MatMult(key.K.A[i], v), N)
<1>1. DOMAIN key.K.A[i] = 0 .. N - 1
  BY DEF IsKey
<1>2. /\ DOMAIN MatMult(key.K.A[i], v) = 0 .. N - 1
      /\ \A j \in 0 .. N - 1 : MatMult(key.K.A[i], v)[j] = VectMult(key.K.A[i][j], v, j + 1)
  BY <1>1 DEF MatMult
<1>3. ASSUME NEW j \in 0 .. N - 1 PROVE VectMult(key.K.A[i][j], v, j + 1) \in Field
  <2>1. j + 1 \in Nat /\ 0 .. (j + 1) - 1 = 0 .. j /\ \A k \in 0 .. j : k \in 0 .. N - 1
    BY PIOPAssumption
  <2>2. key.K.A[i][j] \in [0 .. j -> Field]
    BY DEF IsKey
  <2>3. IsVector(key.K.A[i][j], j + 1) /\ IsVector(v, j + 1)
    BY <2>1, <2>2 DEF IsVector, Vectors
  <2> QED
    BY <2>1, <2>3, ProductTyped
<1> QED
  BY <1>2, <1>3 DEF IsVector

\* A point of a line.
LEMMA AtTyped ==
  ASSUME NEW n \in Nat, NEW u \in Vectors(n), NEW v \in Vectors(n), NEW r \in Field
  PROVE  /\ At(u, v, r) \in Vectors(n)
         /\ \A k \in 0 .. n - 1 : At(u, v, r)[k] = Add(u[k], Mult(r, v[k]))
<1>1. At(u, v, r) = [k \in 0 .. n - 1 |-> Add(u[k], Mult(r, v[k]))]
  BY DEF At, VectAdd, ConstantVectMult, Vectors
<1>2. ASSUME NEW k \in 0 .. n - 1 PROVE Add(u[k], Mult(r, v[k])) \in Field
  <2>1. u[k] \in Field /\ v[k] \in Field
    BY DEF Vectors
  <2> QED
    BY <2>1, Closed
<1> QED
  BY <1>1, <1>2 DEF Vectors

\* The rows of a matrix are linear.
LEMMA MatLinear ==
  ASSUME NEW key, IsKey(key), NEW i \in Eqs, NEW u \in Vectors(N), NEW v \in Vectors(N),
         NEW r \in Field, NEW j \in 0 .. N - 1
  PROVE  MatMult(key.K.A[i], At(u, v, r))[j]
           = Add(MatMult(key.K.A[i], u)[j], Mult(r, MatMult(key.K.A[i], v)[j]))
<1> DEFINE row == key.K.A[i][j]
           w == [k \in 0 .. j |-> Mult(r, v[k])]
<1>1. j + 1 \in Nat /\ 0 .. (j + 1) - 1 = 0 .. j /\ \A k \in 0 .. j : k \in 0 .. N - 1
  BY PIOPAssumption
<1>2. row \in [0 .. j -> Field]
  BY DEF IsKey
<1> HIDE DEF row
<1>3. /\ \A k \in 0 .. j : u[k] \in Field /\ v[k] \in Field /\ row[k] \in Field
      /\ N \in Nat
  BY <1>1, <1>2, PIOPAssumption DEF Vectors
<1>4. IsVector(row, j + 1) /\ IsVector(u, j + 1) /\ IsVector(v, j + 1) /\ IsVector(w, j + 1)
  BY <1>1, <1>3, Closed DEF IsVector
<1>5. VectMult(row, w, j + 1) = Mult(r, VectMult(row, v, j + 1))
  <2>1. \A k \in 0 .. (j + 1) - 1 : w[k] = Mult(r, v[k])
    BY <1>1
  <2> HIDE DEF w
  <2> QED
    BY <1>1, <1>4, <2>1, ProductScaled
<1>6. VectMult(row, At(u, v, r), j + 1) = Add(VectMult(row, u, j + 1), VectMult(row, w, j + 1))
  <2>1. \A k \in 0 .. (j + 1) - 1 : At(u, v, r)[k] = Add(u[k], w[k])
    BY <1>1, <1>3, AtTyped
  <2> HIDE DEF w
  <2> QED
    BY <1>1, <1>4, <2>1, ProductAdds
<1>7. At(u, v, r) \in Vectors(N)
  BY <1>3, AtTyped
<1> QED
  BY <1>5, <1>6, <1>7, MatTyped DEF row

\* Characteristic two, and the solution: the square vanishes.
LEMMA SquareVanishes ==
  ASSUME NEW a \in Field, NEW b \in Field, NEW c \in Field, NEW d \in Field, NEW r \in Field
  PROVE  Add(Add(Add(a, Mult(r, b)), Mult(r, Add(c, Mult(r, d)))), Mult(d, Mult(r, r)))
           = Add(a, Mult(r, Add(b, c)))
<1> DEFINE rb == Mult(r, b)
           rc == Mult(r, c)
           s == Mult(r, Mult(r, d))
<1>1. rb \in Field /\ rc \in Field /\ s \in Field /\ Mult(r, d) \in Field /\ Mult(r, r) \in Field
  BY Closed
<1>2. Mult(d, Mult(r, r)) = s
  BY <1>1, MultAssoc, Commutes
<1>3. Mult(r, Add(c, Mult(r, d))) = Add(rc, s)
  BY <1>1, Distributes
<1>4. Mult(r, Add(b, c)) = Add(rb, rc)
  BY Distributes
<1> HIDE DEF rb, rc, s
<1>5. Add(a, rb) \in Field /\ Add(rc, s) \in Field
  BY <1>1, Closed
<1>6. Add(Add(Add(a, rb), Add(rc, s)), s) = Add(Add(a, rb), Add(Add(rc, s), s))
  BY <1>1, <1>5, AddAssoc
<1>7. Add(Add(rc, s), s) = rc
  BY <1>1, AddAssoc, Closed
<1>8. Add(Add(a, rb), rc) = Add(a, Add(rb, rc))
  BY <1>1, AddAssoc
<1> QED
  BY <1>2, <1>3, <1>4, <1>6, <1>7, <1>8 DEF rb

\* z0 and z1 of an equation and a line.
PzOf(Mq, i, x0) == Pz(Mq, MatMult(Mq.A[i], x0), T1(Mq, i), x0)

\* t1 of an equation is a vector.
LEMMA T1Typed ==
  ASSUME NEW key, IsKey(key), NEW i \in Eqs
  PROVE  /\ T1(key.K, i) \in Vectors(N)
         /\ \A j \in 0 .. N - 1 : T1(key.K, i)[j] = Add(MatMult(key.K.A[i], key.K.x)[j], key.K.b[i][j])
<1>1. key.K.x \in Vectors(N) /\ key.K.b[i] \in Vectors(N)
  BY PIOPAssumption DEF IsKey, Vectors
<1>2. T1(key.K, i) = [j \in 0 .. N - 1 |-> Add(MatMult(key.K.A[i], key.K.x)[j], key.K.b[i][j])]
  BY <1>1, MatTyped DEF T1, VectAdd
<1>3. ASSUME NEW j \in 0 .. N - 1 PROVE Add(MatMult(key.K.A[i], key.K.x)[j], key.K.b[i][j]) \in Field
  <2>1. MatMult(key.K.A[i], key.K.x)[j] \in Field /\ key.K.b[i][j] \in Field
    BY <1>1, MatTyped DEF Vectors
  <2> QED
    BY <2>1, Closed
<1> QED
  BY <1>2, <1>3 DEF Vectors

\* P_z of an equation is the line of these.
LEMMA PzIsLine ==
  ASSUME NEW key, IsKey(key), NEW i \in Eqs, NEW x0 \in Vectors(N), NEW r \in Field
  PROVE  /\ PzOf(key.K, i, x0).z0 \in Field /\ PzOf(key.K, i, x0).z1 \in Field
         /\ ComputePzEval(key.K, r, At(x0, key.K.x, r))[i]
              = Add(PzOf(key.K, i, x0).z0, Mult(r, PzOf(key.K, i, x0).z1))
<1> DEFINE x == key.K.x
           b == key.K.b[i]
           v == At(x0, x, r)
           a0 == MatMult(key.K.A[i], x0)
           a1 == MatMult(key.K.A[i], x)
           av == MatMult(key.K.A[i], v)
           t1 == T1(key.K, i)
           w == VectAdd(av, ConstantVectMult(r, b))
           rt == [j \in 0 .. N - 1 |-> Mult(r, t1[j])]
           rx == [j \in 0 .. N - 1 |-> Mult(r, x[j])]
<1>1. /\ x \in Vectors(N) /\ b \in Vectors(N) /\ N \in Nat
      /\ key.K.y[i] = VectMult(t1, x, N)
  BY PIOPAssumption DEF IsKey, Vectors
<1>2. v \in Vectors(N) /\ \A j \in 0 .. N - 1 : v[j] = Add(x0[j], rx[j])
  BY <1>1, AtTyped
<1>3. /\ IsVector(a0, N) /\ IsVector(a1, N) /\ IsVector(av, N) /\ t1 \in Vectors(N)
      /\ DOMAIN av = 0 .. N - 1
      /\ \A j \in 0 .. N - 1 : av[j] = Add(a0[j], Mult(r, a1[j])) /\ t1[j] = Add(a1[j], b[j])
  BY <1>1, <1>2, MatTyped, MatLinear, T1Typed
<1>4. PzOf(key.K, i, x0) = [z0 |-> VectMult(a0, x0, N),
                            z1 |-> Add(VectMult(a0, x, N), VectMult(t1, x0, N))]
  BY DEF PzOf, Pz
<1>5. ComputePzEval(key.K, r, v)[i] = Add(VectMult(w, v, N), Mult(key.K.y[i], Mult(r, r)))
  BY DEF ComputePzEval
<1>6. DOMAIN w = 0 .. N - 1 /\ \A j \in 0 .. N - 1 : w[j] = Add(av[j], Mult(r, b[j]))
  BY <1>1, <1>3 DEF VectAdd, ConstantVectMult, Vectors
<1> HIDE DEF x, b, v, a0, a1, av, t1, w
<1>7. IsVector(x, N) /\ IsVector(b, N) /\ IsVector(v, N) /\ IsVector(t1, N) /\ IsVector(x0, N)
  BY <1>1, <1>2, <1>3 DEF IsVector, Vectors
<1>8. IsVector(rt, N) /\ IsVector(rx, N)
  BY <1>7, Closed DEF IsVector
<1>9. ASSUME NEW j \in 0 .. N - 1 PROVE w[j] = Add(a0[j], rt[j])
  <2>1. a0[j] \in Field /\ a1[j] \in Field /\ b[j] \in Field
    BY <1>3, <1>7 DEF IsVector
  <2>2. w[j] = Add(Add(a0[j], Mult(r, a1[j])), Mult(r, b[j]))
    BY <1>3, <1>6
  <2>3. rt[j] = Add(Mult(r, a1[j]), Mult(r, b[j]))
    BY <1>3, <2>1, Distributes
  <2>4. Mult(r, a1[j]) \in Field /\ Mult(r, b[j]) \in Field
    BY <2>1, Closed
  <2> QED
    BY <2>1, <2>2, <2>3, <2>4, AddAssoc
<1>10. \A j \in 0 .. N - 1 : rt[j] = Mult(r, t1[j]) /\ rx[j] = Mult(r, x[j])
  OBVIOUS
<1> HIDE DEF rt, rx
<1>11. /\ VectMult(w, v, N) = Add(VectMult(a0, v, N), VectMult(rt, v, N))
       /\ VectMult(rt, v, N) = Mult(r, VectMult(t1, v, N))
  <2>1. VectMult(w, v, N) = Add(VectMult(a0, v, N), VectMult(rt, v, N))
    <3>1. \A j \in 0 .. N - 1 : w[j] = Add(a0[j], rt[j])
      BY <1>9
    <3>2. IsVector(v, N) /\ IsVector(a0, N) /\ IsVector(rt, N) /\ N \in Nat
      BY <1>1, <1>3, <1>7, <1>8
    <3> QED
      BY <3>1, <3>2, ProductAdds
  <2>2. VectMult(rt, v, N) = Mult(r, VectMult(t1, v, N))
    BY <1>1, <1>7, <1>10, ProductScaled
  <2> QED
    BY <2>1, <2>2
<1>12. /\ VectMult(a0, v, N) = Add(VectMult(a0, x0, N), VectMult(a0, rx, N))
       /\ VectMult(t1, v, N) = Add(VectMult(t1, x0, N), VectMult(t1, rx, N))
  BY <1>1, <1>2, <1>3, <1>7, <1>8, ProductAdds
<1>13. /\ VectMult(a0, rx, N) = Mult(r, VectMult(a0, x, N))
       /\ VectMult(t1, rx, N) = Mult(r, VectMult(t1, x, N))
  BY <1>1, <1>3, <1>7, <1>10, ProductScaled
<1>14. /\ VectMult(a0, x0, N) \in Field /\ VectMult(a0, x, N) \in Field
       /\ VectMult(t1, x0, N) \in Field /\ VectMult(t1, x, N) \in Field
  BY <1>1, <1>3, <1>7, ProductTyped
<1>15. Add(VectMult(w, v, N), Mult(key.K.y[i], Mult(r, r)))
         = Add(VectMult(a0, x0, N), Mult(r, Add(VectMult(a0, x, N), VectMult(t1, x0, N))))
  BY <1>1, <1>11, <1>12, <1>13, <1>14, SquareVanishes
<1> QED
  BY <1>4, <1>5, <1>14, <1>15, Closed DEF v, x

\* In characteristic two, adding twice is adding nothing.
LEMMA Cancels == ASSUME NEW a \in Field, NEW b \in Field PROVE Add(Add(a, b), b) = a
<1>1. Add(Add(a, b), b) = Add(a, Add(b, b))
  BY AddAssoc
<1>2. Add(b, b) = 0 /\ Add(a, 0) = a
  BY Closed
<1> QED
  BY <1>1, <1>2

\* The batching matrix is one of the field.
LEMMA GammaTyped ==
  ASSUME NEW com \in Nat
  PROVE  \A j \in Rows : IsVector(ExpandBatchingChallenge(com)[j], NB_EQ)
<1>1. ASSUME NEW j \in Rows, NEW i \in 0 .. NB_EQ - 1
      PROVE  ExpandBatchingChallenge(com)[j][i] \in Field
  <2> DEFINE a == (com + 2) * (j + 1)
             c == (com + 2) \div 4
  <2>1. j \in Nat /\ i \in Nat /\ i \in Eqs
    BY PIOPAssumption DEF Rows, Eqs
  <2>2. com + 2 \in Nat /\ j + 1 \in Nat
    BY <2>1
  <2>3. a \in Nat
    BY <2>2
  <2>4. c \in Nat
    BY <2>2
  <2>5. ExpandBatchingChallenge(com)[j][i] = (a + c + 3 * i + 1) % 4
    BY <2>1 DEF ExpandBatchingChallenge
  <2> HIDE DEF a, c
  <2> QED
    BY <2>1, <2>3, <2>4, <2>5 DEF Field
<1> QED
  BY <1>1 DEF IsVector

\* alpha0 and alpha1 of one execution, whose commitment is com.
AlphaOf(Mq, com, x0, u0, u1) ==
  [alpha0 |-> BatchAndMask(ExpandBatchingChallenge(com), [i \in Eqs |-> PzOf(Mq, i, x0).z0], u0),
   alpha1 |-> BatchAndMask(ExpandBatchingChallenge(com), [i \in Eqs |-> PzOf(Mq, i, x0).z1], u1)]

\* alpha0 recomputed at a point.
AlphaFrom(Mq, com, a1, r, v_x, u) ==
  Unmask(ExpandBatchingChallenge(com), ComputePzEval(Mq, r, v_x), u, r, a1)

LineOfKey(key, k) == AlphaOf(key.K, k, key.x0[k], key.u0[k], key.u1[k])

\* P_alpha of the definition is the line of these.
LEMMA PAlphaIsLine ==
  ASSUME NEW key, IsKey(key), NEW k \in Execs, NEW r \in Field
  PROVE  /\ LineOfKey(key, k).alpha0 \in Vectors(ETA) /\ LineOfKey(key, k).alpha1 \in Vectors(ETA)
         /\ PAlphaAt(key, k, r) = [j \in Rows |-> Add(LineOfKey(key, k).alpha0[j],
                                                      Mult(r, LineOfKey(key, k).alpha1[j]))]
         /\ BatchAndMask(ExpandBatchingChallenge(k), ComputePzEval(key.K, r, At(key.x0[k], key.K.x, r)),
                         At(key.u0[k], key.u1[k], r)) = PAlphaAt(key, k, r)
<1> DEFINE x0 == key.x0[k]
           u0 == key.u0[k]
           u1 == key.u1[k]
           G == ExpandBatchingChallenge(k)
           z0 == [i \in Eqs |-> PzOf(key.K, i, x0).z0]
           z1 == [i \in Eqs |-> PzOf(key.K, i, x0).z1]
           rz1 == [i \in Eqs |-> Mult(r, z1[i])]
           vz == ComputePzEval(key.K, r, At(x0, key.K.x, r))
           vu == At(u0, u1, r)
<1>1. /\ x0 \in Vectors(N) /\ u0 \in Vectors(ETA) /\ u1 \in Vectors(ETA) /\ k \in Nat
      /\ Eqs = 0 .. NB_EQ - 1 /\ Rows = 0 .. ETA - 1 /\ NB_EQ \in Nat /\ ETA \in Nat
  BY PIOPAssumption DEF IsKey, Vectors, Execs, Eqs, Rows
<1>2. /\ LineOfKey(key, k) = [alpha0 |-> BatchAndMask(G, z0, u0), alpha1 |-> BatchAndMask(G, z1, u1)]
  BY DEF LineOfKey, AlphaOf
<1>3. /\ PzAt(key, k, r) = vz
      /\ PAlphaAt(key, k, r) = [j \in Rows |-> Add(VectMult(G[j], vz, NB_EQ), vu[j])]
      /\ BatchAndMask(G, vz, vu) = [j \in Rows |-> Add(VectMult(G[j], vz, NB_EQ), vu[j])]
  <2>1. PzAt(key, k, r) = vz
    BY DEF PzAt, ComputePzEval
  <2>2. PAlphaAt(key, k, r)
          = VectAdd([j \in Rows |-> VectMult(G[j], PzAt(key, k, r), NB_EQ)], vu)
    BY DEF PAlphaAt
  <2> HIDE DEF vz, vu, G
  <2> QED
    BY <2>1, <2>2 DEF VectAdd, BatchAndMask
<1>4. \A i \in Eqs : /\ z0[i] \in Field /\ z1[i] \in Field
                     /\ vz[i] = Add(z0[i], rz1[i])
  <2> SUFFICES ASSUME NEW i \in Eqs
               PROVE  /\ z0[i] \in Field /\ z1[i] \in Field
                      /\ vz[i] = Add(z0[i], rz1[i])
    OBVIOUS
  <2>1. /\ z0[i] = PzOf(key.K, i, x0).z0 /\ z1[i] = PzOf(key.K, i, x0).z1
        /\ rz1[i] = Mult(r, z1[i])
    OBVIOUS
  <2> HIDE DEF z0, z1, vz, rz1, x0
  <2> QED
    BY <1>1, <2>1, PzIsLine DEF vz
<1>5. \A j \in Rows : vu[j] = Add(u0[j], Mult(r, u1[j])) /\ u0[j] \in Field /\ u1[j] \in Field
  <2> HIDE DEF u0, u1
  <2> QED
    BY <1>1, AtTyped DEF Vectors
<1>6. \A i \in Eqs : rz1[i] = Mult(r, z1[i])
  OBVIOUS
<1>7. \A j \in Rows : IsVector(G[j], NB_EQ)
  BY <1>1, GammaTyped
<1> HIDE DEF z0, z1, rz1, vz, vu, G, x0, u0, u1
<1>8. IsVector(z0, NB_EQ) /\ IsVector(z1, NB_EQ) /\ IsVector(rz1, NB_EQ) /\ IsVector(vz, NB_EQ)
  <2>1. ASSUME NEW i \in Eqs PROVE rz1[i] \in Field /\ vz[i] \in Field
    <3>1. z0[i] \in Field /\ z1[i] \in Field
      BY <1>4
    <3>2. rz1[i] \in Field
      BY <1>6, <3>1, Closed
    <3> QED
      BY <1>4, <3>1, <3>2, Closed
  <2> QED
    BY <1>1, <1>4, <2>1 DEF IsVector
<1>9. ASSUME NEW j \in Rows
      PROVE  /\ VectMult(G[j], z0, NB_EQ) \in Field /\ VectMult(G[j], z1, NB_EQ) \in Field
             /\ VectMult(G[j], vz, NB_EQ)
                  = Add(VectMult(G[j], z0, NB_EQ), Mult(r, VectMult(G[j], z1, NB_EQ)))
  <2>1. VectMult(G[j], vz, NB_EQ) = Add(VectMult(G[j], z0, NB_EQ), VectMult(G[j], rz1, NB_EQ))
    BY <1>1, <1>4, <1>7, <1>8, ProductAdds
  <2>2. VectMult(G[j], rz1, NB_EQ) = Mult(r, VectMult(G[j], z1, NB_EQ))
    BY <1>1, <1>6, <1>7, <1>8, ProductScaled
  <2> QED
    BY <1>1, <1>7, <1>8, <2>1, <2>2, ProductTyped
<1>10. ASSUME NEW j \in Rows
       PROVE  /\ LineOfKey(key, k).alpha0[j] = Add(VectMult(G[j], z0, NB_EQ), u0[j])
              /\ LineOfKey(key, k).alpha1[j] = Add(VectMult(G[j], z1, NB_EQ), u1[j])
              /\ LineOfKey(key, k).alpha0[j] \in Field /\ LineOfKey(key, k).alpha1[j] \in Field
  <2>1. /\ LineOfKey(key, k).alpha0[j] = Add(VectMult(G[j], z0, NB_EQ), u0[j])
        /\ LineOfKey(key, k).alpha1[j] = Add(VectMult(G[j], z1, NB_EQ), u1[j])
    BY <1>2 DEF BatchAndMask
  <2> QED
    BY <1>5, <1>9, <2>1, Closed
<1>11. ASSUME NEW j \in Rows
       PROVE  Add(VectMult(G[j], vz, NB_EQ), vu[j])
                = Add(LineOfKey(key, k).alpha0[j], Mult(r, LineOfKey(key, k).alpha1[j]))
  <2> DEFINE g0 == VectMult(G[j], z0, NB_EQ)
             g1 == VectMult(G[j], z1, NB_EQ)
  <2>1. g0 \in Field /\ g1 \in Field /\ u0[j] \in Field /\ u1[j] \in Field
    BY <1>5, <1>9
  <2>2. /\ VectMult(G[j], vz, NB_EQ) = Add(g0, Mult(r, g1))
        /\ vu[j] = Add(u0[j], Mult(r, u1[j]))
        /\ LineOfKey(key, k).alpha0[j] = Add(g0, u0[j])
        /\ LineOfKey(key, k).alpha1[j] = Add(g1, u1[j])
    BY <1>5, <1>9, <1>10
  <2> HIDE DEF g0, g1
  <2>3. Mult(r, Add(g1, u1[j])) = Add(Mult(r, g1), Mult(r, u1[j]))
    BY <2>1, Distributes
  <2>4. Mult(r, g1) \in Field /\ Mult(r, u1[j]) \in Field
    BY <2>1, Closed
  <2> QED
    BY <2>1, <2>2, <2>3, <2>4, Exchange
<1>12. /\ LineOfKey(key, k).alpha0 \in Vectors(ETA) /\ LineOfKey(key, k).alpha1 \in Vectors(ETA)
  <2>1. /\ LineOfKey(key, k).alpha0 = [j \in Rows |-> Add(VectMult(G[j], z0, NB_EQ), u0[j])]
        /\ LineOfKey(key, k).alpha1 = [j \in Rows |-> Add(VectMult(G[j], z1, NB_EQ), u1[j])]
    BY <1>2 DEF BatchAndMask
  <2> QED
    BY <1>1, <1>10, <2>1 DEF Vectors
<1>13. PAlphaAt(key, k, r) = [j \in Rows |-> Add(LineOfKey(key, k).alpha0[j],
                                                Mult(r, LineOfKey(key, k).alpha1[j]))]
  BY <1>3, <1>11
<1>14. BatchAndMask(ExpandBatchingChallenge(k), ComputePzEval(key.K, r, At(key.x0[k], key.K.x, r)),
                    At(key.u0[k], key.u1[k], r)) = PAlphaAt(key, k, r)
  BY <1>3 DEF G, vz, vu, x0, u0, u1
<1> QED
  BY <1>12, <1>13, <1>14

\* What the definition signs, and what a verifier recomputes from a point.
LEMMA AlphaExact ==
  ASSUME NEW key, IsKey(key), NEW k \in Execs
  PROVE  /\ PAlphaAt(key, k, 0) = LineOfKey(key, k).alpha0
         /\ VectAdd(PAlphaAt(key, k, 1), PAlphaAt(key, k, 0)) = LineOfKey(key, k).alpha1
         /\ \A r \in Field : AlphaFrom(key.K, k, LineOfKey(key, k).alpha1, r,
                                       At(key.x0[k], key.K.x, r), At(key.u0[k], key.u1[k], r))
                               = LineOfKey(key, k).alpha0
<1> DEFINE a0 == LineOfKey(key, k).alpha0
           a1 == LineOfKey(key, k).alpha1
           Q(r) == PAlphaAt(key, k, r)
<1>1. /\ a0 \in Vectors(ETA) /\ a1 \in Vectors(ETA)
      /\ \A r \in Field : Q(r) = [j \in Rows |-> Add(a0[j], Mult(r, a1[j]))]
      /\ 0 \in Field /\ 1 \in Field
  BY PAlphaIsLine, Closed
<1>2. \A r \in Field : BatchAndMask(ExpandBatchingChallenge(k),
                         ComputePzEval(key.K, r, At(key.x0[k], key.K.x, r)),
                         At(key.u0[k], key.u1[k], r)) = Q(r)
  BY PAlphaIsLine
<1>3. \A r \in Field : AlphaFrom(key.K, k, a1, r, At(key.x0[k], key.K.x, r), At(key.u0[k], key.u1[k], r))
                         = VectAdd(Q(r), ConstantVectMult(r, a1))
  BY <1>2 DEF AlphaFrom, Unmask
<1> HIDE DEF a0, a1, Q
<1>4. \A j \in Rows : a0[j] \in Field /\ a1[j] \in Field
  BY <1>1 DEF Vectors, Rows
<1>5. /\ \A a \in Vectors(ETA) : a = [j \in Rows |-> a[j]]
      /\ DOMAIN a1 = Rows
  BY <1>1 DEF Vectors, Rows
<1>6. Q(0) = a0
  <2>1. ASSUME NEW j \in Rows PROVE Add(a0[j], Mult(0, a1[j])) = a0[j]
    BY <1>4, Closed
  <2> QED
    BY <1>1, <1>5, <2>1
<1>7. VectAdd(Q(1), Q(0)) = a1
  <2>1. VectAdd(Q(1), Q(0)) = [j \in Rows |-> Add(Add(a0[j], a1[j]), a0[j])]
    <3>1. ASSUME NEW j \in Rows PROVE Mult(1, a1[j]) = a1[j]
      BY <1>4, Closed
    <3>2. Q(1) = [j \in Rows |-> Add(a0[j], a1[j])]
      BY <1>1, <3>1
    <3> QED
      BY <1>6, <3>2 DEF VectAdd
  <2>2. ASSUME NEW j \in Rows PROVE Add(Add(a0[j], a1[j]), a0[j]) = a1[j]
    <3>1. a0[j] \in Field /\ a1[j] \in Field
      BY <1>4
    <3>2. Add(Add(a0[j], a1[j]), a0[j]) = Add(Add(a1[j], a0[j]), a0[j])
      BY <3>1, Commutes
    <3> QED
      BY <3>1, <3>2, Cancels
  <2> QED
    BY <1>1, <1>5, <2>1, <2>2
<1>8. ASSUME NEW r \in Field PROVE VectAdd(Q(r), ConstantVectMult(r, a1)) = a0
  <2>1. VectAdd(Q(r), ConstantVectMult(r, a1))
          = [j \in Rows |-> Add(Add(a0[j], Mult(r, a1[j])), Mult(r, a1[j]))]
    BY <1>1, <1>5 DEF VectAdd, ConstantVectMult
  <2>2. ASSUME NEW j \in Rows PROVE Add(Add(a0[j], Mult(r, a1[j])), Mult(r, a1[j])) = a0[j]
    <3>1. a0[j] \in Field /\ Mult(r, a1[j]) \in Field
      BY <1>4, Closed
    <3> QED
      BY <3>1, Cancels
  <2> QED
    BY <1>1, <1>5, <2>1, <2>2
<1> QED
  BY <1>3, <1>6, <1>7, <1>8 DEF a0, a1, Q

-----------------------------------------------------------------------------
(***************************************************************************)
(* The builds of sign.c and of the memory efficient one: gammas in groups, *)
(* tables of products cached or not, executions in batches, all give the   *)
(* alphas of each execution.                                               *)
(***************************************************************************)
\* alpha0 and alpha1 of n executions.
AlphasOf(Mq, n, com, x0, u0, u1) ==
  [alpha0 |-> [s \in 0 .. n - 1 |-> AlphaOf(Mq, com[s], x0[s], u0[s], u1[s]).alpha0],
   alpha1 |-> [s \in 0 .. n - 1 |-> AlphaOf(Mq, com[s], x0[s], u0[s], u1[s]).alpha1]]

AlphasFrom(Mq, n, com, a1, points, v_x, u) ==
  [s \in 0 .. n - 1 |-> AlphaFrom(Mq, com[s], a1[s], get_evaluation_point(points[s]), v_x[s], u[s])]

\* A group of executions, with the executions in it.
LEMMA Groups ==
  ASSUME NEW k \in Execs, NEW g \in Nat \ {0}
  PROVE  /\ k % g \in 0 .. g - 1 /\ k - (k % g) \in Execs
         /\ k % g \in 0 .. Min2(g, TAU - (k - (k % g))) - 1
         /\ k % g \in 0 .. TAU - 1 - (k - (k % g))
         /\ (k - (k % g)) + (k % g) = k
         /\ k - (k - (k % g)) = k % g
         /\ (k - (k % g)) % g = 0
         /\ Min2(g, TAU - (k - (k % g))) \in Nat
<1> DEFINE m == k % g
           q == k \div g
<1>1. k \in Nat /\ k < TAU /\ TAU \in Nat /\ g \in Nat /\ g > 0
  BY PIOPAssumption DEF Execs
<1>2. q \in Nat /\ m \in 0 .. g - 1 /\ k = g * q + m
  BY <1>1
<1>3. (k - m) % g = 0
  <2>1. k - m = g * q
    BY <1>1, <1>2
  <2>2. (g * q) % g = 0
    BY <1>1, <1>2
  <2> QED
    BY <2>1, <2>2
<1>4. g * q \in Nat
  BY <1>1, <1>2
<1> DEFINE gq == g * q
<1>5. gq \in Nat /\ k = gq + m /\ m \in 0 .. g - 1
  BY <1>2, <1>4
<1> HIDE DEF m, q, gq
<1>6. /\ k - m \in Nat /\ k - m <= k /\ (k - m) + m = k /\ k - (k - m) = m
  BY <1>1, <1>5
<1>7. Min2(g, TAU - (k - m)) = IF g < TAU - (k - m) THEN g ELSE TAU - (k - m)
  BY DEF Min2
<1>8. m \in 0 .. TAU - 1 - (k - m) /\ m \in 0 .. TAU - (k - m) - 1
  BY <1>1, <1>5, <1>6
<1>9. k - m \in Execs
  BY <1>1, <1>6 DEF Execs
<1>10. m \in 0 .. Min2(g, TAU - (k - m)) - 1 /\ Min2(g, TAU - (k - m)) \in Nat
  BY <1>1, <1>5, <1>6, <1>7, <1>8
<1> QED
  BY <1>3, <1>5, <1>6, <1>8, <1>9, <1>10 DEF m

\* Gamma of an execution is that of its commitment.
LEMMA GammaExact ==
  ASSUME NEW com, NEW k \in Execs, NEW g \in Nat \ {0}
  PROVE  GammaOf(com, k, g) = ExpandBatchingChallenge(com[k])
<1> DEFINE first == k - (k % g)
           ptrs == [z \in 0 .. Min2(g, TAU - first) - 1 |-> com[first + z]]
<1>1. GammaOf(com, k, g) = ExpandBatchingChallenge_batch(ptrs)[k - first]
  BY DEF GammaOf
<1>2. k - first \in 0 .. Min2(g, TAU - first) - 1 /\ first + (k - first) = k
  BY Groups
<1> HIDE DEF first
<1>3. k - first \in DOMAIN ptrs /\ ptrs[k - first] = com[k]
  BY <1>2
<1> HIDE DEF ptrs
<1> QED
  BY <1>1, <1>3 DEF ExpandBatchingChallenge_batch

\* The cache before an execution.
CachesOf(c, Mq, cached) ==
  c = [s \in 0 .. TAU |-> IF s = 0 THEN <<>> ELSE CacheAfter(Mq, c[s - 1], cached)]

\* It holds t1 of the equations it has.
LEMMA CacheExact ==
  ASSUME NEW Mq, NEW cached \in BOOLEAN, NEW c, c = CHOOSE d : CachesOf(d, Mq, cached)
  PROVE  \A k \in Execs, i \in Eqs : compute_t1(Mq, i, c[k]) = T1(Mq, i)
<1> DEFINE Filled == [i \in Eqs |-> T1(Mq, i)]
           f == [s \in 0 .. TAU |-> IF s = 0 \/ ~cached THEN <<>> ELSE Filled]
           Right(d) == \A i \in Eqs : compute_t1(Mq, i, d) = T1(Mq, i)
<1>1. Right(<<>>) /\ Right(Filled)
  <2>1. DOMAIN <<>> = {} /\ DOMAIN Filled = Eqs /\ \A i \in Eqs : Filled[i] = T1(Mq, i)
    OBVIOUS
  <2> HIDE DEF Filled
  <2> QED
    BY <2>1 DEF compute_t1
<1>2. /\ CacheAfter(Mq, <<>>, cached) = IF cached THEN Filled ELSE <<>>
      /\ cached => CacheAfter(Mq, Filled, cached) = Filled
  BY <1>1 DEF CacheAfter
<1> HIDE DEF Filled
<1>3. CachesOf(f, Mq, cached)
  <2>1. ASSUME NEW s \in 0 .. TAU
        PROVE  f[s] = IF s = 0 THEN <<>> ELSE CacheAfter(Mq, f[s - 1], cached)
    <3>1. CASE s = 0
      BY <3>1
    <3>2. CASE s # 0
      <4>1. s - 1 \in 0 .. TAU
        BY <3>2, PIOPAssumption
      <4>2. f[s - 1] = IF s - 1 = 0 \/ ~cached THEN <<>> ELSE Filled
        BY <4>1
      <4> QED
        BY <1>2, <3>2, <4>2
    <3> QED
      BY <3>1, <3>2
  <2> HIDE DEF f
  <2>2. f = [s \in 0 .. TAU |-> f[s]]
    BY DEF f
  <2> QED
    BY <2>1, <2>2 DEF CachesOf
<1>4. CachesOf(c, Mq, cached)
  BY <1>3
<1>5. \A s \in 0 .. TAU : c[s] = IF s = 0 THEN <<>> ELSE CacheAfter(Mq, c[s - 1], cached)
  BY <1>4 DEF CachesOf
<1>6. TAU \in Nat
  BY PIOPAssumption
<1> DEFINE Good == {s \in Nat : s <= TAU => Right(c[s])}
<1>7. 0 \in Good
  BY <1>1, <1>5, <1>6
<1>8. ASSUME NEW s \in Nat, s \in Good PROVE s + 1 \in Good
  <2> SUFFICES ASSUME s + 1 <= TAU PROVE Right(c[s + 1])
    OBVIOUS
  <2>1. s + 1 \in 0 .. TAU /\ s + 1 # 0 /\ (s + 1) - 1 = s /\ Right(c[s])
    BY <1>6, <1>8
  <2>2. c[s + 1] = CacheAfter(Mq, c[s], cached)
    BY <1>5, <2>1
  <2>3. CASE ~cached
    BY <2>1, <2>2, <2>3 DEF CacheAfter
  <2>4. CASE cached
    <3>1. c[s + 1] = Filled
      BY <2>1, <2>2, <2>4 DEF CacheAfter, Filled
    <3> QED
      BY <1>1, <3>1
  <2> QED
    BY <2>3, <2>4
<1> HIDE DEF Good
<1>9. Nat \subseteq Good
  BY <1>7, <1>8, AllNumbers
<1>10. ASSUME NEW k \in Execs PROVE Right(c[k])
  <2>1. k \in Nat /\ k <= TAU
    BY <1>6 DEF Execs
  <2> QED
    BY <1>9, <2>1 DEF Good
<1> QED
  BY <1>10

\* ComputePAlpha of the default build, in batches of gammas, cached or not.
LEMMA DefaultSigns ==
  ASSUME NEW Mq, NEW com, NEW x0, NEW u0, NEW u1, NEW g \in Nat \ {0}, NEW cached \in BOOLEAN
  PROVE  ComputePAlpha_default(Mq, com, x0, u0, u1, g, cached) = AlphasOf(Mq, TAU, com, x0, u0, u1)
<1> DEFINE c == CHOOSE d : CachesOf(d, Mq, cached)
           pz == [e_ \in Execs |-> ComputePz(Mq, x0[e_], c[e_])]
<1>1. ComputePAlpha_default(Mq, com, x0, u0, u1, g, cached)
        = [alpha0 |-> [e_ \in Execs |-> BatchAndMask(GammaOf(com, e_, g), pz[e_].z0, u0[e_])],
           alpha1 |-> [e_ \in Execs |-> BatchAndMask(GammaOf(com, e_, g), pz[e_].z1, u1[e_])]]
  BY DEF ComputePAlpha_default, CachesOf
<1>2. \A k \in Execs, i \in Eqs : compute_t1(Mq, i, c[k]) = T1(Mq, i)
  BY CacheExact
<1> HIDE DEF c
<1>3. ASSUME NEW k \in Execs
      PROVE  /\ pz[k].z0 = [i \in Eqs |-> PzOf(Mq, i, x0[k]).z0]
             /\ pz[k].z1 = [i \in Eqs |-> PzOf(Mq, i, x0[k]).z1]
  <2>1. pz[k] = ComputePz(Mq, x0[k], c[k])
    OBVIOUS
  <2> DEFINE q == [i \in Eqs |-> Pz(Mq, MatMult(Mq.A[i], x0[k]), compute_t1(Mq, i, c[k]), x0[k])]
  <2>2. ComputePz(Mq, x0[k], c[k]) = [z0 |-> [i \in Eqs |-> q[i].z0], z1 |-> [i \in Eqs |-> q[i].z1]]
    BY DEF ComputePz
  <2>3. \A i \in Eqs : q[i] = PzOf(Mq, i, x0[k])
    BY <1>2 DEF PzOf
  <2> HIDE DEF q, pz
  <2> QED
    BY <2>1, <2>2, <2>3
<1> HIDE DEF pz
<1>4. \A k \in Execs : GammaOf(com, k, g) = ExpandBatchingChallenge(com[k])
  BY GammaExact
<1>5. Execs = 0 .. TAU - 1
  BY DEF Execs
<1> QED
  BY <1>1, <1>3, <1>4, <1>5 DEF AlphasOf, AlphaOf

\* RecomputePAlpha of the default build.
LEMMA DefaultVerifies ==
  ASSUME NEW Mq, NEW com, NEW a1, NEW points, NEW v_x, NEW u, NEW g \in Nat \ {0}
  PROVE  RecomputePAlpha_default(Mq, com, a1, points, v_x, u, g) = AlphasFrom(Mq, TAU, com, a1, points, v_x, u)
<1>1. \A k \in Execs : GammaOf(com, k, g) = ExpandBatchingChallenge(com[k])
  BY GammaExact
<1>2. Execs = 0 .. TAU - 1
  BY DEF Execs
<1> QED
  BY <1>1, <1>2 DEF RecomputePAlpha_default, AlphasFrom, AlphaFrom

\* A batch of the memory efficient build.
LEMMA MemoptSigns ==
  ASSUME NEW key, IsKey(key), NEW n, NEW com, NEW x0, NEW u0, NEW u1
  PROVE  ComputePAlpha_partial_memopt(key.K, n, com, x0, u0, u1) = AlphasOf(key.K, n, com, x0, u0, u1)
<1> DEFINE Mq == key.K
           t1 == [i \in Eqs |-> [j \in 0 .. N - 1 |-> Add(VectMult(Mq.A[i][j], Mq.x, j + 1), Mq.b[i][j])]]
           t0 == [e_ \in 0 .. n - 1 |-> [i \in Eqs |-> MatMult(Mq.A[i], x0[e_])]]
           pz == [e_ \in 0 .. n - 1 |-> [i \in Eqs |-> Pz(Mq, t0[e_][i], t1[i], x0[e_])]]
           z == ComputePz_multiple(Mq, n, x0)
<1>1. z = [z0 |-> [e_ \in 0 .. n - 1 |-> [i \in Eqs |-> pz[e_][i].z0]],
           z1 |-> [e_ \in 0 .. n - 1 |-> [i \in Eqs |-> pz[e_][i].z1]]]
  BY DEF ComputePz_multiple
<1>2. ASSUME NEW i \in Eqs PROVE t1[i] = T1(Mq, i)
  <2>1. key.K.x \in Vectors(N)
    BY DEF IsKey, Vectors
  <2>2. T1(Mq, i) = [j \in 0 .. N - 1 |-> Add(MatMult(Mq.A[i], Mq.x)[j], Mq.b[i][j])]
    BY <2>1, MatTyped DEF T1, VectAdd
  <2>3. \A j \in 0 .. N - 1 : MatMult(Mq.A[i], Mq.x)[j] = VectMult(Mq.A[i][j], Mq.x, j + 1)
    BY <2>1, MatTyped
  <2> QED
    BY <2>2, <2>3
<1>3. ASSUME NEW s \in 0 .. n - 1, NEW i \in Eqs PROVE pz[s][i] = PzOf(Mq, i, x0[s])
  <2>1. pz[s][i] = Pz(Mq, MatMult(Mq.A[i], x0[s]), t1[i], x0[s])
    OBVIOUS
  <2> HIDE DEF pz, t1
  <2> QED
    BY <1>2, <2>1 DEF PzOf
<1> HIDE DEF pz, z
<1>4. \A s \in 0 .. n - 1 : /\ z.z0[s] = [i \in Eqs |-> PzOf(Mq, i, x0[s]).z0]
                            /\ z.z1[s] = [i \in Eqs |-> PzOf(Mq, i, x0[s]).z1]
  BY <1>1, <1>3
<1>5. ComputePAlpha_partial_memopt(Mq, n, com, x0, u0, u1)
        = [alpha0 |-> [s \in 0 .. n - 1 |-> BatchAndMask(ExpandBatchingChallenge(com[s]), z.z0[s], u0[s])],
           alpha1 |-> [s \in 0 .. n - 1 |-> BatchAndMask(ExpandBatchingChallenge(com[s]), z.z1[s], u1[s])]]
  BY DEF ComputePAlpha_partial_memopt, z
<1> HIDE DEF Mq
<1> QED
  BY <1>4, <1>5 DEF AlphasOf, AlphaOf, Mq

\* The same of a batch of a verifier.
LEMMA MemoptVerifies ==
  ASSUME NEW Mq, NEW n, NEW com, NEW a1, NEW points, NEW v_x, NEW u
  PROVE  RecomputePAlpha_partial_memopt(Mq, n, com, a1, points, v_x, u) = AlphasFrom(Mq, n, com, a1, points, v_x, u)
<1> DEFINE r == [e_ \in 0 .. n - 1 |-> get_evaluation_point(points[e_])]
           v_z == ComputePzEval_multiple(Mq, n, r, v_x)
<1>1. RecomputePAlpha_partial_memopt(Mq, n, com, a1, points, v_x, u)
        = [e_ \in 0 .. n - 1 |-> Unmask(ExpandBatchingChallenge(com[e_]), v_z[e_], u[e_], r[e_], a1[e_])]
  BY DEF RecomputePAlpha_partial_memopt
<1>2. \A s \in 0 .. n - 1 : /\ r[s] = get_evaluation_point(points[s])
                            /\ v_z[s] = ComputePzEval(Mq, get_evaluation_point(points[s]), v_x[s])
  BY DEF ComputePzEval_multiple
<1> HIDE DEF r, v_z
<1> QED
  BY <1>1, <1>2 DEF AlphasFrom, AlphaFrom

\* All executions, a batch at a time.
LEMMA BatchesSign ==
  ASSUME NEW key, IsKey(key), NEW com, NEW x0, NEW u0, NEW u1, NEW nb \in Nat \ {0}
  PROVE  ComputePAlpha_memopt(key.K, com, x0, u0, u1, nb) = AlphasOf(key.K, TAU, com, x0, u0, u1)
<1> DEFINE Mq == key.K
           part(k) == LET s == BatchStart(k, nb)
                      IN  ComputePAlpha_partial_memopt(Mq, BatchReps(k, nb), From(com, s), From(x0, s),
                                                       From(u0, s), From(u1, s))
           parts == [s \in {BatchStart(e_, nb) : e_ \in Execs} |-> part(s)]
<1>1. ComputePAlpha_memopt(Mq, com, x0, u0, u1, nb)
        = [alpha0 |-> [e_ \in Execs |-> parts[BatchStart(e_, nb)].alpha0[e_ % nb]],
           alpha1 |-> [e_ \in Execs |-> parts[BatchStart(e_, nb)].alpha1[e_ % nb]]]
  BY DEF ComputePAlpha_memopt
<1>2. ASSUME NEW k \in Execs
      PROVE  /\ parts[BatchStart(k, nb)].alpha0[k % nb] = AlphaOf(Mq, com[k], x0[k], u0[k], u1[k]).alpha0
             /\ parts[BatchStart(k, nb)].alpha1[k % nb] = AlphaOf(Mq, com[k], x0[k], u0[k], u1[k]).alpha1
  <2> DEFINE s == BatchStart(k, nb)
             m == k % nb
  <2>1. parts[s] = part(s)
    OBVIOUS
  <2>2. s \in Execs /\ s % nb = 0 /\ m \in 0 .. Min2(nb, TAU - s) - 1 /\ m \in 0 .. TAU - 1 - s /\ s + m = k
    BY Groups DEF BatchStart
  <2> HIDE DEF s, m, parts
  <2>3. BatchStart(s, nb) = s /\ BatchReps(s, nb) = Min2(nb, TAU - s)
    <3>1. s \in Int
      BY <2>2 DEF Execs
    <3> QED
      BY <2>2, <3>1 DEF BatchStart, BatchReps
  <2>4. part(s) = AlphasOf(Mq, Min2(nb, TAU - s), From(com, s), From(x0, s), From(u0, s), From(u1, s))
    BY <2>3, MemoptSigns
  <2>5. \A a : From(a, s)[m] = a[k]
    BY <2>2 DEF From
  <2>6. /\ part(s).alpha0[m] = AlphaOf(Mq, com[k], x0[k], u0[k], u1[k]).alpha0
        /\ part(s).alpha1[m] = AlphaOf(Mq, com[k], x0[k], u0[k], u1[k]).alpha1
    <3> HIDE DEF part
    <3> QED
      BY <2>2, <2>4, <2>5 DEF AlphasOf
  <2> QED
    BY <2>1, <2>6 DEF s, m
<1> HIDE DEF parts, Mq
<1> QED
  BY <1>1, <1>2 DEF AlphasOf, Execs, Mq

\* The same of a verifier.
LEMMA BatchesVerify ==
  ASSUME NEW Mq, NEW com, NEW a1, NEW points, NEW v_x, NEW u, NEW nb \in Nat \ {0}
  PROVE  RecomputePAlpha_memopt(Mq, com, a1, points, v_x, u, nb) = AlphasFrom(Mq, TAU, com, a1, points, v_x, u)
<1> DEFINE r == [e_ \in Execs |-> get_evaluation_point(points[e_])]
           v_z == [s \in {BatchStart(e_, nb) : e_ \in Execs} |->
                     ComputePzEval_multiple(Mq, BatchReps(s, nb), From(r, s), From(v_x, s))]
<1>1. RecomputePAlpha_memopt(Mq, com, a1, points, v_x, u, nb)
        = [e_ \in Execs |-> Unmask(ExpandBatchingChallenge(com[e_]), v_z[BatchStart(e_, nb)][e_ % nb],
                                   u[e_], r[e_], a1[e_])]
  BY DEF RecomputePAlpha_memopt
<1>2. ASSUME NEW k \in Execs
      PROVE  /\ r[k] = get_evaluation_point(points[k])
             /\ v_z[BatchStart(k, nb)][k % nb] = ComputePzEval(Mq, r[k], v_x[k])
  <2> DEFINE s == BatchStart(k, nb)
             m == k % nb
  <2>1. v_z[s] = ComputePzEval_multiple(Mq, BatchReps(s, nb), From(r, s), From(v_x, s))
    OBVIOUS
  <2>2. s \in Execs /\ s % nb = 0 /\ m \in 0 .. Min2(nb, TAU - s) - 1 /\ m \in 0 .. TAU - 1 - s /\ s + m = k
    BY Groups DEF BatchStart
  <2>3. r[k] = get_evaluation_point(points[k])
    OBVIOUS
  <2> HIDE DEF s, m, v_z, r
  <2>4. BatchReps(s, nb) = Min2(nb, TAU - s)
    <3>1. s \in Int
      BY <2>2 DEF Execs
    <3> QED
      BY <2>2, <3>1 DEF BatchStart, BatchReps
  <2>5. \A a : From(a, s)[m] = a[k]
    BY <2>2 DEF From
  <2>6. v_z[s][m] = ComputePzEval(Mq, r[k], v_x[k])
    BY <2>1, <2>2, <2>4, <2>5 DEF ComputePzEval_multiple
  <2> QED
    BY <2>3, <2>6 DEF s, m
<1> HIDE DEF v_z, r
<1> QED
  BY <1>1, <1>2 DEF AlphasFrom, AlphaFrom, Execs

-----------------------------------------------------------------------------
(***************************************************************************)
(* The lanes of the bitsliced build.  An element is at a place of a word   *)
(* of its lane; sums, products and matrices act on every lane as on a      *)
(* vector, whatever the word, the tail, or the representation.             *)
(***************************************************************************)
\* A build in lanes.
IsSliced(B) == B.word \in Nat \ {0} /\ B.limit \in Nat /\ B.composite \in BOOLEAN /\ B.factored \in BOOLEAN

\* The representation of a lane respects sums and products.
LEMMA LaneField ==
  ASSUME NEW B, IsSliced(B)
  PROVE  /\ \A a \in Field : ToLane(B, a) \in Field /\ OfLane(B, ToLane(B, a)) = a
         /\ \A a, b \in Field : /\ ToLane(B, Add(a, b)) = Add(ToLane(B, a), ToLane(B, b))
                                /\ ToLane(B, Mult(a, b)) = Mult(ToLane(B, a), ToLane(B, b))
         /\ ToLane(B, 0) = 0
<1>1. ASSUME NEW a \in Field PROVE ToLane(B, a) \in Field /\ OfLane(B, ToLane(B, a)) = a
  BY Closed, Squares DEF ToLane, OfLane
<1>2. ASSUME NEW a \in Field, NEW b \in Field
      PROVE  /\ ToLane(B, Add(a, b)) = Add(ToLane(B, a), ToLane(B, b))
             /\ ToLane(B, Mult(a, b)) = Mult(ToLane(B, a), ToLane(B, b))
  BY Closed, Squares DEF ToLane
<1>3. ToLane(B, 0) = 0
  BY Closed DEF ToLane
<1> QED
  BY <1>1, <1>2, <1>3

\* The word of a lane, and the place in it.
LEMMA LanePlaces ==
  ASSUME NEW B, IsSliced(B), NEW lanes \in Nat \ {0}, NEW k \in 0 .. lanes - 1
  PROVE  /\ Nb_packs(B, lanes) \in Nat \ {0}
         /\ k \div B.word \in 0 .. Nb_packs(B, lanes) - 1
         /\ k % B.word \in LanesOf(B)
         /\ (k \div B.word) * B.word + (k % B.word) = k
<1> DEFINE w == B.word
           packs == Nb_packs(B, lanes)
           rem == (lanes + w - 1) % w
           q == k \div w
           l == k % w
<1>1. w \in Nat /\ w > 0 /\ lanes \in Nat /\ lanes > 0 /\ k \in Nat /\ k < lanes
  BY DEF IsSliced
<1>2. packs = (lanes + w - 1) \div w
  BY DEF Nb_packs
<1> HIDE DEF w, packs
<1>3. packs \in Nat /\ rem \in 0 .. w - 1 /\ lanes + w - 1 = w * packs + rem
  BY <1>1, <1>2
<1>4. q \in Nat /\ l \in 0 .. w - 1 /\ k = w * q + l
  BY <1>1
<1> HIDE DEF rem, q, l
<1>5. q < packs
  <2> SUFFICES ASSUME q >= packs PROVE FALSE
    BY <1>3, <1>4
  <2> DEFINE d == q - packs
  <2>1. d \in Nat /\ q = packs + d
    BY <1>3, <1>4
  <2> HIDE DEF d
  <2>2. w * q = w * packs + w * d /\ w * d \in Nat /\ w * packs \in Nat
    BY <1>1, <1>3, <2>1
  <2> DEFINE wp == w * packs
             wd == w * d
             wq == w * q
  <2>3. /\ wq = wp + wd /\ wd \in Nat /\ wp \in Nat /\ k = wq + l
        /\ lanes + w - 1 = wp + rem
    BY <1>3, <1>4, <2>2
  <2> HIDE DEF wp, wd, wq
  <2> QED
    BY <1>1, <1>3, <1>4, <2>3
<1>6. q * w = w * q
  BY <1>1, <1>4
<1> QED
  BY <1>3, <1>4, <1>5, <1>6 DEF w, packs, q, l, LanesOf

\* The words of element k of a vector.
LEMMA WordPlaces ==
  ASSUME NEW packs \in Nat \ {0}, NEW size \in Nat, NEW k \in 0 .. size - 1, NEW q \in 0 .. packs - 1
  PROVE  /\ packs * k + q \in 0 .. size * packs - 1
         /\ (packs * k + q) \div packs = k /\ (packs * k + q) % packs = q
<1>1. packs \in Nat /\ packs > 0 /\ k \in Nat /\ q \in Nat /\ q < packs /\ size \in Nat /\ k < size
  OBVIOUS
<1>2. (packs * k + q) \div packs = k /\ (packs * k + q) % packs = q
  <2>1. packs * k + q = packs * k + q
    OBVIOUS
  <2> QED
    BY <1>1
<1>3. packs * k + q < size * packs
  <2> DEFINE d == size - 1 - k
  <2>1. d \in Nat /\ size = k + 1 + d
    BY <1>1
  <2> HIDE DEF d
  <2>2. size * packs = packs * k + packs + d * packs /\ d * packs \in Nat /\ packs * k \in Nat
    BY <1>1, <2>1
  <2> DEFINE pk == packs * k
             dp == d * packs
  <2>3. size * packs = pk + packs + dp /\ dp \in Nat /\ pk \in Nat
    BY <2>2
  <2> HIDE DEF pk, dp
  <2>4. pk + q < size * packs
    BY <1>1, <2>3
  <2> QED
    BY <2>4 DEF pk
<1>4. packs * k + q \in Nat /\ size * packs \in Nat
  BY <1>1
<1> QED
  BY <1>2, <1>3, <1>4

\* Lane l of the word at holds an element.
Lane(B, words, at, k, c) ==
  /\ at \in DOMAIN words /\ k % B.word \in DOMAIN words[at]
  /\ c \in Field /\ words[at][k % B.word] = ToLane(B, c)

\* Of packs words each; the elements of a vector, in the lane of k.
Place(B, lanes, i, k) == Nb_packs(B, lanes) * i + (k \div B.word)
LaneVector(B, words, lanes, size, k, v) ==
  \A i \in 0 .. size - 1 : Lane(B, words, Place(B, lanes, i, k), k, v[i])

\* The place of the first element, in lane k.
LEMMA FirstPlace ==
  ASSUME NEW B, IsSliced(B), NEW lanes \in Nat \ {0}, NEW k \in 0 .. lanes - 1
  PROVE  Place(B, lanes, 0, k) = k \div B.word
<1>1. Nb_packs(B, lanes) \in Nat /\ k \div B.word \in Nat
  BY LanePlaces
<1> DEFINE a == Nb_packs(B, lanes)
           b == k \div B.word
<1>2. a \in Nat /\ b \in Nat /\ Place(B, lanes, 0, k) = a * 0 + b
  BY <1>1 DEF Place
<1> HIDE DEF a, b
<1>3. a * 0 + b = b
  BY <1>2
<1> QED
  BY <1>2, <1>3 DEF b

\* Words are added lane by lane.
LEMMA LaneAdds ==
  ASSUME NEW B, IsSliced(B), NEW v, NEW w, NEW at, NEW k, NEW c, NEW d, Lane(B, v, at, k, c), Lane(B, w, at, k, d)
  PROVE  Lane(B, AddSliced(v, w), at, k, Add(c, d))
<1>1. /\ at \in DOMAIN v /\ k % B.word \in DOMAIN v[at] /\ c \in Field /\ d \in Field
      /\ v[at][k % B.word] = ToLane(B, c) /\ w[at][k % B.word] = ToLane(B, d)
  BY DEF Lane
<1>2. /\ AddSliced(v, w)[at] = WordAdd(v[at], w[at]) /\ at \in DOMAIN AddSliced(v, w)
  BY <1>1 DEF AddSliced
<1>3. /\ WordAdd(v[at], w[at])[k % B.word] = Add(ToLane(B, c), ToLane(B, d))
      /\ k % B.word \in DOMAIN WordAdd(v[at], w[at])
  BY <1>1 DEF WordAdd
<1> QED
  BY <1>1, <1>2, <1>3, LaneField, Closed DEF Lane

\* And multiplied.
LEMMA LaneMults ==
  ASSUME NEW B, IsSliced(B), NEW v, NEW w, NEW at, NEW k, NEW c, NEW d, Lane(B, v, at, k, c), Lane(B, w, at, k, d)
  PROVE  Lane(B, MultSliced(v, w), at, k, Mult(c, d))
<1>1. /\ at \in DOMAIN v /\ k % B.word \in DOMAIN v[at] /\ c \in Field /\ d \in Field
      /\ v[at][k % B.word] = ToLane(B, c) /\ w[at][k % B.word] = ToLane(B, d)
  BY DEF Lane
<1>2. /\ MultSliced(v, w)[at] = WordMult(v[at], w[at]) /\ at \in DOMAIN MultSliced(v, w)
  BY <1>1 DEF MultSliced
<1>3. /\ WordMult(v[at], w[at])[k % B.word] = Mult(ToLane(B, c), ToLane(B, d))
      /\ k % B.word \in DOMAIN WordMult(v[at], w[at])
  BY <1>1 DEF WordMult
<1> QED
  BY <1>1, <1>2, <1>3, LaneField, Closed DEF Lane

\* Packing puts vector k in lane k, and unpacking finds it there.
LEMMA PackExact ==
  ASSUME NEW B, IsSliced(B), NEW lanes \in Nat \ {0}, NEW k \in 0 .. lanes - 1, NEW size \in Nat, NEW vs,
         IsVector(vs[k], size)
  PROVE  LaneVector(B, Pack(B, vs, size, lanes), lanes, size, k, vs[k])
<1> DEFINE packs == Nb_packs(B, lanes)
           q == k \div B.word
           l == k % B.word
<1>1. packs \in Nat \ {0} /\ q \in 0 .. packs - 1 /\ l \in LanesOf(B) /\ q * B.word + l = k
  BY LanePlaces
<1>2. ASSUME NEW i \in 0 .. size - 1 PROVE Lane(B, Pack(B, vs, size, lanes), Place(B, lanes, i, k), k, vs[k][i])
  <2> DEFINE at == packs * i + q
  <2>1. at \in 0 .. size * packs - 1 /\ at \div packs = i /\ at % packs = q
    <3> HIDE DEF packs, q
    <3> QED
      BY <1>1, WordPlaces
  <2>2. vs[k][i] \in Field
    BY DEF IsVector
  <2>3. Place(B, lanes, i, k) = at
    BY DEF Place
  <2>4. Pack(B, vs, size, lanes)[at]
          = [m \in LanesOf(B) |-> LET e_ == q * B.word + m
                                  IN  IF e_ < lanes THEN ToLane(B, vs[e_][i]) ELSE 0]
    <3> HIDE DEF at, q
    <3> QED
      BY <2>1 DEF Pack
  <2>5. at \in DOMAIN Pack(B, vs, size, lanes)
    <3> HIDE DEF at
    <3> QED
      BY <2>1 DEF Pack
  <2> HIDE DEF at, q
  <2>6. Pack(B, vs, size, lanes)[at][l] = ToLane(B, vs[k][i]) /\ l \in DOMAIN Pack(B, vs, size, lanes)[at]
    <3>1. k < lanes
      OBVIOUS
    <3> HIDE DEF l
    <3> QED
      BY <1>1, <2>4, <3>1
  <2> QED
    BY <2>2, <2>3, <2>5, <2>6 DEF Lane
<1> QED
  BY <1>2 DEF LaneVector

\* What is packed is unpacked.
LEMMA UnpackExact ==
  ASSUME NEW B, IsSliced(B), NEW lanes \in Nat \ {0}, NEW k \in 0 .. lanes - 1, NEW size \in Nat, NEW v, NEW words,
         LaneVector(B, words, lanes, size, k, v)
  PROVE  /\ Unpack(B, words, k, size, lanes) = [i \in 0 .. size - 1 |-> v[i]]
         /\ \A i \in 0 .. size - 1 : Unpack(B, words, k, size, lanes)[i] = v[i]
<1>1. ASSUME NEW i \in 0 .. size - 1
      PROVE  OfLane(B, words[Nb_packs(B, lanes) * i + (k \div B.word)][k % B.word]) = v[i]
  <2>1. Lane(B, words, Nb_packs(B, lanes) * i + (k \div B.word), k, v[i])
    BY DEF LaneVector, Place
  <2> QED
    BY <2>1, LaneField DEF Lane
<1> QED
  BY <1>1 DEF Unpack

\* Sums in a lane.
LEMMA SumInLane ==
  ASSUME NEW B, IsSliced(B), NEW size \in Nat, NEW f, NEW g, NEW l,
         \A i \in 0 .. size - 1 : g[i] \in Field /\ f[i][l] = ToLane(B, g[i]), l \in LanesOf(B)
  PROVE  SumWords(B, f, size)[l] = ToLane(B, Total(g, size)) /\ Total(g, size) \in Field
<1> DEFINE h == [i \in 0 .. size - 1 |-> f[i][l]]
           q == [a \in Field |-> ToLane(B, a)]
<1>1. SumWords(B, f, size)[l] = Total(h, size)
  BY DEF SumWords
<1>2. q \in Additive
  BY LaneField, Closed DEF Additive
<1>3. \A i \in 0 .. size - 1 : g[i] \in Field /\ h[i] = q[g[i]]
  OBVIOUS
<1>4. Total(g, size) \in Field
  BY TotalTyped
<1>5. q[Total(g, size)] = ToLane(B, Total(g, size))
  BY <1>4
<1> HIDE DEF h, q
<1>6. Total(h, size) = q[Total(g, size)]
  BY <1>2, <1>3, TotalMaps
<1> QED
  BY <1>1, <1>4, <1>5, <1>6

\* A product of words, by one multiplication or by two of them.
LEMMA HybridExact ==
  ASSUME NEW B, IsSliced(B), NEW lanes \in Nat \ {0}, NEW k \in 0 .. lanes - 1, NEW size \in Nat, NEW v, NEW words,
         NEW x, IsVector(x, size), LaneVector(B, words, lanes, size, k, v)
  PROVE  Lane(B, VectMultHybrid(B, x, words, size, lanes), k \div B.word, k, VectMult(x, v, size))
<1> DEFINE packs == Nb_packs(B, lanes)
           q == k \div B.word
           l == k % B.word
           f == [i \in 0 .. size - 1 |-> [m \in LanesOf(B) |-> Mult(ToLane(B, x[i]), words[packs * i + q][m])]]
           g == [i \in 0 .. size - 1 |-> Mult(x[i], v[i])]
<1>1. q \in 0 .. packs - 1 /\ l \in LanesOf(B)
  BY LanePlaces
<1>2. /\ VectMultHybrid(B, x, words, size, lanes)[q] = SumWords(B, f, size)
      /\ q \in DOMAIN VectMultHybrid(B, x, words, size, lanes)
  BY <1>1 DEF VectMultHybrid
<1>3. ASSUME NEW i \in 0 .. size - 1 PROVE g[i] \in Field /\ f[i][l] = ToLane(B, g[i])
  <2>1. Lane(B, words, packs * i + q, k, v[i])
    BY DEF LaneVector, Place
  <2>2. v[i] \in Field /\ x[i] \in Field /\ words[packs * i + q][l] = ToLane(B, v[i])
    BY <2>1 DEF Lane, IsVector
  <2>3. f[i][l] = Mult(ToLane(B, x[i]), words[packs * i + q][l]) /\ g[i] = Mult(x[i], v[i])
    BY <1>1
  <2> HIDE DEF f, g, packs, q, l
  <2>4. g[i] \in Field
    BY <2>2, <2>3, Closed
  <2>5. f[i][l] = Mult(ToLane(B, x[i]), ToLane(B, v[i]))
    BY <2>2, <2>3
  <2>6. ToLane(B, Mult(x[i], v[i])) = Mult(ToLane(B, x[i]), ToLane(B, v[i]))
    BY <2>2, LaneField
  <2> QED
    BY <2>3, <2>4, <2>5, <2>6
<1>4. VectMult(x, v, size) = Total(g, size)
  BY DEF VectMult
<1> HIDE DEF f, g
<1>5. SumWords(B, f, size)[l] = ToLane(B, Total(g, size)) /\ Total(g, size) \in Field
  BY <1>1, <1>3, SumInLane
<1>6. DOMAIN SumWords(B, f, size) = LanesOf(B)
  BY DEF SumWords
<1> QED
  BY <1>1, <1>2, <1>4, <1>5, <1>6 DEF Lane

\* The inner product of two vectors in a lane.
LEMMA SlicedProductExact ==
  ASSUME NEW B, IsSliced(B), NEW lanes \in Nat \ {0}, NEW k \in 0 .. lanes - 1, NEW size \in Nat, NEW u, NEW v,
         NEW first, NEW second, LaneVector(B, first, lanes, size, k, u), LaneVector(B, second, lanes, size, k, v)
  PROVE  Lane(B, VectMultSliced(B, first, second, size, lanes), k \div B.word, k, VectMult(u, v, size))
<1> DEFINE packs == Nb_packs(B, lanes)
           q == k \div B.word
           l == k % B.word
           f == [i \in 0 .. size - 1 |-> WordMult(first[packs * i + q], second[packs * i + q])]
           g == [i \in 0 .. size - 1 |-> Mult(u[i], v[i])]
<1>1. q \in 0 .. packs - 1 /\ l \in LanesOf(B)
  BY LanePlaces
<1>2. /\ VectMultSliced(B, first, second, size, lanes)[q] = SumWords(B, f, size)
      /\ q \in DOMAIN VectMultSliced(B, first, second, size, lanes)
  BY <1>1 DEF VectMultSliced
<1>3. ASSUME NEW i \in 0 .. size - 1 PROVE g[i] \in Field /\ f[i][l] = ToLane(B, g[i])
  <2>1. Lane(B, first, packs * i + q, k, u[i]) /\ Lane(B, second, packs * i + q, k, v[i])
    BY DEF LaneVector, Place
  <2>2. /\ u[i] \in Field /\ v[i] \in Field /\ l \in DOMAIN first[packs * i + q]
        /\ first[packs * i + q][l] = ToLane(B, u[i]) /\ second[packs * i + q][l] = ToLane(B, v[i])
    BY <2>1 DEF Lane
  <2>3. f[i][l] = Mult(first[packs * i + q][l], second[packs * i + q][l]) /\ g[i] = Mult(u[i], v[i])
    BY <2>2 DEF WordMult
  <2> HIDE DEF f, g, packs, q, l
  <2>4. g[i] \in Field
    BY <2>2, <2>3, Closed
  <2>5. f[i][l] = Mult(ToLane(B, u[i]), ToLane(B, v[i]))
    BY <2>2, <2>3
  <2>6. ToLane(B, Mult(u[i], v[i])) = Mult(ToLane(B, u[i]), ToLane(B, v[i]))
    BY <2>2, LaneField
  <2> QED
    BY <2>3, <2>4, <2>5, <2>6
<1>4. VectMult(u, v, size) = Total(g, size)
  BY DEF VectMult
<1> HIDE DEF f, g
<1>5. SumWords(B, f, size)[l] = ToLane(B, Total(g, size)) /\ Total(g, size) \in Field
  BY <1>1, <1>3, SumInLane
<1>6. DOMAIN SumWords(B, f, size) = LanesOf(B)
  BY DEF SumWords
<1> QED
  BY <1>1, <1>2, <1>4, <1>5, <1>6 DEF Lane

\* A multiple of a vector in a lane.
LEMMA ScaledExact ==
  ASSUME NEW B, IsSliced(B), NEW lanes \in Nat \ {0}, NEW k \in 0 .. lanes - 1, NEW size \in Nat, NEW sc, NEW c,
         NEW x, NEW v, Lane(B, sc, k \div B.word, k, c), IsVector(x, size), \A i \in 0 .. size - 1 : v[i] = Mult(x[i], c)
  PROVE  LaneVector(B, ConstVectMultHybrid(B, sc, x, size, lanes), lanes, size, k, v)
<1> DEFINE packs == Nb_packs(B, lanes)
           q == k \div B.word
           l == k % B.word
           W == ConstVectMultHybrid(B, sc, x, size, lanes)
<1>1. packs \in Nat \ {0} /\ q \in 0 .. packs - 1 /\ l \in LanesOf(B)
  BY LanePlaces
<1>2. ASSUME NEW i \in 0 .. size - 1 PROVE Lane(B, W, Place(B, lanes, i, k), k, v[i])
  <2> DEFINE at == packs * i + q
  <2>1. at \in 0 .. size * packs - 1 /\ at \div packs = i /\ at % packs = q
    <3> HIDE DEF packs, q
    <3> QED
      BY <1>1, WordPlaces
  <2>2. Place(B, lanes, i, k) = at
    BY DEF Place
  <2> HIDE DEF at
  <2>3. /\ W[at] = [m \in LanesOf(B) |-> Mult(ToLane(B, x[at \div packs]), sc[at % packs][m])]
        /\ at \in DOMAIN W
    BY <2>1 DEF ConstVectMultHybrid
  <2>4. W[at][l] = Mult(ToLane(B, x[i]), sc[q][l]) /\ l \in DOMAIN W[at]
    <3> HIDE DEF q, l, W
    <3> QED
      BY <1>1, <2>1, <2>3
  <2>5. x[i] \in Field /\ c \in Field /\ sc[q][l] = ToLane(B, c) /\ v[i] = Mult(x[i], c)
    BY DEF Lane, IsVector
  <2>6. v[i] \in Field /\ W[at][l] = ToLane(B, v[i])
    <3> HIDE DEF q, l, W
    <3>1. v[i] \in Field
      BY <2>5, Closed
    <3>2. W[at][l] = Mult(ToLane(B, x[i]), ToLane(B, c))
      BY <2>4, <2>5
    <3> QED
      BY <2>5, <3>1, <3>2, LaneField
  <2> QED
    BY <2>2, <2>3, <2>4, <2>6 DEF Lane
<1> QED
  BY <1>2 DEF LaneVector

\* A matrix times what is in the lane.
LEMMA SlicedMatExact ==
  ASSUME NEW key, IsKey(key), NEW i \in Eqs, NEW B, IsSliced(B), NEW lanes \in Nat \ {0}, NEW k \in 0 .. lanes - 1,
         NEW words, NEW v \in Vectors(N), LaneVector(B, words, lanes, N, k, v)
  PROVE  LaneVector(B, MatMultSliced(B, key.K.A[i], words, lanes), lanes, N, k, MatMult(key.K.A[i], v))
<1> DEFINE packs == Nb_packs(B, lanes)
           q == k \div B.word
           l == k % B.word
           A == key.K.A[i]
           W == MatMultSliced(B, A, words, lanes)
<1>1. packs \in Nat \ {0} /\ q \in 0 .. packs - 1 /\ l \in LanesOf(B) /\ N \in Nat
  BY LanePlaces, PIOPAssumption
<1>2. ASSUME NEW j \in 0 .. N - 1 PROVE Lane(B, W, Place(B, lanes, j, k), k, MatMult(A, v)[j])
  <2> DEFINE at == packs * j + q
  <2>1. at \in 0 .. N * packs - 1 /\ at \div packs = j /\ at % packs = q
    <3> HIDE DEF packs, q
    <3> QED
      BY <1>1, WordPlaces
  <2>2. Place(B, lanes, j, k) = at
    BY DEF Place
  <2> HIDE DEF at
  <2>3. /\ W[at] = VectMultHybrid(B, A[j], words, j + 1, lanes)[q]
        /\ at \in DOMAIN W
    <3> DEFINE row == [m \in 0 .. N - 1 |-> VectMultHybrid(B, A[m], words, m + 1, lanes)]
    <3>1. W = [m \in 0 .. N * packs - 1 |-> row[m \div packs][m % packs]]
      BY DEF MatMultSliced
    <3>2. row[j] = VectMultHybrid(B, A[j], words, j + 1, lanes)
      OBVIOUS
    <3> HIDE DEF row, W, packs, q, A
    <3> QED
      BY <2>1, <3>1, <3>2
  <2>4. j + 1 \in Nat /\ 0 .. (j + 1) - 1 = 0 .. j /\ \A m \in 0 .. j : m \in 0 .. N - 1
    BY <1>1
  <2>5. IsVector(A[j], j + 1)
    <3>1. A[j] \in [0 .. j -> Field]
      BY DEF IsKey
    <3> HIDE DEF A
    <3> QED
      BY <2>4, <3>1 DEF IsVector
  <2>6. LaneVector(B, words, lanes, j + 1, k, v)
    BY <2>4 DEF LaneVector
  <2>7. Lane(B, VectMultHybrid(B, A[j], words, j + 1, lanes), q, k, VectMult(A[j], v, j + 1))
    <3> HIDE DEF A
    <3> QED
      BY <2>4, <2>5, <2>6, HybridExact
  <2>8. MatMult(A, v)[j] = VectMult(A[j], v, j + 1)
    BY MatTyped
  <2> HIDE DEF A, W
  <2> QED
    BY <2>2, <2>3, <2>7, <2>8 DEF Lane
<1> QED
  BY <1>2 DEF LaneVector

\* The multiple of w below a number.
LEMMA FloorFacts ==
  ASSUME NEW a \in Nat, NEW w \in Nat \ {0}
  PROVE  Floor(a, w) \in Nat /\ Floor(a, w) <= a
<1> DEFINE q == a \div w
           r == a % w
<1>1. q \in Nat /\ r \in 0 .. w - 1 /\ a = w * q + r
  OBVIOUS
<1> HIDE DEF q, r
<1>2. w * q \in Nat
  BY <1>1
<1> DEFINE wq == w * q
<1>3. wq \in Nat /\ wq <= a
  BY <1>1, <1>2
<1> QED
  BY <1>3 DEF Floor, q

\* z0 and z1 of the executions in lanes, and t1 from the lane of x.
LEMMA SlicedPzExact ==
  ASSUME NEW key, IsKey(key), NEW i \in Eqs, NEW B, IsSliced(B), NEW x0,
         BITSLICE_LANES(B) \in Nat \ {0},
         \A k \in 0 .. BITSLICE_LANES(B) - 2 : x0[k] \in Vectors(N)
  PROVE  /\ SlicedPz(key.K, B, i, x0).t1 = T1(key.K, i)
         /\ DOMAIN SlicedPz(key.K, B, i, x0).z = 0 .. BITSLICE_LANES(B) - 2
         /\ \A k \in 0 .. BITSLICE_LANES(B) - 2 :
              SlicedPz(key.K, B, i, x0).z[k] = PzOf(key.K, i, x0[k])
<1> DEFINE Mq == key.K
           lanes == BITSLICE_LANES(B)
           vs == [e_ \in 0 .. lanes - 1 |-> IF e_ = lanes - 1 THEN Mq.x ELSE x0[e_]]
           xs == Pack(B, vs, N, lanes)
           ts == MatMultSliced(B, Mq.A[i], xs, lanes)
           last == Unpack(B, ts, lanes - 1, N, lanes)
           t1 == VectAdd(last, Mq.b[i])
           left == VectMultHybrid(B, Mq.x, ts, N, lanes)
           right == VectMultHybrid(B, t1, xs, N, lanes)
           z1 == AddSliced(left, right)
           z0 == VectMultSliced(B, xs, ts, N, lanes)
<1>1. SlicedPz(Mq, B, i, x0)
        = [t1 |-> t1,
           z |-> [e_ \in 0 .. lanes - 2 |-> [z0 |-> Unpack(B, z0, e_, 1, lanes)[0],
                                            z1 |-> Unpack(B, z1, e_, 1, lanes)[0]]]]
  BY DEF SlicedPz
<1> HIDE DEF lanes
<1>2. N \in Nat /\ Mq.x \in Vectors(N) /\ Mq.b[i] \in Vectors(N)
  BY PIOPAssumption DEF IsKey, Vectors
<1>0. lanes \in Nat \ {0} /\ \A k \in 0 .. lanes - 2 : x0[k] \in Vectors(N)
  BY DEF lanes
<1>3. \A k \in 0 .. lanes - 1 : vs[k] \in Vectors(N) /\ IsVector(vs[k], N)
  <2> SUFFICES ASSUME NEW k \in 0 .. lanes - 1 PROVE vs[k] \in Vectors(N) /\ IsVector(vs[k], N)
    OBVIOUS
  <2>1. k # lanes - 1 => k \in 0 .. lanes - 2
    BY <1>0
  <2>2. vs[k] \in Vectors(N)
    BY <1>0, <1>2, <2>1
  <2> HIDE DEF vs
  <2> QED
    BY <2>2 DEF Vectors, IsVector
<1>4. vs[lanes - 1] = Mq.x /\ \A k \in 0 .. lanes - 2 : vs[k] = x0[k] /\ k \in 0 .. lanes - 1
  BY <1>0
<1> HIDE DEF vs
<1>5. \A k \in 0 .. lanes - 1 : LaneVector(B, xs, lanes, N, k, vs[k])
  BY <1>0, <1>2, <1>3, PackExact
<1> HIDE DEF xs
<1>6. \A k \in 0 .. lanes - 1 : LaneVector(B, ts, lanes, N, k, MatMult(Mq.A[i], vs[k]))
  <2> SUFFICES ASSUME NEW k \in 0 .. lanes - 1
               PROVE  LaneVector(B, ts, lanes, N, k, MatMult(Mq.A[i], vs[k]))
    OBVIOUS
  <2>1. vs[k] \in Vectors(N) /\ LaneVector(B, xs, lanes, N, k, vs[k])
    BY <1>3, <1>5
  <2> QED
    BY <1>0, <2>1, SlicedMatExact
<1> HIDE DEF ts
<1>7. lanes - 1 \in 0 .. lanes - 1
  BY <1>0
<1>8. last = [j \in 0 .. N - 1 |-> MatMult(Mq.A[i], Mq.x)[j]]
  <2>1. LaneVector(B, ts, lanes, N, lanes - 1, MatMult(Mq.A[i], Mq.x))
    BY <1>4, <1>6, <1>7
  <2> HIDE DEF Mq
  <2> QED
    BY <1>0, <1>2, <1>7, <2>1, UnpackExact
<1> HIDE DEF last
<1>9. t1 = T1(Mq, i) /\ IsVector(t1, N)
  <2>1. t1 = [j \in 0 .. N - 1 |-> Add(MatMult(Mq.A[i], Mq.x)[j], Mq.b[i][j])]
    BY <1>8 DEF VectAdd
  <2>2. T1(Mq, i) = [j \in 0 .. N - 1 |-> Add(MatMult(Mq.A[i], Mq.x)[j], Mq.b[i][j])]
    BY <1>2, MatTyped DEF T1, VectAdd
  <2>3. T1(Mq, i) \in Vectors(N)
    BY T1Typed
  <2>4. IsVector(T1(Mq, i), N)
    BY <2>3 DEF IsVector, Vectors
  <2> HIDE DEF t1, Mq
  <2> QED
    BY <2>1, <2>2, <2>4
<1> HIDE DEF t1
<1>10. ASSUME NEW k \in 0 .. lanes - 2
       PROVE  /\ Unpack(B, z0, k, 1, lanes)[0] = PzOf(Mq, i, x0[k]).z0
              /\ Unpack(B, z1, k, 1, lanes)[0] = PzOf(Mq, i, x0[k]).z1
  <2> DEFINE m == MatMult(Mq.A[i], x0[k])
  <2>1. /\ k \in 0 .. lanes - 1 /\ x0[k] \in Vectors(N) /\ IsVector(x0[k], N)
        /\ LaneVector(B, xs, lanes, N, k, x0[k]) /\ LaneVector(B, ts, lanes, N, k, m)
    BY <1>3, <1>4, <1>5, <1>6
  <2>2. IsVector(m, N) /\ IsVector(Mq.x, N)
    BY <1>2, <2>1, MatTyped DEF Vectors, IsVector
  <2> HIDE DEF m
  <2>3. Lane(B, z0, k \div B.word, k, VectMult(x0[k], m, N))
    BY <1>0, <1>2, <2>1, SlicedProductExact
  <2>4. Lane(B, left, k \div B.word, k, VectMult(Mq.x, m, N))
    <3> HIDE DEF Mq
    <3> QED
      BY <1>0, <1>2, <2>1, <2>2, HybridExact
  <2>5. Lane(B, right, k \div B.word, k, VectMult(t1, x0[k], N))
    BY <1>0, <1>2, <1>9, <2>1, HybridExact
  <2> HIDE DEF left, right
  <2>6. Lane(B, z1, k \div B.word, k, Add(VectMult(Mq.x, m, N), VectMult(t1, x0[k], N)))
    BY <2>4, <2>5, LaneAdds
  <2>7. /\ VectMult(x0[k], m, N) = VectMult(m, x0[k], N)
        /\ VectMult(Mq.x, m, N) = VectMult(m, Mq.x, N)
    <3> HIDE DEF Mq
    <3> QED
      BY <1>2, <2>1, <2>2, ProductCommutes
  <2> HIDE DEF z0, z1
  <2>8. ASSUME NEW words, NEW c, Lane(B, words, k \div B.word, k, c)
        PROVE  Unpack(B, words, k, 1, lanes)[0] = c
    <3> DEFINE v == [j \in 0 .. 0 |-> c]
    <3>1. Place(B, lanes, 0, k) = k \div B.word
      BY <1>0, <2>1, FirstPlace
    <3>2. LaneVector(B, words, lanes, 1, k, v)
      BY <2>8, <3>1 DEF LaneVector
    <3>3. Unpack(B, words, k, 1, lanes)[0] = v[0]
      <4> HIDE DEF v
      <4>1. 1 \in Nat /\ 0 \in 0 .. 1 - 1
        OBVIOUS
      <4> QED
        BY <1>0, <2>1, <3>2, <4>1, UnpackExact
    <3> QED
      BY <3>3
  <2>9. PzOf(Mq, i, x0[k]) = [z0 |-> VectMult(m, x0[k], N),
                             z1 |-> Add(VectMult(m, Mq.x, N), VectMult(T1(Mq, i), x0[k], N))]
    BY DEF PzOf, Pz, m
  <2> HIDE DEF Mq
  <2>10. /\ PzOf(Mq, i, x0[k]).z0 = VectMult(m, x0[k], N)
         /\ PzOf(Mq, i, x0[k]).z1 = Add(VectMult(m, Mq.x, N), VectMult(T1(Mq, i), x0[k], N))
    BY <2>9
  <2> QED
    BY <1>9, <2>3, <2>6, <2>7, <2>8, <2>10
<1>11. ASSUME NEW k \in 0 .. lanes - 2
       PROVE  PzOf(Mq, i, x0[k]) = [z0 |-> PzOf(Mq, i, x0[k]).z0, z1 |-> PzOf(Mq, i, x0[k]).z1]
  BY DEF PzOf, Pz
<1> DEFINE S == SlicedPz(Mq, B, i, x0)
<1> HIDE DEF Mq, z0, z1, S
<1>12. /\ S.t1 = t1
       /\ S.z = [e_ \in 0 .. lanes - 2 |-> [z0 |-> Unpack(B, z0, e_, 1, lanes)[0],
                                             z1 |-> Unpack(B, z1, e_, 1, lanes)[0]]]
  BY <1>1 DEF S
<1>13. DOMAIN S.z = 0 .. lanes - 2 /\ \A k \in 0 .. lanes - 2 : S.z[k] = PzOf(Mq, i, x0[k])
  <2>1. DOMAIN S.z = 0 .. lanes - 2
    BY <1>12
  <2>2. ASSUME NEW k \in 0 .. lanes - 2 PROVE S.z[k] = PzOf(Mq, i, x0[k])
    <3>1. S.z[k] = [z0 |-> Unpack(B, z0, k, 1, lanes)[0], z1 |-> Unpack(B, z1, k, 1, lanes)[0]]
      BY <1>12
    <3>2. S.z[k] = [z0 |-> PzOf(Mq, i, x0[k]).z0, z1 |-> PzOf(Mq, i, x0[k]).z1]
      BY <1>10, <3>1
    <3> QED
      BY <1>11, <3>2
  <2> QED
    BY <2>1, <2>2
<1> QED
  BY <1>9, <1>12, <1>13 DEF Mq, S, lanes

\* The bitsliced build of the signer.
LEMMA SlicedSigns ==
  ASSUME NEW key, IsKey(key), NEW B, IsSliced(B), NEW com, NEW x0, NEW u0, NEW u1,
         \A k \in Execs : x0[k] \in Vectors(N)
  PROVE  ComputePAlpha_bitslice(key.K, B, com, x0, u0, u1) = AlphasOf(key.K, TAU, com, x0, u0, u1)
<1> DEFINE Mq == key.K
           lanes == BITSLICE_LANES(B)
           off == NON_BITSLICE_OFFSET(B)
           left == NON_BITSLICE_LEFTOVER(B)
           sliced == [i \in Eqs |-> IF lanes > 0 THEN SlicedPz(Mq, B, i, x0)
                                    ELSE [t1 |-> T1(Mq, i), z |-> <<>>]]
           Of(k, i) == IF k - off \in 0 .. left - 1
                       THEN Pz(Mq, MatMult(Mq.A[i], x0[k]), sliced[i].t1, x0[k])
                       ELSE IF k \in DOMAIN sliced[i].z THEN sliced[i].z[k] ELSE [z0 |-> 0, z1 |-> 0]
           z == ComputePz_xTau_bitslice(Mq, B, x0)
<1>1. z = [z0 |-> [e_ \in Execs |-> [i \in Eqs |-> Of(e_, i).z0]],
           z1 |-> [e_ \in Execs |-> [i \in Eqs |-> Of(e_, i).z1]]]
  BY DEF ComputePz_xTau_bitslice
<1>2. /\ TAU \in Nat /\ lanes \in Nat /\ lanes <= TAU + 1
      /\ lanes > 0 => \A k \in 0 .. lanes - 2 : k \in Execs
  <2>1. B.word \in Nat \ {0} /\ TAU + 1 \in Nat /\ TAU \in Nat
    BY PIOPAssumption DEF IsSliced
  <2>2. Floor(TAU + 1, B.word) \in Nat /\ Floor(TAU + 1, B.word) <= TAU + 1
    BY <2>1, FloorFacts
  <2>3. lanes \in Nat /\ lanes <= TAU + 1
    BY <2>1, <2>2 DEF BITSLICE_LANES
  <2> QED
    BY <2>1, <2>3 DEF Execs
<1>3. \/ lanes = 0 /\ off = 0 /\ left = TAU
      \/ lanes > 0 /\ off = 0 /\ left = 0 /\ lanes = TAU + 1
      \/ lanes > 0 /\ off = lanes - 1 /\ left = TAU + 1 - lanes
  <2>1. CASE AllLanes(B)
    BY <1>2, <2>1 DEF BITSLICE_LANES, NON_BITSLICE_OFFSET, NON_BITSLICE_LEFTOVER
  <2>2. CASE ~AllLanes(B)
    <3>1. lanes = Floor(TAU + 1, B.word)
      BY <2>2 DEF BITSLICE_LANES
    <3>2. BS_LEFTOVER(B) = TAU + 1 - lanes
      <4> HIDE DEF lanes
      <4> QED
        BY <1>2, <3>1 DEF BS_LEFTOVER
    <3> QED
      BY <1>2, <2>2, <3>2 DEF NON_BITSLICE_OFFSET, NON_BITSLICE_LEFTOVER
  <2> QED
    BY <2>1, <2>2
<1>4. ASSUME NEW i \in Eqs
      PROVE  /\ sliced[i].t1 = T1(Mq, i)
             /\ lanes = 0 => DOMAIN sliced[i].z = {}
             /\ lanes > 0 => /\ DOMAIN sliced[i].z = 0 .. lanes - 2
                             /\ \A k \in 0 .. lanes - 2 : sliced[i].z[k] = PzOf(Mq, i, x0[k])
  <2>1. sliced[i] = IF lanes > 0 THEN SlicedPz(Mq, B, i, x0) ELSE [t1 |-> T1(Mq, i), z |-> <<>>]
    OBVIOUS
  <2>2. lanes > 0 =>
          /\ SlicedPz(Mq, B, i, x0).t1 = T1(Mq, i)
          /\ DOMAIN SlicedPz(Mq, B, i, x0).z = 0 .. lanes - 2
          /\ \A k \in 0 .. lanes - 2 : SlicedPz(Mq, B, i, x0).z[k] = PzOf(Mq, i, x0[k])
    <3> SUFFICES ASSUME lanes > 0
                 PROVE  /\ SlicedPz(Mq, B, i, x0).t1 = T1(Mq, i)
                        /\ DOMAIN SlicedPz(Mq, B, i, x0).z = 0 .. lanes - 2
                        /\ \A k \in 0 .. lanes - 2 : SlicedPz(Mq, B, i, x0).z[k] = PzOf(Mq, i, x0[k])
      OBVIOUS
    <3>1. lanes \in Nat \ {0} /\ \A k \in 0 .. lanes - 2 : x0[k] \in Vectors(N)
      BY <1>2
    <3> HIDE DEF sliced
    <3>2. BITSLICE_LANES(B) \in Nat \ {0} /\ \A k \in 0 .. BITSLICE_LANES(B) - 2 : x0[k] \in Vectors(N)
      BY <3>1
    <3> QED
      BY <3>2, SlicedPzExact
  <2>3. DOMAIN <<>> = {}
    OBVIOUS
  <2> HIDE DEF sliced, lanes, Mq
  <2> QED
    BY <2>1, <2>2, <2>3
<1>5. ASSUME NEW k \in Execs, NEW i \in Eqs PROVE Of(k, i) = PzOf(Mq, i, x0[k])
  <2>1. /\ k \in Nat /\ k < TAU /\ sliced[i].t1 = T1(Mq, i)
        /\ lanes = 0 => DOMAIN sliced[i].z = {}
        /\ lanes > 0 => /\ DOMAIN sliced[i].z = 0 .. lanes - 2
                        /\ \A j \in 0 .. lanes - 2 : sliced[i].z[j] = PzOf(Mq, i, x0[j])
    BY <1>4, <1>2 DEF Execs
  <2> HIDE DEF lanes, off, left, sliced, Mq
  <2>2. CASE k - off \in 0 .. left - 1
    BY <2>1, <2>2 DEF PzOf
  <2>3. CASE k - off \notin 0 .. left - 1
    <3>1. lanes > 0 /\ k \in 0 .. lanes - 2
      BY <1>2, <1>3, <2>1, <2>3
    <3> QED
      BY <2>1, <2>3, <3>1
  <2> QED
    BY <2>2, <2>3
<1> HIDE DEF z, Of, lanes, off, left, sliced
<1>6. \A k \in Execs : /\ z.z0[k] = [i \in Eqs |-> PzOf(Mq, i, x0[k]).z0]
                       /\ z.z1[k] = [i \in Eqs |-> PzOf(Mq, i, x0[k]).z1]
  BY <1>1, <1>5
<1>7. ComputePAlpha_bitslice(Mq, B, com, x0, u0, u1)
        = [alpha0 |-> [s \in Execs |-> BatchAndMask(ExpandBatchingChallenge(com[s]), z.z0[s], u0[s])],
           alpha1 |-> [s \in Execs |-> BatchAndMask(ExpandBatchingChallenge(com[s]), z.z1[s], u1[s])]]
  BY DEF ComputePAlpha_bitslice, z
<1>8. Execs = 0 .. TAU - 1
  BY DEF Execs
<1> HIDE DEF Mq
<1> QED
  BY <1>6, <1>7, <1>8 DEF AlphasOf, AlphaOf, Mq

\* A number of lane k is unpacked from there.
LEMMA UnpackScalar ==
  ASSUME NEW B, IsSliced(B), NEW lanes \in Nat \ {0}, NEW k \in 0 .. lanes - 1, NEW words, NEW c,
         Lane(B, words, k \div B.word, k, c)
  PROVE  Unpack(B, words, k, 1, lanes)[0] = c
<1> DEFINE v == [j \in 0 .. 0 |-> c]
<1>1. Place(B, lanes, 0, k) = k \div B.word
  BY FirstPlace
<1>2. LaneVector(B, words, lanes, 1, k, v)
  BY <1>1 DEF LaneVector
<1>3. Unpack(B, words, k, 1, lanes)[0] = v[0]
  <2> HIDE DEF v
  <2>1. 1 \in Nat /\ 0 \in 0 .. 1 - 1
    OBVIOUS
  <2> QED
    BY <1>2, <2>1, UnpackExact
<1> QED
  BY <1>3

\* The value of an equation at the point of each lane.
LEMMA SlicedEvalExact ==
  ASSUME NEW key, IsKey(key), NEW i \in Eqs, NEW B, IsSliced(B), NEW r, NEW v_x,
         EVAL_BITSLICE_LANES(B) \in Nat \ {0}, NEW k \in 0 .. EVAL_BITSLICE_LANES(B) - 1,
         r[k] \in Field, v_x[k] \in Vectors(N)
  PROVE  SlicedPzEval(key.K, B, i, r, v_x)[k] = ComputePzEval(key.K, r[k], v_x[k])[i]
<1> DEFINE Mq == key.K
           lanes == EVAL_BITSLICE_LANES(B)
           rs == [e_ \in 0 .. lanes - 1 |-> [m \in {0} |-> r[e_]]]
           sc == Pack(B, rs, 1, lanes)
           xs == Pack(B, v_x, N, lanes)
           ts == MatMultSliced(B, Mq.A[i], xs, lanes)
           bs == ConstVectMultHybrid(B, sc, Mq.b[i], N, lanes)
           folded == AddSliced(ts, bs)
           tx == VectMultSliced(B, ts, xs, N, lanes)
           bx == VectMultHybrid(B, Mq.b[i], xs, N, lanes)
           rbx == MultSliced(sc, bx)
           apart == AddSliced(tx, rbx)
           whole == VectMultSliced(B, folded, xs, N, lanes)
           dot == IF B.factored THEN apart ELSE whole
           r2 == MultSliced(sc, sc)
           yv == [m \in {0} |-> Mq.y[i]]
           y_r2 == ConstVectMultHybrid(B, r2, yv, 1, lanes)
           v_z == AddSliced(dot, y_r2)
           q == k \div B.word
           x == v_x[k]
           c == r[k]
           t == MatMult(Mq.A[i], x)
           b == Mq.b[i]
           rb == [j \in 0 .. N - 1 |-> Mult(b[j], c)]
           w == [j \in 0 .. N - 1 |-> Add(t[j], rb[j])]
<1>1. SlicedPzEval(Mq, B, i, r, v_x) = [e_ \in 0 .. lanes - 1 |-> Unpack(B, v_z, e_, 1, lanes)[0]]
  BY DEF SlicedPzEval
<1> HIDE DEF lanes
<1>2. /\ lanes \in Nat \ {0} /\ k \in 0 .. lanes - 1 /\ c \in Field /\ x \in Vectors(N) /\ N \in Nat
      /\ b \in Vectors(N) /\ Mq.y[i] = VectMult(T1(Mq, i), Mq.x, N) /\ Mq.x \in Vectors(N)
  BY PIOPAssumption DEF lanes, IsKey, Vectors
<1>3. Mq.y[i] \in Field
  <2>1. IsVector(T1(Mq, i), N) /\ IsVector(Mq.x, N)
    BY <1>2, T1Typed DEF IsVector, Vectors
  <2> HIDE DEF Mq
  <2> QED
    BY <1>2, <2>1, ProductTyped
<1>4. SlicedPzEval(Mq, B, i, r, v_x)[k] = Unpack(B, v_z, k, 1, lanes)[0]
  <2> HIDE DEF v_z
  <2> QED
    BY <1>1, <1>2
<1>5. Place(B, lanes, 0, k) = q
  BY <1>2, FirstPlace
<1>6. Lane(B, sc, q, k, c)
  <2>1. rs[k] = [m \in {0} |-> c] /\ IsVector(rs[k], 1)
    BY <1>2 DEF IsVector
  <2>2. LaneVector(B, sc, lanes, 1, k, rs[k])
    <3> HIDE DEF rs
    <3>1. 1 \in Nat
      OBVIOUS
    <3> QED
      BY <1>2, <2>1, <3>1, PackExact
  <2>3. Lane(B, sc, Place(B, lanes, 0, k), k, rs[k][0])
    <3> HIDE DEF rs, sc
    <3> QED
      BY <2>2 DEF LaneVector
  <2>4. rs[k][0] = c
    BY <2>1
  <2> HIDE DEF rs, sc
  <2> QED
    BY <1>5, <2>3, <2>4
<1> HIDE DEF rs, sc
<1>7. IsVector(x, N) /\ IsVector(b, N) /\ IsVector(t, N)
  <2>1. IsVector(t, N)
    BY <1>2, MatTyped
  <2> HIDE DEF x, b, t
  <2> QED
    BY <1>2, <2>1 DEF IsVector, Vectors
<1>8. LaneVector(B, xs, lanes, N, k, x)
  BY <1>2, <1>7, PackExact
<1> HIDE DEF xs
<1>9. LaneVector(B, ts, lanes, N, k, t)
  <2> HIDE DEF x
  <2> QED
    BY <1>2, <1>8, SlicedMatExact
<1> HIDE DEF ts
<1>10. LaneVector(B, bs, lanes, N, k, rb)
  <2>1. \A j \in 0 .. N - 1 : rb[j] = Mult(b[j], c)
    OBVIOUS
  <2>2. bs = ConstVectMultHybrid(B, sc, b, N, lanes)
    OBVIOUS
  <2> HIDE DEF rb, b, bs, c, q
  <2>3. Lane(B, sc, k \div B.word, k, c)
    BY <1>6 DEF q
  <2> QED
    BY <1>2, <1>7, <2>1, <2>2, <2>3, ScaledExact
<1> HIDE DEF bs
<1>11. LaneVector(B, folded, lanes, N, k, w)
  <2> SUFFICES ASSUME NEW j \in 0 .. N - 1
               PROVE  Lane(B, folded, Place(B, lanes, j, k), k, w[j])
    BY DEF LaneVector
  <2>1. Lane(B, ts, Place(B, lanes, j, k), k, t[j]) /\ Lane(B, bs, Place(B, lanes, j, k), k, rb[j])
    BY <1>9, <1>10 DEF LaneVector
  <2>2. w[j] = Add(t[j], rb[j])
    OBVIOUS
  <2> HIDE DEF w, t, rb
  <2> QED
    BY <2>1, <2>2, LaneAdds
<1>12. /\ \A j \in 0 .. N - 1 : rb[j] = Mult(c, b[j]) /\ w[j] = Add(t[j], rb[j])
       /\ IsVector(rb, N) /\ IsVector(w, N)
  <2> SUFFICES ASSUME NEW j \in 0 .. N - 1
               PROVE  rb[j] = Mult(c, b[j]) /\ w[j] = Add(t[j], rb[j]) /\ rb[j] \in Field /\ w[j] \in Field
    BY DEF IsVector
  <2>1. b[j] \in Field /\ c \in Field /\ t[j] \in Field
    BY <1>2, <1>7 DEF IsVector
  <2>2. rb[j] = Mult(b[j], c) /\ w[j] = Add(t[j], rb[j])
    OBVIOUS
  <2> HIDE DEF b, c, t, w, rb
  <2>3. Mult(b[j], c) = Mult(c, b[j]) /\ Mult(b[j], c) \in Field
    BY <2>1, Closed, Commutes
  <2>4. Add(t[j], rb[j]) \in Field
    BY <2>1, <2>2, <2>3, Closed
  <2> QED
    BY <2>2, <2>3, <2>4
<1> HIDE DEF folded, w, rb, t, b, x, c, q
<1>13. Lane(B, whole, q, k, VectMult(w, x, N))
  BY <1>2, <1>8, <1>11, SlicedProductExact DEF q
<1>14. Lane(B, apart, q, k, VectMult(w, x, N))
  <2>1. Lane(B, tx, q, k, VectMult(t, x, N))
    BY <1>2, <1>8, <1>9, SlicedProductExact DEF q
  <2>2. Lane(B, bx, q, k, VectMult(b, x, N))
    <3>1. bx = VectMultHybrid(B, b, xs, N, lanes)
      BY DEF b
    <3> HIDE DEF bx
    <3> QED
      BY <1>2, <1>7, <1>8, <3>1, HybridExact DEF q
  <2> HIDE DEF tx, bx
  <2>3. Lane(B, rbx, q, k, Mult(c, VectMult(b, x, N)))
    BY <1>6, <2>2, LaneMults
  <2> HIDE DEF rbx
  <2>4. Lane(B, apart, q, k, Add(VectMult(t, x, N), Mult(c, VectMult(b, x, N))))
    BY <2>1, <2>3, LaneAdds
  <2>5. VectMult(w, x, N) = Add(VectMult(t, x, N), VectMult(rb, x, N))
    <3>1. \A j \in 0 .. N - 1 : w[j] = Add(t[j], rb[j])
      BY <1>12
    <3>2. IsVector(t, N) /\ IsVector(rb, N) /\ IsVector(x, N)
      BY <1>7, <1>12
    <3> QED
      BY <1>2, <3>1, <3>2, ProductAdds
  <2>6. VectMult(rb, x, N) = Mult(c, VectMult(b, x, N))
    <3>1. \A j \in 0 .. N - 1 : rb[j] = Mult(c, b[j])
      BY <1>12
    <3>2. IsVector(b, N) /\ IsVector(x, N)
      BY <1>7
    <3> QED
      BY <1>2, <3>1, <3>2, ProductScaled
  <2> HIDE DEF apart
  <2> QED
    BY <2>4, <2>5, <2>6
<1>15. Lane(B, dot, q, k, VectMult(w, x, N))
  <2> HIDE DEF apart, whole
  <2> QED
    BY <1>13, <1>14
<1>16. Lane(B, y_r2, q, k, Mult(Mq.y[i], Mult(c, c)))
  <2> DEFINE v == [m \in 0 .. 0 |-> Mult(Mq.y[i], Mult(c, c))]
  <2>1. Lane(B, r2, q, k, Mult(c, c))
    BY <1>6, LaneMults
  <2> HIDE DEF r2, Mq
  <2>2. yv[0] = Mq.y[i] /\ v[0] = Mult(Mq.y[i], Mult(c, c))
    OBVIOUS
  <2>3. IsVector(yv, 1) /\ 1 \in Nat
    BY <1>3, <2>2 DEF IsVector
  <2>4. \A m \in 0 .. 1 - 1 : v[m] = Mult(yv[m], Mult(c, c))
    BY <2>2
  <2> HIDE DEF yv, v
  <2>5. LaneVector(B, y_r2, lanes, 1, k, v)
    BY <1>2, <2>1, <2>3, <2>4, ScaledExact DEF q
  <2> HIDE DEF y_r2
  <2> QED
    BY <1>5, <2>2, <2>5 DEF LaneVector
<1> HIDE DEF dot, y_r2
<1>17. Lane(B, v_z, q, k, Add(VectMult(w, x, N), Mult(Mq.y[i], Mult(c, c))))
  <2> HIDE DEF Mq
  <2> QED
    BY <1>15, <1>16, LaneAdds
<1> HIDE DEF v_z
<1>18. Unpack(B, v_z, k, 1, lanes)[0] = Add(VectMult(w, x, N), Mult(Mq.y[i], Mult(c, c)))
  <2> HIDE DEF Mq
  <2> QED
    BY <1>2, <1>17, UnpackScalar DEF q
<1>19. ComputePzEval(Mq, c, x)[i] = Add(VectMult(w, x, N), Mult(Mq.y[i], Mult(c, c)))
  <2> DEFINE s == VectAdd(MatMult(Mq.A[i], x), ConstantVectMult(c, Mq.b[i]))
  <2>1. ComputePzEval(Mq, c, x)[i] = Add(VectMult(s, x, N), Mult(Mq.y[i], Mult(c, c)))
    BY DEF ComputePzEval
  <2>2. /\ MatMult(Mq.A[i], x) = t /\ Mq.b[i] = b
        /\ DOMAIN MatMult(Mq.A[i], x) = 0 .. N - 1
        /\ DOMAIN Mq.b[i] = 0 .. N - 1
    BY <1>2, MatTyped DEF t, b, Vectors
  <2>3. \A j \in 0 .. N - 1 : s[j] = w[j]
    <3>1. s = [j \in 0 .. N - 1 |-> Add(t[j], Mult(c, b[j]))]
      <4> HIDE DEF Mq
      <4> QED
        BY <2>2 DEF VectAdd, ConstantVectMult
    <3> HIDE DEF s
    <3> QED
      BY <1>12, <3>1
  <2> HIDE DEF s
  <2>4. VectMult(s, x, N) = VectMult(w, x, N)
    BY <1>2, <2>3, ProductSame
  <2> QED
    BY <2>1, <2>4
<1> QED
  BY <1>4, <1>18, <1>19 DEF Mq, c, x

\* The bitsliced build of the verifier.
LEMMA SlicedVerifies ==
  ASSUME NEW key, IsKey(key), NEW B, IsSliced(B), NEW com, NEW a1, NEW points, NEW v_x, NEW u,
         \A k \in Execs : v_x[k] \in Vectors(N) /\ get_evaluation_point(points[k]) \in Field
  PROVE  RecomputePAlpha_bitslice(key.K, B, com, a1, points, v_x, u)
           = AlphasFrom(key.K, TAU, com, a1, points, v_x, u)
<1> DEFINE Mq == key.K
           lanes == EVAL_BITSLICE_LANES(B)
           off == EVAL_NON_BITSLICE_OFFSET(B)
           r == [e_ \in Execs |-> get_evaluation_point(points[e_])]
           sliced == [i \in Eqs |-> IF lanes > 0 THEN SlicedPzEval(Mq, B, i, r, v_x) ELSE <<>>]
           v_z == ComputePzEval_xTau_bitslice(Mq, B, r, v_x)
<1>1. v_z = [e_ \in Execs |-> IF e_ >= off THEN ComputePzEval(Mq, r[e_], v_x[e_])
                              ELSE [i \in Eqs |-> sliced[i][e_]]]
  BY DEF ComputePzEval_xTau_bitslice
<1>2. TAU \in Nat /\ lanes \in Nat /\ lanes <= TAU /\ off = lanes
  <2>1. B.word \in Nat \ {0} /\ TAU \in Nat
    BY PIOPAssumption DEF IsSliced
  <2>2. Floor(TAU, B.word) \in Nat /\ Floor(TAU, B.word) <= TAU
    BY <2>1, FloorFacts
  <2> QED
    BY <2>1, <2>2 DEF EVAL_BITSLICE_LANES, EVAL_NON_BITSLICE_OFFSET
<1>3. \A k \in Execs : r[k] = get_evaluation_point(points[k])
  OBVIOUS
<1> HIDE DEF r
<1>4. ASSUME NEW k \in Execs PROVE v_z[k] = ComputePzEval(Mq, r[k], v_x[k])
  <2>1. CASE k >= off
    <3> HIDE DEF v_z, off
    <3> QED
      BY <1>1, <2>1
  <2>2. CASE ~(k >= off)
    <3>1. k \in 0 .. lanes - 1 /\ lanes \in Nat \ {0} /\ lanes > 0
      <4> HIDE DEF lanes, off
      <4> QED
        BY <1>2, <2>2 DEF Execs
    <3>2. ASSUME NEW i \in Eqs PROVE sliced[i][k] = ComputePzEval(Mq, r[k], v_x[k])[i]
      <4>1. sliced[i] = SlicedPzEval(Mq, B, i, r, v_x)
        <5> HIDE DEF lanes
        <5> QED
          BY <3>1
      <4>2. r[k] \in Field /\ v_x[k] \in Vectors(N)
        BY <1>3
      <4>3. EVAL_BITSLICE_LANES(B) \in Nat \ {0} /\ k \in 0 .. EVAL_BITSLICE_LANES(B) - 1
        BY <3>1
      <4> HIDE DEF sliced, lanes
      <4> QED
        BY <4>1, <4>2, <4>3, SlicedEvalExact
    <3>3. v_z[k] = [i \in Eqs |-> sliced[i][k]]
      <4> HIDE DEF v_z, off, sliced
      <4> QED
        BY <1>1, <2>2
    <3>4. ComputePzEval(Mq, r[k], v_x[k]) = [i \in Eqs |-> ComputePzEval(Mq, r[k], v_x[k])[i]]
      BY DEF ComputePzEval
    <3> HIDE DEF v_z, sliced
    <3> QED
      BY <3>2, <3>3, <3>4
  <2> QED
    BY <2>1, <2>2
<1>5. RecomputePAlpha_bitslice(Mq, B, com, a1, points, v_x, u)
        = [e_ \in Execs |-> Unmask(ExpandBatchingChallenge(com[e_]), v_z[e_], u[e_], r[e_], a1[e_])]
  BY DEF RecomputePAlpha_bitslice, r
<1>6. Execs = 0 .. TAU - 1
  BY DEF Execs
<1> HIDE DEF v_z, Mq
<1> QED
  BY <1>3, <1>4, <1>5, <1>6 DEF AlphasFrom, AlphaFrom, Mq

-----------------------------------------------------------------------------
(***************************************************************************)
(* A call, from the first step to the last: what the windows, the arrays   *)
(* and the hashes hold at each step (Exact), for every build.              *)
(***************************************************************************)
\* What a call is about: the signature given to a verifier, the points it
\* derives, and execution k as the line commitment gives it to the call.
SigGiven(j) == Tampered(SignatureOf(Keys[j.key]), j.tampered)
PointsOf(j) ==
  LET c == Challenge(SigGiven(j).sig_id)
  IN  IF j.tampered = "nonce" THEN [k \in Execs |-> (c[k] + 1) % 4] ELSE c
OpensAt(j, k) == SigGiven(j).opening.at[k] = PointsOf(j)[k]

ComOf(j, k) == IF j.role = "sign" \/ OpensAt(j, k) THEN k ELSE k + 100
XOf(j, k) ==
  LET key == Keys[j.key]
  IN  IF j.role = "sign" \/ ~OpensAt(j, k) THEN key.x0[k]
      ELSE At(key.x0[k], key.K.x, get_evaluation_point(PointsOf(j)[k]))
UOf(j, k) ==
  LET key == Keys[j.key]
  IN  IF j.role = "sign" THEN key.u0[k]
      ELSE At(key.u0[k], key.u1[k], get_evaluation_point(PointsOf(j)[k]))
VOf(j, k) == Keys[j.key].u1[k]

\* alpha0 and alpha1 as the call is to compute them.
Alpha0Of(j, k) ==
  LET key == Keys[j.key]
  IN  IF j.role = "sign" THEN LineOfKey(key, k).alpha0
      ELSE AlphaFrom(key.K, ComOf(j, k), SigGiven(j).opening.alpha1[k],
                     get_evaluation_point(PointsOf(j)[k]), XOf(j, k), UOf(j, k))
Alpha1Of(j, k) == LineOfKey(Keys[j.key], k).alpha1

\* The commitments of the first n executions.
ComsOf(j, n) == [i \in 1 .. n |-> ComOf(j, i - 1)]

\* A verifier works on what it was given; a signer has a signature in the making.
Inputs ==
  /\ ~Signing => sig = SigGiven(job) /\ (pc # "enter" => i_star = PointsOf(job))
  /\ Signing => /\ sig = [sig_id |-> sig.sig_id, salt |-> sig.salt, opening |-> sig.opening]
                /\ pc \notin {"enter", "err", "done"} => sig.salt = 1

\* The arrays of the build.
Slots(j) == 0 .. (IF j.memopt THEN BatchOf(j) ELSE TAU) - 1
ComSlots(j) == 0 .. (IF j.memopt /\ j.stream THEN BatchOf(j) ELSE TAU) - 1
Arrays ==
  pc \in {"enter", "window", "piop"} =>
    /\ ws = [x |-> ws.x, u |-> ws.u, v |-> ws.v]
    /\ DOMAIN ws.x = Slots(job) /\ DOMAIN ws.u = Slots(job) /\ DOMAIN ws.v = Slots(job)
    /\ DOMAIN com1 = ComSlots(job)
    /\ DOMAIN alpha0 = Execs /\ DOMAIN alpha1 = Execs

\* Nothing is done yet.
Untouched == pc \in {"enter", "window"} /\ (pc = "enter" \/ ~job.memopt) =>
  e = 0 /\ p = 0 /\ absorbed = <<>>

\* The executions of the window that are there.
FilledSlots == IF pc = "piop" THEN InWindow ELSE IF job.ot THEN 0 ELSE e - WindowStart

\* The loops over windows, and over the batches in a window.
Bounds ==
  /\ e \in 0 .. TAU - 1 /\ p \in Nat
  /\ pc = "window" => p = 0
  /\ pc = "piop" => p < InWindow
  /\ pc = "piop" /\ ~job.ot => e - WindowStart = job.piop_batch - 1 \/ e = TAU - 1
  /\ ALPHA_ALIASED => e = 0

\* The window holds its executions: where alpha0 shares the place of u0, those
\* of which alpha0 is not computed yet.
LinesReady ==
  \A s \in 0 .. FilledSlots - 1 :
    /\ ws.x[s] = XOf(job, WindowStart + s)
    /\ com1[COM1_BATCH + s] = ComOf(job, WindowStart + s)
    /\ ~(Signing /\ ALPHA_ALIASED /\ s < p) =>
         /\ ws.u[s] = UOf(job, WindowStart + s)
         /\ Signing => ws.v[s] = VOf(job, WindowStart + s)

\* The commitments of this window and of those before are kept or absorbed.
ComsReady ==
  /\ ~job.stream => \A k \in 0 .. WindowStart + FilledSlots - 1 : com1[k] = ComOf(job, k)
  /\ job.stream => absorbed = ComsOf(job, WindowStart)

\* alpha0, and a signer's alpha1, of the first n executions.
AlphasReady(n) ==
  \A k \in 0 .. n - 1 :
    /\ Signing => Alpha0[k] = Alpha0Of(job, k) /\ Alpha1[k] = Alpha1Of(job, k)
    /\ ~Signing => alpha0[k] = Alpha0Of(job, k)

WindowReady ==
  pc \in {"window", "piop"} /\ job.memopt =>
    Bounds /\ LinesReady /\ ComsReady /\ AlphasReady(WindowStart + p)

\* The default build holds all executions; a verifier, alpha1 of the opening.
AllReady ==
  pc = "piop" /\ ~job.memopt =>
    \A k \in Execs : /\ com1[k] = ComOf(job, k)
                     /\ ws.x[k] = XOf(job, k) /\ ws.u[k] = UOf(job, k)
                     /\ Signing => ws.v[k] = VOf(job, k)

Parsed == pc \in {"piop", "hash"} /\ ~job.memopt /\ ~Signing => alpha1 = SigGiven(job).opening.alpha1

\* What is hashed, and what is opened.
HashReady == pc = "hash" => Committed = ComsOf(job, TAU) /\ AlphasReady(TAU)
OpenReady ==
  pc \in {"challenge", "open"} =>
    /\ Signing /\ sig.sig_id = SignatureOf(Key).sig_id
    /\ \A k \in Execs : Alpha1[k] = Alpha1Of(job, k)
    /\ pc = "open" => i_star = Challenge(sig.sig_id)

Finished ==
  /\ pc = "opened" => Signing /\ ret = 0 /\ sig = SignatureOf(Key)
  /\ pc = "compared" => ~Signing /\ (ret = 0 <=> job.tampered = "nothing")

Exact ==
  /\ Inputs /\ Arrays /\ Untouched /\ WindowReady /\ AllReady /\ Parsed
  /\ HashReady /\ OpenReady /\ Finished /\ SignatureExact /\ VerdictExact

\* The elements of an array in their order.
LEMMA AsSeqExact ==
  ASSUME NEW n \in Nat, NEW array, DOMAIN array = 0 .. n - 1
  PROVE  AsSeq(array) = [i \in 1 .. n |-> array[i - 1]]
<1>1. Cardinality(0 .. n - 1) = n
  <2>1. 0 \in Int /\ n - 1 \in Int
    OBVIOUS
  <2>2. Cardinality(0 .. n - 1) = IF 0 > n - 1 THEN 0 ELSE (n - 1) - 0 + 1
    BY <2>1, FS_Interval
  <2> QED
    BY <2>2
<1> QED
  BY <1>1 DEF AsSeq

\* The hash inputs of the definition.
IdOf(key) ==
  [com1 |-> [i \in 1 .. TAU |-> i - 1],
   com2 |-> [k \in Execs |-> <<LineOfKey(key, k).alpha0, LineOfKey(key, k).alpha1>>],
   msg |-> MSG]

\* The signature of the definition, with the lines of P_alpha.
LEMMA SignatureParts ==
  ASSUME NEW key, IsKey(key)
  PROVE  SignatureOf(key) = [sig_id |-> IdOf(key), salt |-> 1,
                             opening |-> [holds |-> "opening", at |-> Challenge(IdOf(key)),
                                          alpha1 |-> [k \in Execs |-> LineOfKey(key, k).alpha1]]]
<1> DEFINE a0 == [k \in Execs |-> PAlphaAt(key, k, 0)]
           a1 == [k \in Execs |-> VectAdd(PAlphaAt(key, k, 1), PAlphaAt(key, k, 0))]
           coms == AsSeq([k \in Execs |-> k])
           id == SigId(coms, a0, a1, MSG)
<1>1. SignatureOf(key) = [sig_id |-> id, salt |-> 1,
                          opening |-> [holds |-> "opening", at |-> Challenge(id), alpha1 |-> a1]]
  BY DEF SignatureOf
<1>2. \A k \in Execs : /\ PAlphaAt(key, k, 0) = LineOfKey(key, k).alpha0
                       /\ VectAdd(PAlphaAt(key, k, 1), PAlphaAt(key, k, 0)) = LineOfKey(key, k).alpha1
  BY AlphaExact
<1>3. a1 = [k \in Execs |-> LineOfKey(key, k).alpha1]
  BY <1>2
<1>4. coms = [i \in 1 .. TAU |-> i - 1]
  <2> DEFINE numbers == [k \in Execs |-> k]
  <2>1. TAU \in Nat /\ DOMAIN numbers = 0 .. TAU - 1
    BY PIOPAssumption DEF Execs
  <2>2. \A i \in 1 .. TAU : numbers[i - 1] = i - 1
    BY <2>1 DEF Execs
  <2> HIDE DEF numbers
  <2>3. AsSeq(numbers) = [i \in 1 .. TAU |-> numbers[i - 1]]
    BY <2>1, AsSeqExact
  <2>4. AsSeq(numbers) = [i \in 1 .. TAU |-> i - 1]
    BY <2>2, <2>3
  <2> QED
    BY <2>4 DEF numbers
<1>5. \A k \in Execs : a0[k] = LineOfKey(key, k).alpha0 /\ a1[k] = LineOfKey(key, k).alpha1
  BY <1>2
<1> HIDE DEF a0, a1, coms
<1>6. id = IdOf(key)
  BY <1>4, <1>5 DEF SigId, IdOf
<1> HIDE DEF id
<1> QED
  BY <1>1, <1>3, <1>6

\* The points of a challenge.
LEMMA ChallengeTyped ==
  ASSUME NEW key, IsKey(key)
  PROVE  /\ DOMAIN Challenge(IdOf(key)) = Execs
         /\ \A k \in Execs : Challenge(IdOf(key))[k] \in 0 .. 3
<1> DEFINE id == IdOf(key)
<1>1. TAU - 1 \in Execs /\ 0 \in Execs /\ ETA \in Nat \ {0}
  BY PIOPAssumption DEF Execs
<1>2. ASSUME NEW k \in Execs
      PROVE  LineOfKey(key, k).alpha0[0] \in 0 .. 3 /\ LineOfKey(key, k).alpha1[0] \in 0 .. 3
  <2>1. 0 \in Field
    BY Closed
  <2>2. LineOfKey(key, k).alpha0 \in Vectors(ETA) /\ LineOfKey(key, k).alpha1 \in Vectors(ETA)
    BY <2>1, PAlphaIsLine
  <2> QED
    BY <1>1, <2>2 DEF Vectors, Field
<1>3. ASSUME NEW k \in Execs PROVE Challenge(id)[k] \in 0 .. 3
  <2> DEFINE a == LineOfKey(key, k).alpha0[0]
             b == LineOfKey(key, 0).alpha1[0]
  <2>1. Challenge(id)[k] = (k + id.com2[k][1][0] + 2 * id.com2[0][2][0]) % 4
    BY DEF Challenge
  <2>2. id.com2[k][1][0] = a /\ id.com2[0][2][0] = b
    BY <1>1 DEF IdOf
  <2>3. a \in 0 .. 3 /\ b \in 0 .. 3 /\ k \in Nat
    BY <1>1, <1>2, PIOPAssumption DEF Execs
  <2> HIDE DEF a, b, id
  <2> QED
    BY <2>1, <2>2, <2>3
<1> QED
  BY <1>3 DEF Challenge

\* get_evaluation_point gives an element of the field.
LEMMA PointInField == \A i \in 0 .. 3 : get_evaluation_point(i) \in Field
<1>1. ASSUME NEW i \in 0 .. 3 PROVE i \in Field /\ i \div 2 \in Field
  BY <1>1 DEF Field
<1> QED
  BY <1>1, Closed DEF get_evaluation_point

\* The key of a call.
LEMMA KeyOfCall ==
  ASSUME NEW j \in AllCalls
  PROVE  IsKey(Keys[j.key])
BY SignAssumption DEF AllCalls

\* The parts of what a verifier is given.
LEMMA GivenParts ==
  ASSUME NEW j \in AllCalls
  PROVE  /\ SigGiven(j).sig_id = IdOf(Keys[j.key])
         /\ DOMAIN SigGiven(j).opening.alpha1 = Execs
         /\ \A k \in Execs : SigGiven(j).opening.at[k] =
              IF j.tampered = "path" /\ k = TAU - 1 THEN -1 ELSE Challenge(IdOf(Keys[j.key]))[k]
         /\ j.tampered # "alpha1" =>
              SigGiven(j).opening.alpha1 = [k \in Execs |-> LineOfKey(Keys[j.key], k).alpha1]
         /\ j.tampered = "alpha1" =>
              SigGiven(j).opening.alpha1[TAU - 1] # LineOfKey(Keys[j.key], TAU - 1).alpha1
<1> DEFINE key == Keys[j.key]
           id == IdOf(key)
           c == Challenge(id)
           a1 == [k \in Execs |-> LineOfKey(key, k).alpha1]
           s == [sig_id |-> id, salt |-> 1, opening |-> [holds |-> "opening", at |-> c, alpha1 |-> a1]]
           t == j.tampered
<1>1. IsKey(key) /\ t \in {"nothing", "message", "nonce", "alpha1", "path"}
  BY KeyOfCall DEF AllCalls
<1>2. SigGiven(j) = Tampered(s, t)
  BY <1>1, SignatureParts DEF SigGiven
<1>3. DOMAIN c = Execs /\ DOMAIN a1 = Execs /\ TAU - 1 \in Execs
  <2>1. TAU \in Nat \ {0}
    BY PIOPAssumption
  <2>2. TAU - 1 \in Execs
    BY <2>1 DEF Execs
  <2> QED
    BY <1>1, <2>2, ChallengeTyped
<1>4. a1[TAU - 1] = LineOfKey(key, TAU - 1).alpha1
  BY <1>3
<1>5. LineOfKey(key, TAU - 1).alpha1 \in Vectors(ETA)
  BY <1>1, <1>3, Closed, PAlphaIsLine
<1> DEFINE old == LineOfKey(key, TAU - 1).alpha1
<1>6. old \in Vectors(ETA) /\ a1[TAU - 1] = old /\ TAU \in Nat
  BY <1>4, <1>5, PIOPAssumption
<1>7. a1 = [k \in Execs |-> LineOfKey(key, k).alpha1]
  OBVIOUS
<1>11. key = Keys[j.key] /\ id = IdOf(Keys[j.key])
  OBVIOUS
<1> HIDE DEF c, a1, t, old, key, id
<1>8. CASE t = "alpha1"
  <2> DEFINE new == [old EXCEPT ![ETA - 1] = Add(@, 1)]
             b1 == [a1 EXCEPT ![TAU - 1] = new]
  <2>1. Tampered(s, t) = [s EXCEPT !.opening.alpha1[TAU - 1][ETA - 1] = Add(@, 1)]
    BY <1>8 DEF Tampered
  <2>2. Tampered(s, t) = [sig_id |-> id, salt |-> 1, opening |-> [holds |-> "opening", at |-> c, alpha1 |-> b1]]
    BY <1>3, <1>6, <2>1
  <2>3. new[ETA - 1] # old[ETA - 1]
    <3>1. ETA - 1 \in 0 .. ETA - 1
      BY PIOPAssumption
    <3>2. new[ETA - 1] = Add(old[ETA - 1], 1) /\ old[ETA - 1] \in Field
      BY <1>6, <3>1 DEF Vectors
    <3>3. \A a \in Field : Add(a, 1) # a
      BY DEF Field, Add, Plus
    <3> QED
      BY <3>2, <3>3
  <2>4. b1[TAU - 1] = new /\ DOMAIN b1 = Execs
    BY <1>3
  <2> HIDE DEF b1, new
  <2> QED
    BY <1>2, <1>6, <1>8, <2>2, <2>3, <2>4, <1>11 DEF c, t, old
<1>9. CASE t = "path"
  <2> DEFINE at == [c EXCEPT ![TAU - 1] = -1]
  <2>1. Tampered(s, t) = [s EXCEPT !.opening.at[TAU - 1] = -1]
    BY <1>9 DEF Tampered
  <2>2. Tampered(s, t) = [sig_id |-> id, salt |-> 1, opening |-> [holds |-> "opening", at |-> at, alpha1 |-> a1]]
    BY <2>1
  <2>3. \A k \in Execs : at[k] = IF k = TAU - 1 THEN -1 ELSE c[k]
    BY <1>3
  <2> HIDE DEF at
  <2> QED
    BY <1>2, <1>3, <1>7, <1>9, <2>2, <2>3, <1>11 DEF c, t
<1>10. CASE t \notin {"alpha1", "path"}
  <2>1. Tampered(s, t) = s
    BY <1>10 DEF Tampered
  <2> QED
    BY <1>2, <1>3, <1>7, <1>10, <2>1, <1>11 DEF c, t
<1> QED
  BY <1>8, <1>9, <1>10

\* The points that a verifier derives.
LEMMA PointsTyped ==
  ASSUME NEW j \in AllCalls, NEW k \in Execs
  PROVE  /\ PointsOf(j)[k] \in 0 .. 3
         /\ get_evaluation_point(PointsOf(j)[k]) \in Field
         /\ OpensAt(j, k) <=> j.tampered # "nonce" /\ ~(j.tampered = "path" /\ k = TAU - 1)
<1> DEFINE key == Keys[j.key]
           id == IdOf(key)
           c == Challenge(id)
<1>1. IsKey(key) /\ c[k] \in 0 .. 3
  BY KeyOfCall, ChallengeTyped
<1>2. /\ SigGiven(j).sig_id = id
      /\ SigGiven(j).opening.at[k] = IF j.tampered = "path" /\ k = TAU - 1 THEN -1 ELSE c[k]
  BY GivenParts
<1>3. PointsOf(j)[k] = IF j.tampered = "nonce" THEN (c[k] + 1) % 4 ELSE c[k]
  BY <1>2 DEF PointsOf
<1> HIDE DEF c, id
<1>4. PointsOf(j)[k] \in 0 .. 3 /\ (c[k] + 1) % 4 # c[k]
  BY <1>1, <1>3
<1>5. get_evaluation_point(PointsOf(j)[k]) \in Field
  BY <1>4, PointInField
<1>6. OpensAt(j, k) <=> j.tampered # "nonce" /\ ~(j.tampered = "path" /\ k = TAU - 1)
  BY <1>1, <1>2, <1>3, <1>4 DEF OpensAt
<1> QED
  BY <1>4, <1>5, <1>6

\* A signer computes the alphas of the definition; so does a verifier of a
\* signature that was not changed.
LEMMA VerifierAlpha ==
  ASSUME NEW j \in AllCalls, NEW k \in Execs, j.tampered = "nothing"
  PROVE  Alpha0Of(j, k) = LineOfKey(Keys[j.key], k).alpha0
<1> DEFINE key == Keys[j.key]
           r == get_evaluation_point(PointsOf(j)[k])
<1>1. IsKey(key) /\ r \in Field /\ OpensAt(j, k)
  BY KeyOfCall, PointsTyped
<1>2. SigGiven(j).opening.alpha1[k] = LineOfKey(key, k).alpha1
  <2>1. SigGiven(j).opening.alpha1 = [m \in Execs |-> LineOfKey(Keys[j.key], m).alpha1]
    BY GivenParts
  <2> QED
    BY <2>1
<1>3. AlphaFrom(key.K, k, LineOfKey(key, k).alpha1, r, At(key.x0[k], key.K.x, r), At(key.u0[k], key.u1[k], r))
        = LineOfKey(key, k).alpha0
  BY <1>1, AlphaExact
<1>4. CASE j.role = "sign"
  BY <1>4 DEF Alpha0Of
<1>5. CASE j.role # "sign"
  <2>1. /\ ComOf(j, k) = k /\ XOf(j, k) = At(key.x0[k], key.K.x, r)
        /\ UOf(j, k) = At(key.u0[k], key.u1[k], r)
    BY <1>1, <1>5 DEF ComOf, XOf, UOf
  <2> QED
    BY <1>2, <1>3, <1>5, <2>1 DEF Alpha0Of
<1> QED
  BY <1>4, <1>5

\* The hash inputs of a verifier are those of the signature, unless something
\* was changed.
LEMMA VerdictOf ==
  ASSUME NEW j \in AllCalls, j.role # "sign", NEW a0, NEW a1,
         \A k \in Execs : a0[k] = Alpha0Of(j, k) /\ a1[k] = SigGiven(j).opening.alpha1[k]
  PROVE  SigId(ComsOf(j, TAU), a0, a1, MessageOf(j.tampered)) = SigGiven(j).sig_id
           <=> j.tampered = "nothing"
<1> DEFINE key == Keys[j.key]
           id == IdOf(key)
           mine == SigId(ComsOf(j, TAU), a0, a1, MessageOf(j.tampered))
<1>1. /\ SigGiven(j).sig_id = id
      /\ j.tampered # "alpha1" => SigGiven(j).opening.alpha1 = [k \in Execs |-> LineOfKey(key, k).alpha1]
      /\ j.tampered = "alpha1" => SigGiven(j).opening.alpha1[TAU - 1] # LineOfKey(key, TAU - 1).alpha1
  BY GivenParts
<1>2. /\ mine = [com1 |-> ComsOf(j, TAU), com2 |-> [k \in Execs |-> <<a0[k], a1[k]>>],
                 msg |-> MessageOf(j.tampered)]
      /\ id = [com1 |-> [i \in 1 .. TAU |-> i - 1],
               com2 |-> [k \in Execs |-> <<LineOfKey(key, k).alpha0, LineOfKey(key, k).alpha1>>],
               msg |-> MSG]
  BY DEF SigId, IdOf
<1>3. TAU \in 1 .. TAU /\ TAU - 1 \in Execs /\ TAU \in Int /\ \A i \in 1 .. TAU : i - 1 \in Execs
  BY PIOPAssumption DEF Execs
<1>4. j.tampered \in {"nothing", "message", "nonce", "alpha1", "path"} /\ MSG \in Nat
  BY SignAssumption DEF AllCalls
<1>5. \A i \in 1 .. TAU : ComsOf(j, TAU)[i] = ComOf(j, i - 1)
  BY DEF ComsOf
<1>6. CASE j.tampered = "nothing"
  <2>1. \A k \in Execs : OpensAt(j, k)
    BY <1>6, PointsTyped
  <2>2. ComsOf(j, TAU) = [i \in 1 .. TAU |-> i - 1]
    BY <1>3, <2>1 DEF ComsOf, ComOf
  <2>3. \A k \in Execs : a0[k] = LineOfKey(key, k).alpha0 /\ a1[k] = LineOfKey(key, k).alpha1
    BY <1>1, <1>6, VerifierAlpha
  <2>4. MessageOf(j.tampered) = MSG
    BY <1>6 DEF MessageOf
  <2> HIDE DEF key, mine, id
  <2> QED
    BY <1>1, <1>2, <1>6, <2>2, <2>3, <2>4 DEF mine
<1>7. CASE j.tampered = "message"
  <2>1. MessageOf(j.tampered) = MSG + 1 /\ MSG + 1 # MSG
    BY <1>4, <1>7 DEF MessageOf
  <2>2. mine.msg = MSG + 1 /\ id.msg = MSG
    BY <1>2, <2>1
  <2> HIDE DEF mine, id
  <2> QED
    BY <1>1, <1>7, <2>1, <2>2 DEF mine
<1>8. CASE j.tampered \in {"nonce", "path"}
  <2>1. ~OpensAt(j, TAU - 1)
    BY <1>3, <1>8, PointsTyped
  <2>2. ComsOf(j, TAU)[TAU] = (TAU - 1) + 100
    BY <1>3, <1>5, <2>1 DEF ComOf
  <2>3. mine.com1[TAU] = (TAU - 1) + 100 /\ id.com1[TAU] = TAU - 1
    BY <1>2, <1>3, <2>2
  <2> HIDE DEF mine, id
  <2>4. mine # id
    BY <1>3, <2>3
  <2> QED
    BY <1>1, <1>8, <2>4 DEF mine
<1>9. CASE j.tampered = "alpha1"
  <2>1. a1[TAU - 1] # LineOfKey(key, TAU - 1).alpha1
    BY <1>1, <1>3, <1>9
  <2>2. mine.com2[TAU - 1][2] = a1[TAU - 1] /\ id.com2[TAU - 1][2] = LineOfKey(key, TAU - 1).alpha1
    BY <1>2, <1>3
  <2> HIDE DEF mine, id
  <2>3. mine # id
    BY <2>1, <2>2
  <2> QED
    BY <1>1, <1>9, <2>3 DEF mine
<1> QED
  BY <1>4, <1>6, <1>7, <1>8, <1>9

-----------------------------------------------------------------------------
(***************************************************************************)
(* The steps of a call.                                                    *)
(***************************************************************************)
\* What stays of a call.
LEMMA CallUnchanged ==
  ASSUME job' = job
  PROVE  /\ Signing' = Signing /\ Key' = Key /\ ALPHA_ALIASED' = ALPHA_ALIASED
         /\ SignatureOf(Key)' = SignatureOf(Key)
         /\ SigGiven(job)' = SigGiven(job) /\ PointsOf(job)' = PointsOf(job)
         /\ Slots(job)' = Slots(job) /\ ComSlots(job)' = ComSlots(job)
BY DEF Signing, Key, ALPHA_ALIASED

\* A call that failed owes only its inputs.
LEMMA FailsExact ==
  ASSUME pc' \in {"err", "failed"}, pc' = "failed" => ret' # 0, Inputs'
  PROVE  Exact'
BY DEF Exact, Arrays, Untouched, WindowReady, AllReady, Parsed, HashReady, OpenReady, Finished,
       SignatureExact, VerdictExact

\* The inputs stay while a call goes on.
LEMMA InputsStay ==
  ASSUME Exact, job' = job, pc \notin {"enter", "err", "done"}, i_star' = i_star \/ Signing,
         sig' = sig \/ (Signing /\ sig' = [sig_id |-> sig'.sig_id, salt |-> sig.salt,
                                           opening |-> sig'.opening])
  PROVE  Inputs'
<1>1. Inputs /\ Signing' = Signing /\ SigGiven(job)' = SigGiven(job) /\ PointsOf(job)' = PointsOf(job)
  BY CallUnchanged DEF Exact
<1>2. CASE ~Signing
  BY <1>1, <1>2 DEF Inputs
<1>3. CASE Signing /\ sig' = sig
  BY <1>1, <1>3 DEF Inputs
<1>4. CASE Signing /\ sig' # sig
  <2>1. sig' = [sig_id |-> sig'.sig_id, salt |-> sig.salt, opening |-> sig'.opening] /\ sig.salt = 1
    BY <1>1, <1>4 DEF Inputs
  <2>2. sig'.salt = sig.salt
    BY <2>1
  <2> QED
    BY <1>1, <1>4, <2>1, <2>2 DEF Inputs
<1> QED
  BY <1>2, <1>3, <1>4

-----------------------------------------------------------------------------
\* A call begins with junk in its arrays.
LEMMA ExactAtFirst == SVInit(AllCalls, "enter") => Exact
<1> SUFFICES ASSUME SVInit(AllCalls, "enter") PROVE Exact
  OBVIOUS
<1>1. /\ job \in AllCalls /\ pc = "enter" /\ e = 0 /\ p = 0 /\ absorbed = <<>>
      /\ com1 = [s \in ComSlots(job) |-> Unwritten]
      /\ alpha0 = JunkRows(TAU, ETA) /\ alpha1 = JunkRows(TAU, ETA)
      /\ sig = IF Signing THEN ZeroSig ELSE Tampered(SignatureOf(Key), job.tampered)
  BY DEF SVInit, ComSlots
<1>2. LET n == IF job.memopt THEN BatchOf(job) ELSE TAU
      IN  ws = [x |-> JunkRows(n, N), u |-> JunkRows(n, ETA), v |-> JunkRows(n, ETA)]
  BY DEF SVInit
<1>3. Arrays
  BY <1>1, <1>2 DEF Arrays, JunkRows, Slots, Execs
<1>4. Inputs
  BY <1>1 DEF Inputs, ZeroSig, SigGiven, Key
<1> QED
  BY <1>1, <1>3, <1>4 DEF Exact, Untouched, WindowReady, AllReady, Parsed, HashReady, OpenReady, Finished,
       SignatureExact, VerdictExact

\* A signer without memory for the key.
LEMMA KeyIsNullExact == ASSUME SVInv, Exact, KeyIsNull PROVE Exact'
<1>1. /\ pc = "enter" /\ pc' = "done" /\ sig' = ZeroSig /\ ret' = ret /\ job' = job /\ Signing
  BY DEF KeyIsNull
<1>2. ret = -1 /\ Signing'
  BY <1>1, CallUnchanged DEF SVInv, Bookkeeping
<1> QED
  BY <1>1, <1>2 DEF Exact, Inputs, Arrays, Untouched, WindowReady, AllReady, Parsed, HashReady, OpenReady,
       Finished, SignatureExact, VerdictExact, ZeroSig

\* What a memory efficient build has at its start: a window, empty.
LEMMA FirstWindow ==
  job \in AllCalls /\ pc = "window" /\ e = 0 /\ p = 0 /\ absorbed = <<>> => WindowReady
<1> SUFFICES ASSUME job \in AllCalls, pc = "window", e = 0, p = 0, absorbed = <<>>, job.memopt
             PROVE  Bounds /\ LinesReady /\ ComsReady /\ AlphasReady(WindowStart + p)
  BY DEF WindowReady
<1>1. WindowStart = 0
  <2>1. job.piop_batch \in Nat \ {0}
    BY DEF AllCalls
  <2>2. 0 % job.piop_batch = 0
    BY <2>1
  <2> QED
    BY <2>2 DEF WindowStart
<1>2. FilledSlots = 0
  BY <1>1 DEF FilledSlots
<1>3. Bounds
  BY PIOPAssumption DEF Bounds
<1>4. LinesReady /\ AlphasReady(WindowStart + p)
  BY <1>1, <1>2 DEF LinesReady, AlphasReady
<1>5. ComsReady
  BY <1>1, <1>2 DEF ComsReady, ComsOf
<1> QED
  BY <1>3, <1>4, <1>5

\* The start of a signer and of a verifier.
LEMMA EntersExact ==
  ASSUME SVInv, Exact, EnterSign \/ EnterVerify
  PROVE  Exact'
<1>1. /\ pc = "enter" /\ job' = job /\ e' = e /\ p' = p /\ absorbed' = absorbed /\ ws' = ws /\ com1' = com1
      /\ alpha0' = alpha0 /\ alpha1' = alpha1 /\ pc' \in {"window", "err"}
      /\ Inputs /\ Arrays /\ e = 0 /\ p = 0 /\ absorbed = <<>>
  BY DEF EnterSign, EnterVerify, Exact, Untouched
<1>2. job \in AllCalls /\ job' \in AllCalls
  BY <1>1 DEF SVInv, Bookkeeping
<1>3. Signing' = Signing /\ SigGiven(job)' = SigGiven(job) /\ PointsOf(job)' = PointsOf(job)
  BY <1>1, CallUnchanged
<1>4. Inputs'
  <2>1. CASE EnterSign
    <3>1. Signing /\ sig' = [sig EXCEPT !.salt = 1]
      BY <2>1 DEF EnterSign
    <3>2. sig = [sig_id |-> sig.sig_id, salt |-> sig.salt, opening |-> sig.opening]
      BY <1>1, <3>1 DEF Inputs
    <3>3. sig' = [sig_id |-> sig.sig_id, salt |-> 1, opening |-> sig.opening]
      BY <3>1, <3>2
    <3>4. sig'.salt = 1 /\ sig' = [sig_id |-> sig'.sig_id, salt |-> sig'.salt, opening |-> sig'.opening]
      BY <3>3
    <3> QED
      BY <1>3, <3>1, <3>4 DEF Inputs
  <2>2. CASE EnterVerify
    <3>1. ~Signing /\ sig' = sig /\ i_star' = VerifierChallenge(job.tampered = "nonce")
      BY <2>2 DEF EnterVerify
    <3>2. sig = SigGiven(job)
      BY <1>1, <3>1 DEF Inputs
    <3>3. i_star' = PointsOf(job)
      BY <3>1, <3>2 DEF VerifierChallenge, PointsOf
    <3> QED
      BY <1>3, <3>1, <3>2, <3>3 DEF Inputs
  <2> QED
    BY <2>1, <2>2
<1>5. CASE pc' = "err"
  BY <1>4, <1>5, FailsExact
<1>6. CASE pc' = "window"
  <2>1. Arrays'
    BY <1>1, <1>6, CallUnchanged DEF Arrays
  <2>2. Untouched'
    BY <1>1, <1>6 DEF Untouched
  <2>3. WindowReady'
    <3>1. (job \in AllCalls /\ pc = "window" /\ e = 0 /\ p = 0 /\ absorbed = <<>>)'
      BY <1>1, <1>2, <1>6
    <3>2. (job \in AllCalls /\ pc = "window" /\ e = 0 /\ p = 0 /\ absorbed = <<>> => WindowReady)'
      BY FirstWindow, PTL
    <3> QED
      BY <3>1, <3>2
  <2> QED
    BY <1>4, <1>6, <2>1, <2>2, <2>3 DEF Exact, AllReady, Parsed, HashReady, OpenReady, Finished,
         SignatureExact, VerdictExact
<1> QED
  BY <1>1, <1>5, <1>6

\* alpha1 that a signer hashes and opens.
LEMMA AlphasStay ==
  ASSUME job' = job, alpha1' = alpha1, ws'.v = ws.v
  PROVE  Alpha1' = Alpha1
BY CallUnchanged DEF Alpha1

\* The hashes make the sig_id of the definition.
LEMMA HashSignExact == ASSUME SVInv, Exact, HashSign PROVE Exact'
<1>1. /\ pc = "hash" /\ Signing /\ job' = job /\ i_star' = i_star /\ alpha1' = alpha1
      /\ ws' = [ws EXCEPT !.x = JunkRows(Cardinality(DOMAIN ws.x), N)]
      /\ sig' = [sig EXCEPT !.sig_id = SigId(Committed, Alpha0, Alpha1, MSG)]
      /\ pc' \in {"challenge", "err"}
  BY DEF HashSign, Reaches
<1>2. /\ Committed = ComsOf(job, TAU) /\ job \in AllCalls
      /\ \A k \in Execs : Alpha0[k] = Alpha0Of(job, k) /\ Alpha1[k] = Alpha1Of(job, k)
  BY <1>1 DEF Exact, HashReady, AlphasReady, Execs, SVInv, Bookkeeping
<1>3. sig = [sig_id |-> sig.sig_id, salt |-> sig.salt, opening |-> sig.opening]
  BY <1>1 DEF Exact, Inputs
<1>4. Inputs'
  <2>1. sig' = [sig_id |-> sig'.sig_id, salt |-> sig.salt, opening |-> sig'.opening]
    BY <1>1, <1>3
  <2> QED
    BY <1>1, <2>1, InputsStay
<1>5. CASE pc' = "err"
  BY <1>4, <1>5, FailsExact
<1>6. CASE pc' = "challenge"
  <2>1. SigId(Committed, Alpha0, Alpha1, MSG) = IdOf(Key)
    <3>1. job.role = "sign"
      BY <1>1 DEF Signing
    <3>2. \A k \in Execs : Alpha0[k] = LineOfKey(Key, k).alpha0 /\ Alpha1[k] = LineOfKey(Key, k).alpha1
      BY <1>2, <3>1 DEF Alpha0Of, Alpha1Of, Key
    <3>3. Committed = [i \in 1 .. TAU |-> i - 1]
      BY <1>2, <3>1 DEF ComsOf, ComOf
    <3> QED
      BY <3>2, <3>3 DEF SigId, IdOf
  <2>2. SignatureOf(Key).sig_id = IdOf(Key)
    <3>1. IsKey(Key)
      BY <1>2, KeyOfCall DEF Key
    <3> QED
      BY <3>1, SignatureParts
  <2>3. sig'.sig_id = SigId(Committed, Alpha0, Alpha1, MSG)
    BY <1>1, <1>3
  <2>4. Alpha1' = Alpha1
    <3>1. ws'.v = ws.v
      BY <1>1
    <3> QED
      BY <1>1, <3>1, AlphasStay
  <2>5. OpenReady'
    <3>1. Signing' /\ SignatureOf(Key)' = SignatureOf(Key)
      BY <1>1, CallUnchanged
    <3>2. \A k \in Execs : (Alpha1[k] = Alpha1Of(job, k))'
      BY <1>1, <1>2, <2>4
    <3> QED
      BY <1>6, <2>1, <2>2, <2>3, <3>1, <3>2 DEF OpenReady
  <2> QED
    BY <1>4, <1>6, <2>5 DEF Exact, Arrays, Untouched, WindowReady, AllReady, Parsed, HashReady, Finished,
         SignatureExact, VerdictExact
<1> QED
  BY <1>1, <1>5, <1>6

\* The comparison finds what was changed.
LEMMA HashVerifyExact == ASSUME SVInv, Exact, HashVerify PROVE Exact'
<1> DEFINE a1 == IF job.memopt THEN sig.opening.alpha1 ELSE alpha1
           mine == SigId(Committed, alpha0, a1, MessageOf(job.tampered))
<1>1. /\ pc = "hash" /\ ~Signing /\ job' = job /\ i_star' = i_star /\ sig' = sig
      /\ \/ pc' = "compared" /\ ret' = IF mine = sig.sig_id THEN 0 ELSE -1
         \/ pc' = "err" /\ ret' = -1
  BY DEF HashVerify
<1>2. Inputs'
  BY <1>1, InputsStay
<1>3. CASE pc' = "err"
  BY <1>2, <1>3, FailsExact
<1>4. CASE pc' = "compared"
  <2>1. /\ Committed = ComsOf(job, TAU) /\ job \in AllCalls /\ sig = SigGiven(job)
        /\ \A k \in Execs : alpha0[k] = Alpha0Of(job, k)
        /\ ~job.memopt => alpha1 = SigGiven(job).opening.alpha1
    BY <1>1 DEF Exact, HashReady, AlphasReady, Execs, SVInv, Bookkeeping, Inputs, Parsed
  <2>2. \A k \in Execs : a1[k] = SigGiven(job).opening.alpha1[k]
    BY <2>1
  <2>3. ret' = IF mine = sig.sig_id THEN 0 ELSE -1
    BY <1>1, <1>4
  <2>4. job.role # "sign"
    BY <1>1 DEF Signing
  <2>5. mine = SigId(ComsOf(job, TAU), alpha0, a1, MessageOf(job.tampered))
    BY <2>1
  <2> HIDE DEF a1, mine
  <2>6. mine = SigGiven(job).sig_id <=> job.tampered = "nothing"
    BY <2>1, <2>2, <2>4, <2>5, VerdictOf
  <2>7. Finished'
    <3>1. ~Signing'
      BY <1>1, CallUnchanged
    <3>2. ret' = 0 <=> job'.tampered = "nothing"
      BY <1>1, <2>1, <2>3, <2>6
    <3> QED
      BY <1>4, <3>1, <3>2 DEF Finished
  <2> QED
    BY <1>2, <1>4, <2>7 DEF Exact, Arrays, Untouched, WindowReady, AllReady, Parsed, HashReady, OpenReady,
         SignatureExact, VerdictExact
<1> HIDE DEF mine, a1
<1> QED
  BY <1>1, <1>3, <1>4

\* The challenge is that of the sig_id.
LEMMA SampleExact == ASSUME SVInv, Exact, Sample PROVE Exact'
<1>1. /\ pc = "challenge" /\ job' = job /\ i_star' = Challenge(sig.sig_id) /\ alpha1' = alpha1 /\ ws' = ws
      /\ sig' = sig /\ pc' \in {"open", "err"}
  BY DEF Sample, Reaches
<1>2. /\ Signing /\ sig.sig_id = SignatureOf(Key).sig_id
      /\ \A k \in Execs : Alpha1[k] = Alpha1Of(job, k)
  BY <1>1 DEF Exact, OpenReady
<1>3. Inputs'
  BY <1>1, <1>2, InputsStay
<1>4. CASE pc' = "err"
  BY <1>3, <1>4, FailsExact
<1>5. CASE pc' = "open"
  <2>1. Signing' /\ SignatureOf(Key)' = SignatureOf(Key) /\ Alpha1' = Alpha1
    BY <1>1, <1>2, CallUnchanged, AlphasStay
  <2>2. OpenReady'
    BY <1>1, <1>2, <1>5, <2>1 DEF OpenReady
  <2> QED
    BY <1>3, <1>5, <2>2 DEF Exact, Arrays, Untouched, WindowReady, AllReady, Parsed, HashReady, Finished,
         SignatureExact, VerdictExact
<1> QED
  BY <1>1, <1>4, <1>5

\* What is opened makes the signature whole.
LEMMA OpenExact == ASSUME SVInv, Exact, Open PROVE Exact'
<1> DEFINE mine == [holds |-> "opening", at |-> i_star, alpha1 |-> Slice(Alpha1, 0, TAU)]
<1>1. /\ pc = "open" /\ job' = job /\ i_star' = i_star
      /\ sig' = [sig EXCEPT !.opening = mine]
      /\ (pc' = "opened" /\ ret' = 0) \/ pc' = "err"
  BY DEF Open, Reaches
<1>2. /\ Signing /\ sig.sig_id = SignatureOf(Key).sig_id /\ i_star = Challenge(sig.sig_id)
      /\ \A k \in Execs : Alpha1[k] = Alpha1Of(job, k)
      /\ job \in AllCalls
  BY <1>1 DEF Exact, OpenReady, SVInv, Bookkeeping
<1>3. /\ sig = [sig_id |-> sig.sig_id, salt |-> sig.salt, opening |-> sig.opening]
      /\ sig.salt = 1
  BY <1>1, <1>2 DEF Exact, Inputs
<1>4. sig' = [sig_id |-> sig.sig_id, salt |-> 1, opening |-> mine]
  <2> HIDE DEF mine
  <2> QED
    BY <1>1, <1>3
<1>5. Inputs'
  <2>1. sig' = [sig_id |-> sig'.sig_id, salt |-> sig.salt, opening |-> sig'.opening]
    <3> HIDE DEF mine
    <3> QED
      BY <1>3, <1>4
  <2> QED
    BY <1>1, <1>2, <2>1, InputsStay
<1>6. CASE pc' = "err"
  BY <1>5, <1>6, FailsExact
<1>7. CASE pc' = "opened"
  <2>1. IsKey(Key)
    BY <1>2, KeyOfCall DEF Key
  <2>2. /\ SignatureOf(Key) = [sig_id |-> IdOf(Key), salt |-> 1,
                               opening |-> [holds |-> "opening", at |-> Challenge(IdOf(Key)),
                                            alpha1 |-> [k \in Execs |-> LineOfKey(Key, k).alpha1]]]
    BY <2>1, SignatureParts
  <2>3. sig.sig_id = IdOf(Key)
    BY <1>2, <2>2
  <2>4. Slice(Alpha1, 0, TAU) = [k \in Execs |-> LineOfKey(Key, k).alpha1]
    <3>1. \A k \in Execs : Alpha1[0 + k] = LineOfKey(Key, k).alpha1
      <4>1. ASSUME NEW k \in Execs PROVE 0 + k = k
        BY PIOPAssumption DEF Execs
      <4> QED
        BY <1>2, <4>1 DEF Alpha1Of, Key
    <3>2. 0 .. TAU - 1 = Execs
      BY DEF Execs
    <3> QED
      BY <3>1, <3>2 DEF Slice
  <2>5. sig' = SignatureOf(Key)
    BY <1>2, <1>4, <2>2, <2>3, <2>4
  <2>6. Finished'
    <3>1. Signing' /\ SignatureOf(Key)' = SignatureOf(Key)
      BY <1>1, <1>2, CallUnchanged
    <3>2. ret' = 0
      BY <1>1, <1>7
    <3> QED
      BY <1>7, <2>5, <3>1, <3>2 DEF Finished
  <2> QED
    BY <1>5, <1>7, <2>6 DEF Exact, Arrays, Untouched, WindowReady, AllReady, Parsed, HashReady, OpenReady,
         SignatureExact, VerdictExact
<1> HIDE DEF mine
<1> QED
  BY <1>1, <1>6, <1>7

\* The end.
LEMMA ExitsExact == ASSUME SVInv, Exact, ExitSign \/ ExitVerify PROVE Exact'
<1>1. CASE ExitSign
  <2>1. /\ pc \in {"opened", "err"} /\ Signing /\ sig' = IF ret # 0 THEN ZeroSig ELSE sig
        /\ pc' = "done" /\ job' = job /\ ret' = ret
    BY <1>1 DEF ExitSign
  <2>2. Signing' /\ SignatureOf(Key)' = SignatureOf(Key)
    BY <2>1, CallUnchanged
  <2>3. sig' = IF ret = 0 THEN SignatureOf(Key) ELSE ZeroSig
    BY <2>1 DEF Exact, Finished, SVInv, FailureReported
  <2>4. sig' = [sig_id |-> sig'.sig_id, salt |-> sig'.salt, opening |-> sig'.opening]
    <3>1. sig = [sig_id |-> sig.sig_id, salt |-> sig.salt, opening |-> sig.opening]
      BY <2>1 DEF Exact, Inputs
    <3>2. ZeroSig = [sig_id |-> ZeroSig.sig_id, salt |-> ZeroSig.salt, opening |-> ZeroSig.opening]
      BY DEF ZeroSig
    <3> QED
      BY <2>1, <3>1, <3>2
  <2> QED
    BY <2>1, <2>2, <2>3, <2>4 DEF Exact, Inputs, Arrays, Untouched, WindowReady, AllReady, Parsed, HashReady,
         OpenReady, Finished, SignatureExact, VerdictExact
<1>2. CASE ExitVerify
  <2>1. /\ pc \in {"compared", "err"} /\ ~Signing /\ sig' = sig /\ i_star' = i_star
        /\ pc' = IF pc = "err" THEN "failed" ELSE "done"
        /\ job' = job /\ ret' = ret
    BY <1>2 DEF ExitVerify
  <2>2. ~Signing' /\ SigGiven(job)' = SigGiven(job) /\ PointsOf(job)' = PointsOf(job)
    BY <2>1, CallUnchanged
  <2>3. Inputs'
    BY <2>1, <2>2 DEF Exact, Inputs
  <2>4. pc = "err" => ret' # 0
    BY <2>1 DEF SVInv, FailureReported
  <2>5. CASE pc = "err"
    BY <2>1, <2>3, <2>4, <2>5, FailsExact
  <2>6. CASE pc = "compared"
    <3>1. ret' = 0 <=> job'.tampered = "nothing"
      BY <2>1, <2>6 DEF Exact, Finished
    <3> QED
      BY <2>1, <2>2, <2>3, <2>6, <3>1 DEF Exact, Arrays, Untouched, WindowReady, AllReady, Parsed, HashReady,
           OpenReady, Finished, SignatureExact, VerdictExact
  <2> QED
    BY <2>1, <2>5, <2>6
<1> QED
  BY <1>1, <1>2

\* Nothing happens.
LEMMA StutterExact == Exact /\ UNCHANGED sv_vars => Exact'
<1> SUFFICES ASSUME Exact, UNCHANGED sv_vars PROVE Exact'
  OBVIOUS
<1>1. /\ job' = job /\ pc' = pc /\ ret' = ret /\ e' = e /\ p' = p /\ com1' = com1 /\ ws' = ws
      /\ alpha0' = alpha0 /\ alpha1' = alpha1 /\ absorbed' = absorbed /\ i_star' = i_star /\ sig' = sig
  BY DEF sv_vars
<1>2. /\ Signing' = Signing /\ Key' = Key /\ ALPHA_ALIASED' = ALPHA_ALIASED
      /\ SignatureOf(Key)' = SignatureOf(Key)
      /\ SigGiven(job)' = SigGiven(job) /\ PointsOf(job)' = PointsOf(job)
  BY <1>1, CallUnchanged
<1>3. /\ WindowStart' = WindowStart /\ InWindow' = InWindow /\ COM1_BATCH' = COM1_BATCH
      /\ Alpha0' = Alpha0 /\ Alpha1' = Alpha1 /\ Committed' = Committed
  BY <1>1, <1>2 DEF WindowStart, InWindow, Blc_batch, COM1_BATCH, Alpha0, Alpha1, Committed
<1>4. FilledSlots' = FilledSlots
  BY <1>1, <1>3 DEF FilledSlots
<1>5. Inputs' /\ Arrays' /\ Untouched'
  BY <1>1, <1>2 DEF Exact, Inputs, Arrays, Untouched
<1>7. WindowReady'
  <2>1. Bounds' = Bounds
    BY <1>1, <1>2, <1>3 DEF Bounds
  <2>2. LinesReady' = LinesReady
    BY <1>1, <1>2, <1>3, <1>4 DEF LinesReady
  <2>3. ComsReady' = ComsReady
    BY <1>1, <1>3, <1>4 DEF ComsReady
  <2>4. AlphasReady(WindowStart + p)' = AlphasReady(WindowStart + p)
    BY <1>1, <1>2, <1>3 DEF AlphasReady
  <2> QED
    BY <1>1, <2>1, <2>2, <2>3, <2>4 DEF Exact, WindowReady
<1>8. AllReady' /\ Parsed' /\ OpenReady' /\ Finished'
  BY <1>1, <1>2, <1>3 DEF Exact, AllReady, Parsed, OpenReady, Finished
<1>9. HashReady'
  <2>1. AlphasReady(TAU)' = AlphasReady(TAU)
    BY <1>1, <1>2, <1>3 DEF AlphasReady
  <2> QED
    BY <1>1, <1>3, <2>1 DEF Exact, HashReady
<1>10. SignatureExact' /\ VerdictExact'
  BY <1>1, <1>2 DEF Exact, SignatureExact, VerdictExact
<1> QED
  BY <1>5, <1>7, <1>8, <1>9, <1>10 DEF Exact

\* An array with a part replaced.
LEMMA OverwriteExact ==
  ASSUME NEW array, NEW at \in Int, NEW n \in Nat, NEW part, DOMAIN part = 0 .. n - 1,
         DOMAIN array \subseteq Int
  PROVE  /\ DOMAIN Overwrite(array, at, part) = DOMAIN array
         /\ \A k \in 0 .. n - 1 : at + k \in DOMAIN array => Overwrite(array, at, part)[at + k] = part[k]
         /\ \A s \in DOMAIN array : s < at \/ s >= at + n => Overwrite(array, at, part)[s] = array[s]
<1>1. Overwrite(array, at, part)
        = [s \in DOMAIN array |-> IF s - at \in 0 .. n - 1 THEN part[s - at] ELSE array[s]]
  BY DEF Overwrite
<1>2. ASSUME NEW k \in 0 .. n - 1, at + k \in DOMAIN array
      PROVE  Overwrite(array, at, part)[at + k] = part[k]
  <2>1. (at + k) - at = k
    OBVIOUS
  <2> QED
    BY <1>1, <1>2, <2>1
<1>3. ASSUME NEW s \in DOMAIN array, s < at \/ s >= at + n
      PROVE  Overwrite(array, at, part)[s] = array[s]
  <2>1. s \in Int /\ s - at \notin 0 .. n - 1
    BY <1>3
  <2> QED
    BY <1>1, <2>1
<1> QED
  BY <1>1, <1>2, <1>3

\* All of it replaced.
LEMMA OverwriteAll ==
  ASSUME NEW n \in Nat, NEW array, DOMAIN array = 0 .. n - 1, NEW part, DOMAIN part = 0 .. n - 1
  PROVE  /\ DOMAIN Overwrite(array, 0, part) = 0 .. n - 1
         /\ \A k \in 0 .. n - 1 : Overwrite(array, 0, part)[k] = part[k]
<1>1. Overwrite(array, 0, part) = [s \in 0 .. n - 1 |-> IF s - 0 \in 0 .. n - 1 THEN part[s - 0] ELSE array[s]]
  BY DEF Overwrite
<1>2. ASSUME NEW s \in 0 .. n - 1 PROVE s - 0 = s
  OBVIOUS
<1> QED
  BY <1>1, <1>2

\* The line commitment gives a call its executions.
LEMMA LinesExact ==
  ASSUME SVInv, Exact, pc = "window", NEW first \in Nat, NEW n \in Nat
  PROVE  /\ DOMAIN Coms(first, n) = 0 .. n - 1
         /\ DOMAIN Lines(first, n).x = 0 .. n - 1 /\ DOMAIN Lines(first, n).u = 0 .. n - 1
         /\ Signing => DOMAIN Lines(first, n).v = 0 .. n - 1
         /\ ~Signing => DOMAIN Lines(first, n).v = {}
         /\ \A k \in 0 .. n - 1 :
              /\ Coms(first, n)[k] = ComOf(job, first + k)
              /\ Lines(first, n).x[k] = XOf(job, first + k)
              /\ Lines(first, n).u[k] = UOf(job, first + k)
              /\ Signing => Lines(first, n).v[k] = VOf(job, first + k)
<1> DEFINE line == Lines(first, n)
<1>1. CASE Signing
  <2>1. line = [x |-> Slice(Key.x0, first, n), u |-> Slice(Key.u0, first, n), v |-> Slice(Key.u1, first, n)]
    BY <1>1 DEF Lines
  <2>2. job.role = "sign"
    BY <1>1 DEF Signing
  <2> QED
    BY <1>1, <2>1, <2>2 DEF Slice, Coms, ComOf, XOf, UOf, VOf, Key
<1>2. CASE ~Signing
  <2>1. line = [x |-> [k \in 0 .. n - 1 |-> EvalX(first + k)], u |-> [k \in 0 .. n - 1 |-> EvalU(first + k)],
                v |-> [k \in {} |-> 0]]
    BY <1>2 DEF Lines
  <2>2. sig = SigGiven(job) /\ i_star = PointsOf(job) /\ job.role # "sign"
    BY <1>2 DEF Signing, Exact, Inputs
  <2>3. \A k : EvalCom(k) = ComOf(job, k) /\ EvalX(k) = XOf(job, k) /\ EvalU(k) = UOf(job, k)
    BY <2>2 DEF EvalCom, EvalX, EvalU, Opened, ComOf, XOf, UOf, OpensAt, Key, K
  <2> QED
    BY <1>2, <2>1, <2>3 DEF Coms
<1> QED
  BY <1>1, <1>2

\* All executions at once.
LEMMA LinesOfAllExact == ASSUME SVInv, Exact, LinesOfAll PROVE Exact'
<1> DEFINE line == Lines(0, TAU)
<1>1. /\ pc = "window" /\ ~job.memopt /\ job' = job /\ i_star' = i_star /\ e' = e /\ p' = p
      /\ alpha0' = alpha0
      /\ alpha1' = (IF Signing THEN alpha1 ELSE sig.opening.alpha1)
      /\ sig' = (IF Signing /\ job.x0_in_sig THEN [sig EXCEPT !.opening.holds = "x0"] ELSE sig)
      /\ pc' \in {"piop", "err"}
      /\ com1' = Overwrite(com1, 0, Coms(0, TAU))
      /\ ws' = [x |-> Overwrite(ws.x, 0, line.x), u |-> Overwrite(ws.u, 0, line.u),
                v |-> Overwrite(ws.v, 0, line.v)]
  BY DEF LinesOfAll, Reaches, Writes
<1>2. /\ Inputs /\ TAU \in Nat /\ Execs = 0 .. TAU - 1 /\ job \in AllCalls
      /\ DOMAIN com1 = Execs /\ DOMAIN ws.x = Execs /\ DOMAIN ws.u = Execs /\ DOMAIN ws.v = Execs
      /\ DOMAIN alpha0 = Execs /\ DOMAIN alpha1 = Execs
  BY <1>1, PIOPAssumption DEF Exact, Arrays, Slots, ComSlots, Execs, SVInv, Bookkeeping
<1>3. Inputs'
  <2>1. Signing /\ sig' # sig => sig' = [sig_id |-> sig'.sig_id, salt |-> sig.salt, opening |-> sig'.opening]
    <3> SUFFICES ASSUME Signing, sig' # sig
                 PROVE  sig' = [sig_id |-> sig'.sig_id, salt |-> sig.salt, opening |-> sig'.opening]
      OBVIOUS
    <3>1. sig = [sig_id |-> sig.sig_id, salt |-> sig.salt, opening |-> sig.opening]
      BY <1>2 DEF Inputs
    <3>2. sig' = [sig EXCEPT !.opening = [@ EXCEPT !.holds = "x0"]]
      BY <1>1
    <3> QED
      BY <3>1, <3>2
  <2>2. ~Signing => sig' = sig
    BY <1>1
  <2> QED
    BY <1>1, <2>1, <2>2, InputsStay
<1>4. CASE pc' = "err"
  BY <1>3, <1>4, FailsExact
<1>5. CASE pc' = "piop"
  <2>1. /\ DOMAIN Coms(0, TAU) = 0 .. TAU - 1
        /\ DOMAIN line.x = 0 .. TAU - 1 /\ DOMAIN line.u = 0 .. TAU - 1
    BY <1>1, <1>2, LinesExact
  <2>2. Signing => DOMAIN line.v = 0 .. TAU - 1
    BY <1>1, <1>2, LinesExact
  <2>3. \A k \in 0 .. TAU - 1 : /\ Coms(0, TAU)[k] = ComOf(job, k)
                                /\ line.x[k] = XOf(job, k) /\ line.u[k] = UOf(job, k)
                                /\ Signing => line.v[k] = VOf(job, k)
    <3> DEFINE z == 0
    <3>1. z \in Nat /\ \A k \in 0 .. TAU - 1 : z + k = k
      BY <1>2
    <3> HIDE DEF z
    <3>2. \A k \in 0 .. TAU - 1 : /\ Coms(z, TAU)[k] = ComOf(job, z + k)
                                  /\ Lines(z, TAU).x[k] = XOf(job, z + k)
                                  /\ Lines(z, TAU).u[k] = UOf(job, z + k)
                                  /\ Signing => Lines(z, TAU).v[k] = VOf(job, z + k)
      BY <1>1, <1>2, <3>1, LinesExact
    <3> QED
      BY <3>1, <3>2 DEF z
  <2> HIDE DEF line
  <2>4. DOMAIN com1' = Execs /\ \A k \in Execs : com1'[k] = ComOf(job, k)
    BY <1>1, <1>2, <2>1, <2>2, <2>3, OverwriteAll
  <2>5. DOMAIN ws'.x = Execs /\ \A k \in Execs : ws'.x[k] = XOf(job, k)
    <3>1. ws'.x = Overwrite(ws.x, 0, line.x)
      BY <1>1
    <3> QED
      BY <1>2, <2>1, <2>2, <2>3, <3>1, OverwriteAll
  <2>6. DOMAIN ws'.u = Execs /\ \A k \in Execs : ws'.u[k] = UOf(job, k)
    <3>1. ws'.u = Overwrite(ws.u, 0, line.u)
      BY <1>1
    <3> QED
      BY <1>2, <2>1, <2>2, <2>3, <3>1, OverwriteAll
  <2>7. DOMAIN ws'.v = Execs /\ (Signing => \A k \in Execs : ws'.v[k] = VOf(job, k))
    <3>1. ws'.v = Overwrite(ws.v, 0, line.v)
      BY <1>1
    <3>2. DOMAIN ws'.v = Execs
      BY <1>2, <3>1 DEF Overwrite
    <3>3. CASE Signing
      BY <1>2, <2>1, <2>2, <2>3, <3>1, <3>3, OverwriteAll
    <3> QED
      BY <3>2, <3>3
  <2>8. /\ Signing' = Signing /\ Slots(job)' = Execs /\ ComSlots(job)' = Execs
        /\ SigGiven(job)' = SigGiven(job)
    BY <1>1, <1>2, CallUnchanged DEF Slots, ComSlots
  <2>9. ~Signing => alpha1' = SigGiven(job).opening.alpha1 /\ DOMAIN alpha1' = Execs
    <3>1. ASSUME ~Signing PROVE alpha1' = SigGiven(job).opening.alpha1
      BY <1>1, <1>2, <3>1 DEF Inputs
    <3>2. DOMAIN SigGiven(job).opening.alpha1 = Execs
      BY <1>2, GivenParts
    <3> QED
      BY <3>1, <3>2
  <2>10. ws' = [x |-> ws'.x, u |-> ws'.u, v |-> ws'.v]
    BY <1>1
  <2>11. Arrays'
    <3>1. DOMAIN alpha1' = Execs /\ DOMAIN alpha0' = Execs
      BY <1>1, <1>2, <2>9
    <3> QED
      BY <2>4, <2>5, <2>6, <2>7, <2>8, <2>10, <3>1 DEF Arrays
  <2>12. AllReady'
    <3>1. \A k \in Execs : (com1[k] = ComOf(job, k) /\ ws.x[k] = XOf(job, k) /\ ws.u[k] = UOf(job, k))'
      BY <1>1, <2>4, <2>5, <2>6
    <3>2. Signing' => \A k \in Execs : (ws.v[k] = VOf(job, k))'
      BY <1>1, <2>7, <2>8
    <3> QED
      BY <3>1, <3>2 DEF AllReady
  <2>13. Parsed'
    BY <2>8, <2>9 DEF Parsed
  <2>14. ~job'.memopt
    BY <1>1
  <2> QED
    BY <1>3, <1>5, <2>11, <2>12, <2>13, <2>14 DEF Exact, Untouched, WindowReady, HashReady, OpenReady, Finished,
         SignatureExact, VerdictExact
<1> QED
  BY <1>1, <1>4, <1>5

\* A line of P_x is a vector, at any point.
LEMMA XTyped ==
  ASSUME NEW j \in AllCalls, NEW k \in Execs
  PROVE  XOf(j, k) \in Vectors(N)
<1>1. /\ Keys[j.key].x0[k] \in Vectors(N) /\ Keys[j.key].K.x \in Vectors(N) /\ N \in Nat
  BY KeyOfCall, PIOPAssumption DEF IsKey, Vectors
<1>2. get_evaluation_point(PointsOf(j)[k]) \in Field
  BY PointsTyped
<1>3. At(Keys[j.key].x0[k], Keys[j.key].K.x, get_evaluation_point(PointsOf(j)[k])) \in Vectors(N)
  BY <1>1, <1>2, AtTyped
<1> QED
  BY <1>1, <1>3 DEF XOf

\* Every build that holds all executions computes alpha0 and alpha1 of each.
LEMMA BuildsSign ==
  ASSUME job \in AllCalls, ~job.memopt, NEW x0, NEW u0, NEW u1, \A k \in Execs : x0[k] \in Vectors(N)
  PROVE  ComputePAlpha(x0, u0, u1) = AlphasOf(K, TAU, com1, x0, u0, u1)
<1> DEFINE key == Keys[job.key]
<1>1. IsKey(key) /\ job.piop \in PIOPBuilds /\ K = key.K
  BY KeyOfCall DEF AllCalls, K, Key
<1> HIDE DEF key
<1>2. CASE job.piop.kind = "default"
  <2>1. job.piop.gamma_batch \in Nat \ {0} /\ job.piop.cached \in BOOLEAN
    BY <1>1, <1>2 DEF PIOPBuilds
  <2>2. ComputePAlpha(x0, u0, u1)
          = ComputePAlpha_default(K, com1, x0, u0, u1, job.piop.gamma_batch, job.piop.cached)
    BY <1>2 DEF ComputePAlpha
  <2> QED
    BY <2>1, <2>2, DefaultSigns
<1>3. CASE job.piop.kind = "memopt"
  <2>1. job.piop.nb \in Nat \ {0}
    BY <1>1, <1>3 DEF PIOPBuilds
  <2>2. ComputePAlpha(x0, u0, u1) = ComputePAlpha_memopt(key.K, com1, x0, u0, u1, job.piop.nb)
    BY <1>1, <1>3 DEF ComputePAlpha
  <2> QED
    BY <1>1, <2>1, <2>2, BatchesSign
<1>4. CASE job.piop.kind = "bitslice"
  <2>1. IsSliced(job.piop)
    BY <1>1, <1>4 DEF PIOPBuilds, IsSliced
  <2>2. ComputePAlpha(x0, u0, u1) = ComputePAlpha_bitslice(key.K, job.piop, com1, x0, u0, u1)
    BY <1>1, <1>4 DEF ComputePAlpha
  <2> QED
    BY <1>1, <2>1, <2>2, SlicedSigns
<1>5. job.piop.kind \in {"default", "memopt", "bitslice"}
  BY <1>1 DEF PIOPBuilds
<1> QED
  BY <1>2, <1>3, <1>4, <1>5

\* The same of a verifier.
LEMMA BuildsVerify ==
  ASSUME job \in AllCalls, ~job.memopt, NEW v_x, NEW u,
         \A k \in Execs : v_x[k] \in Vectors(N) /\ get_evaluation_point(i_star[k]) \in Field
  PROVE  RecomputePAlpha(v_x, u) = AlphasFrom(K, TAU, com1, alpha1, i_star, v_x, u)
<1> DEFINE key == Keys[job.key]
<1>1. IsKey(key) /\ job.piop \in PIOPBuilds /\ K = key.K
  BY KeyOfCall DEF AllCalls, K, Key
<1> HIDE DEF key
<1>2. CASE job.piop.kind = "default"
  <2>1. job.piop.gamma_batch \in Nat \ {0}
    BY <1>1, <1>2 DEF PIOPBuilds
  <2>2. RecomputePAlpha(v_x, u)
          = RecomputePAlpha_default(K, com1, alpha1, i_star, v_x, u, job.piop.gamma_batch)
    BY <1>2 DEF RecomputePAlpha
  <2> QED
    BY <2>1, <2>2, DefaultVerifies
<1>3. CASE job.piop.kind = "memopt"
  <2>1. job.piop.nb \in Nat \ {0}
    BY <1>1, <1>3 DEF PIOPBuilds
  <2>2. RecomputePAlpha(v_x, u) = RecomputePAlpha_memopt(K, com1, alpha1, i_star, v_x, u, job.piop.nb)
    BY <1>3 DEF RecomputePAlpha
  <2> QED
    BY <2>1, <2>2, BatchesVerify
<1>4. CASE job.piop.kind = "bitslice"
  <2>1. IsSliced(job.piop)
    BY <1>1, <1>4 DEF PIOPBuilds, IsSliced
  <2>2. RecomputePAlpha(v_x, u)
          = RecomputePAlpha_bitslice(key.K, job.piop, com1, alpha1, i_star, v_x, u)
    BY <1>1, <1>4 DEF RecomputePAlpha
  <2> QED
    BY <1>1, <2>1, <2>2, SlicedVerifies
<1>5. job.piop.kind \in {"default", "memopt", "bitslice"}
  BY <1>1 DEF PIOPBuilds
<1> QED
  BY <1>2, <1>3, <1>4, <1>5

\* alpha0 and alpha1 of all executions.
LEMMA SignPAlphaOfAllExact == ASSUME SVInv, Exact, SignPAlphaOfAll PROVE Exact'
<1>1. /\ pc = "piop" /\ ~job.memopt /\ Signing /\ job' = job /\ i_star' = i_star /\ com1' = com1 /\ ws' = ws
      /\ alpha0' = ComputePAlpha(ws.x, ws.u, ws.v).alpha0 /\ alpha1' = ComputePAlpha(ws.x, ws.u, ws.v).alpha1
      /\ sig' = IF pc' = "hash" THEN [sig EXCEPT !.opening.holds = "nothing"] ELSE sig
      /\ pc' \in {"hash", "err"}
  BY DEF SignPAlphaOfAll, Reaches
<1>2. /\ job \in AllCalls /\ Inputs /\ DOMAIN com1 = Execs /\ Execs = 0 .. TAU - 1 /\ TAU \in Nat
      /\ \A k \in Execs : /\ com1[k] = ComOf(job, k) /\ ws.x[k] = XOf(job, k)
                          /\ ws.u[k] = UOf(job, k) /\ ws.v[k] = VOf(job, k)
  BY <1>1, PIOPAssumption DEF SVInv, Bookkeeping, Exact, AllReady, Arrays, ComSlots, Execs
<1>3. job.role = "sign"
  BY <1>1 DEF Signing
<1>4. Inputs'
  <2>1. sig' # sig => sig' = [sig_id |-> sig'.sig_id, salt |-> sig.salt, opening |-> sig'.opening]
    <3> SUFFICES ASSUME sig' # sig
                 PROVE  sig' = [sig_id |-> sig'.sig_id, salt |-> sig.salt, opening |-> sig'.opening]
      OBVIOUS
    <3>1. sig = [sig_id |-> sig.sig_id, salt |-> sig.salt, opening |-> sig.opening]
      BY <1>1, <1>2 DEF Inputs
    <3>2. sig' = [sig EXCEPT !.opening = [@ EXCEPT !.holds = "nothing"]]
      BY <1>1
    <3> QED
      BY <3>1, <3>2
  <2> QED
    BY <1>1, <2>1, InputsStay
<1>5. CASE pc' = "err"
  BY <1>4, <1>5, FailsExact
<1>6. CASE pc' = "hash"
  <2>1. \A k \in Execs : ws.x[k] \in Vectors(N)
    BY <1>2, XTyped
  <2>2. ComputePAlpha(ws.x, ws.u, ws.v) = AlphasOf(K, TAU, com1, ws.x, ws.u, ws.v)
    BY <1>1, <1>2, <2>1, BuildsSign
  <2>3. ASSUME NEW k \in Execs
        PROVE  alpha0'[k] = Alpha0Of(job, k) /\ alpha1'[k] = Alpha1Of(job, k)
    <3>1. /\ com1[k] = k /\ ws.x[k] = Key.x0[k] /\ ws.u[k] = Key.u0[k] /\ ws.v[k] = Key.u1[k]
      BY <1>2, <1>3 DEF ComOf, XOf, UOf, VOf, Key
    <3>2. /\ alpha0'[k] = AlphaOf(K, com1[k], ws.x[k], ws.u[k], ws.v[k]).alpha0
          /\ alpha1'[k] = AlphaOf(K, com1[k], ws.x[k], ws.u[k], ws.v[k]).alpha1
      BY <1>1, <1>2, <2>2 DEF AlphasOf
    <3> QED
      BY <1>3, <3>1, <3>2 DEF Alpha0Of, Alpha1Of, LineOfKey, Key, K
  <2>4. Signing' /\ ~ALPHA_ALIASED'
    BY <1>1, CallUnchanged DEF ALPHA_ALIASED
  <2>5. HashReady'
    <3>1. AlphasReady(TAU)'
      <4>1. Alpha0' = alpha0' /\ Alpha1' = alpha1'
        BY <2>4 DEF Alpha0, Alpha1
      <4> QED
        BY <1>1, <1>2, <2>3, <2>4, <4>1 DEF AlphasReady
    <3>2. Committed' = ComsOf(job', TAU)
      <4>1. Committed' = AsSeq(com1)
        BY <1>1 DEF Committed
      <4>2. AsSeq(com1) = [i \in 1 .. TAU |-> com1[i - 1]]
        BY <1>2, AsSeqExact
      <4>3. \A i \in 1 .. TAU : i - 1 \in Execs
        BY <1>2
      <4> QED
        BY <1>1, <1>2, <4>1, <4>2, <4>3 DEF ComsOf
    <3> QED
      BY <3>1, <3>2 DEF HashReady
  <2> QED
    BY <1>4, <1>6, <2>4, <2>5 DEF Exact, Arrays, Untouched, WindowReady, AllReady, Parsed, OpenReady, Finished,
         SignatureExact, VerdictExact
<1> QED
  BY <1>1, <1>5, <1>6

\* alpha0 of all executions, out of their values at one point.
LEMMA VerifyPAlphaOfAllExact == ASSUME SVInv, Exact, VerifyPAlphaOfAll PROVE Exact'
<1>1. /\ pc = "piop" /\ ~job.memopt /\ ~Signing /\ job' = job /\ i_star' = i_star /\ com1' = com1 /\ ws' = ws
      /\ alpha0' = RecomputePAlpha(ws.x, ws.u) /\ alpha1' = alpha1 /\ sig' = sig
      /\ pc' \in {"hash", "err"}
  BY DEF VerifyPAlphaOfAll, Reaches
<1>2. /\ job \in AllCalls /\ Inputs /\ DOMAIN com1 = Execs /\ Execs = 0 .. TAU - 1 /\ TAU \in Nat
      /\ \A k \in Execs : com1[k] = ComOf(job, k) /\ ws.x[k] = XOf(job, k) /\ ws.u[k] = UOf(job, k)
      /\ alpha1 = SigGiven(job).opening.alpha1 /\ i_star = PointsOf(job)
  BY <1>1, PIOPAssumption DEF SVInv, Bookkeeping, Exact, AllReady, Arrays, ComSlots, Execs, Parsed, Inputs
<1>3. job.role # "sign"
  BY <1>1 DEF Signing
<1>4. Inputs'
  BY <1>1, InputsStay
<1>5. CASE pc' = "err"
  BY <1>4, <1>5, FailsExact
<1>6. CASE pc' = "hash"
  <2>1. \A k \in Execs : ws.x[k] \in Vectors(N) /\ get_evaluation_point(i_star[k]) \in Field
    BY <1>2, XTyped, PointsTyped
  <2>2. RecomputePAlpha(ws.x, ws.u) = AlphasFrom(K, TAU, com1, alpha1, i_star, ws.x, ws.u)
    BY <1>1, <1>2, <2>1, BuildsVerify
  <2>3. ASSUME NEW k \in Execs PROVE alpha0'[k] = Alpha0Of(job, k)
    <3>1. alpha0'[k] = AlphaFrom(K, com1[k], alpha1[k], get_evaluation_point(i_star[k]), ws.x[k], ws.u[k])
      BY <1>1, <1>2, <2>2 DEF AlphasFrom
    <3> QED
      BY <1>2, <1>3, <3>1 DEF Alpha0Of, Key, K
  <2>4. ~Signing' /\ SigGiven(job)' = SigGiven(job)
    BY <1>1, CallUnchanged
  <2>5. HashReady' /\ Parsed'
    <3>1. AlphasReady(TAU)'
      BY <1>1, <1>2, <2>3, <2>4 DEF AlphasReady
    <3>2. Committed' = ComsOf(job', TAU)
      <4>1. Committed' = AsSeq(com1)
        BY <1>1 DEF Committed
      <4>2. AsSeq(com1) = [i \in 1 .. TAU |-> com1[i - 1]]
        BY <1>2, AsSeqExact
      <4>3. \A i \in 1 .. TAU : i - 1 \in Execs
        BY <1>2
      <4> QED
        BY <1>1, <1>2, <4>1, <4>2, <4>3 DEF ComsOf
    <3> QED
      BY <1>1, <1>2, <2>4, <3>1, <3>2 DEF HashReady, Parsed
  <2> QED
    BY <1>4, <1>6, <2>4, <2>5 DEF Exact, Arrays, Untouched, WindowReady, AllReady, OpenReady, Finished,
         SignatureExact, VerdictExact
<1> QED
  BY <1>1, <1>5, <1>6

\* The remainder of a number is the only one.
LEMMA RemainderUnique ==
  ASSUME NEW d \in Nat \ {0}, NEW a, NEW q \in Nat, NEW r \in 0 .. d - 1, a = q * d + r
  PROVE  a % d = r
OBVIOUS

\* A number and its remainder, and the number after it.
LEMMA Remainders ==
  ASSUME NEW n \in Nat, NEW b \in Nat \ {0}
  PROVE  /\ n % b \in 0 .. b - 1 /\ n - (n % b) \in 0 .. n
         /\ n % b # b - 1 => (n + 1) - ((n + 1) % b) = n - (n % b)
         /\ n % b = b - 1 => (n + 1) - ((n + 1) % b) = n + 1
<1> DEFINE q == n \div b
           m == n % b
           bq == b * q
<1>1. q \in Nat /\ m \in 0 .. b - 1 /\ n = bq + m /\ bq \in Nat
  BY SMTT(30)
<1>2. ASSUME m # b - 1 PROVE (n + 1) % b = m + 1
  <2>1. m + 1 \in 0 .. b - 1 /\ n + 1 = q * b + (m + 1) /\ q \in Nat
    <3>1. b * q = q * b
      BY <1>1
    <3> QED
      BY <1>1, <1>2, <3>1
  <2> HIDE DEF q, m
  <2> QED
    BY <2>1, RemainderUnique
<1>3. ASSUME m = b - 1 PROVE (n + 1) % b = 0
  <2>1. n + 1 = b * (q + 1)
    <3>1. b * (q + 1) = b * q + b
      BY <1>1
    <3> QED
      BY <1>1, <1>3, <3>1
  <2>2. q + 1 \in Nat
    BY <1>1
  <2> DEFINE r == q + 1
  <2> HIDE DEF q, m, r
  <2>3. n + 1 = b * r /\ r \in Nat
    BY <2>1, <2>2 DEF r
  <2>4. n + 1 = r * b + 0 /\ 0 \in 0 .. b - 1
    BY <2>3
  <2> QED
    BY <2>3, <2>4, RemainderUnique
<1> HIDE DEF q, m, bq
<1> QED
  BY <1>1, <1>2, <1>3 DEF m

\* The window of a pass, or of a batch.
LEMMA WindowFacts ==
  ASSUME job \in AllCalls, job.memopt, e \in 0 .. TAU - 1
  PROVE  /\ e \in Nat /\ TAU \in Nat /\ e < TAU /\ BatchOf(job) \in Nat \ {0}
         /\ job.piop_batch \in Nat \ {0} /\ (job.ot => job.blc_batch \in Nat \ {0})
         /\ WindowStart \in 0 .. e /\ (job.ot => WindowStart = e)
         /\ InWindow \in Nat \ {0} /\ InWindow <= BatchOf(job) /\ WindowStart + InWindow <= TAU
         /\ ~job.ot => e - WindowStart \in 0 .. job.piop_batch - 1 /\ InWindow = (e - WindowStart) + 1
         /\ COM1_BATCH \in Nat /\ (job.stream => COM1_BATCH = 0) /\ (~job.stream => COM1_BATCH = WindowStart)
<1>1. /\ job.piop_batch \in Nat \ {0} /\ (job.ot => job.blc_batch \in Nat \ {0})
      /\ TAU \in Nat /\ e \in Nat /\ e < TAU /\ job.ot \in BOOLEAN
  BY PIOPAssumption DEF AllCalls
<1>2. CASE job.ot
  <2>1. WindowStart = e /\ BatchOf(job) = job.blc_batch /\ InWindow = Min2(TAU - e, job.blc_batch)
    BY <1>2 DEF WindowStart, BatchOf, InWindow, Blc_batch
  <2>2. InWindow \in Nat \ {0} /\ InWindow <= BatchOf(job) /\ e + InWindow <= TAU
    BY <1>1, <1>2, <2>1 DEF Min2
  <2> QED
    BY <1>1, <1>2, <2>1, <2>2 DEF COM1_BATCH
<1>3. CASE ~job.ot
  <2> DEFINE m == e % job.piop_batch
  <2>1. m \in 0 .. job.piop_batch - 1 /\ e - m \in 0 .. e
    BY <1>1, Remainders
  <2>2. WindowStart = e - m /\ BatchOf(job) = job.piop_batch /\ InWindow = (e - WindowStart) + 1
    BY <1>3 DEF WindowStart, BatchOf, InWindow
  <2> HIDE DEF m
  <2>3. e - WindowStart = m
    BY <1>1, <2>1, <2>2
  <2> QED
    BY <1>1, <1>3, <2>1, <2>2, <2>3 DEF COM1_BATCH
<1> QED
  BY <1>2, <1>3

\* Slots at .. at + n - 1 of a window that starts at an execution are written,
\* those before stay.
LEMMA WritesExact ==
  ASSUME SVInv, Exact, pc = "window", job.memopt, NEW at \in Nat, NEW n \in Nat, NEW start \in Nat,
         NEW com \in Nat, Writes(start + at, n, at, com + at),
         at + n <= BatchOf(job), com + at + n <= IF job.stream THEN BatchOf(job) ELSE TAU
  PROVE  /\ ws' = [x |-> ws'.x, u |-> ws'.u, v |-> ws'.v]
         /\ DOMAIN ws'.x = Slots(job) /\ DOMAIN ws'.u = Slots(job) /\ DOMAIN ws'.v = Slots(job)
         /\ DOMAIN com1' = ComSlots(job)
         /\ \A s \in at .. at + n - 1 : /\ com1'[com + s] = ComOf(job, start + s)
                                        /\ ws'.x[s] = XOf(job, start + s)
                                        /\ ws'.u[s] = UOf(job, start + s)
                                        /\ Signing => ws'.v[s] = VOf(job, start + s)
         /\ \A c \in 0 .. com + at - 1 : com1'[c] = com1[c]
         /\ \A s \in 0 .. at - 1 : /\ ws'.x[s] = ws.x[s] /\ ws'.u[s] = ws.u[s]
                                   /\ Signing => ws'.v[s] = ws.v[s]
<1> DEFINE first == start + at
           com_at == com + at
           line == Lines(first, n)
           coms == Coms(first, n)
<1>1. /\ com1' = Overwrite(com1, com_at, coms)
      /\ ws' = [x |-> Overwrite(ws.x, at, line.x), u |-> Overwrite(ws.u, at, line.u),
                v |-> Overwrite(ws.v, at, line.v)]
  BY DEF Writes
<1>2. /\ job \in AllCalls /\ TAU \in Nat /\ BatchOf(job) \in Nat
      /\ DOMAIN ws.x = Slots(job) /\ DOMAIN ws.u = Slots(job) /\ DOMAIN ws.v = Slots(job)
      /\ DOMAIN com1 = ComSlots(job)
  BY PIOPAssumption DEF SVInv, Bookkeeping, Exact, Arrays, AllCalls, BatchOf
<1>3. /\ Slots(job) = 0 .. BatchOf(job) - 1
      /\ ComSlots(job) = 0 .. (IF job.stream THEN BatchOf(job) ELSE TAU) - 1
      /\ first \in Nat /\ com_at \in Nat /\ first = start + at /\ com_at = com + at
  BY DEF Slots, ComSlots
<1>4. line = Lines(first, n) /\ coms = Coms(first, n)
  OBVIOUS
<1> HIDE DEF line, coms, first, com_at
<1>5. /\ DOMAIN coms = 0 .. n - 1 /\ DOMAIN line.x = 0 .. n - 1 /\ DOMAIN line.u = 0 .. n - 1
      /\ Signing => DOMAIN line.v = 0 .. n - 1
  BY <1>3, <1>4, LinesExact
<1>6. /\ DOMAIN com1' = ComSlots(job)
      /\ \A c \in ComSlots(job) : com1'[c] = IF c - com_at \in 0 .. n - 1 THEN coms[c - com_at] ELSE com1[c]
  BY <1>1, <1>2, <1>5 DEF Overwrite
<1>7. /\ ws' = [x |-> ws'.x, u |-> ws'.u, v |-> ws'.v]
      /\ ws'.x = Overwrite(ws.x, at, line.x) /\ ws'.u = Overwrite(ws.u, at, line.u)
      /\ ws'.v = Overwrite(ws.v, at, line.v)
  BY <1>1
<1>8. /\ DOMAIN ws'.x = Slots(job) /\ DOMAIN ws'.u = Slots(job) /\ DOMAIN ws'.v = Slots(job)
      /\ \A s \in Slots(job) :
           /\ ws'.x[s] = IF s - at \in 0 .. n - 1 THEN line.x[s - at] ELSE ws.x[s]
           /\ ws'.u[s] = IF s - at \in 0 .. n - 1 THEN line.u[s - at] ELSE ws.u[s]
           /\ Signing => ws'.v[s] = IF s - at \in 0 .. n - 1 THEN line.v[s - at] ELSE ws.v[s]
  BY <1>2, <1>5, <1>7 DEF Overwrite
<1>9. ASSUME NEW s \in at .. at + n - 1
      PROVE  /\ com1'[com + s] = ComOf(job, start + s)
             /\ ws'.x[s] = XOf(job, start + s) /\ ws'.u[s] = UOf(job, start + s)
             /\ Signing => ws'.v[s] = VOf(job, start + s)
  <2> DEFINE k == s - at
             c == com + s
  <2>1. /\ k \in 0 .. n - 1 /\ s \in Slots(job) /\ c \in ComSlots(job)
        /\ c - com_at = k /\ s - at = k /\ first + k = start + s
    BY <1>2, <1>3
  <2>2. c = com + s
    OBVIOUS
  <2> HIDE DEF k, c
  <2>3. /\ coms[k] = ComOf(job, first + k) /\ line.x[k] = XOf(job, first + k)
        /\ line.u[k] = UOf(job, first + k) /\ (Signing => line.v[k] = VOf(job, first + k))
    <3>1. \A i \in 0 .. n - 1 :
            /\ Coms(first, n)[i] = ComOf(job, first + i)
            /\ Lines(first, n).x[i] = XOf(job, first + i)
            /\ Lines(first, n).u[i] = UOf(job, first + i)
            /\ Signing => Lines(first, n).v[i] = VOf(job, first + i)
      BY <1>3, LinesExact
    <3> QED
      BY <1>4, <2>1, <3>1
  <2>4. com1'[c] = coms[k]
    BY <1>6, <2>1
  <2>5. ws'.x[s] = line.x[k] /\ ws'.u[s] = line.u[k] /\ (Signing => ws'.v[s] = line.v[k])
    BY <1>8, <2>1
  <2> QED
    BY <2>1, <2>2, <2>3, <2>4, <2>5
<1>10. ASSUME NEW c \in 0 .. com + at - 1 PROVE com1'[c] = com1[c]
  <2>1. c \in ComSlots(job) /\ c - com_at \notin 0 .. n - 1
    BY <1>2, <1>3
  <2> QED
    BY <1>6, <2>1
<1>11. ASSUME NEW s \in 0 .. at - 1
       PROVE  ws'.x[s] = ws.x[s] /\ ws'.u[s] = ws.u[s] /\ (Signing => ws'.v[s] = ws.v[s])
  <2>1. s \in Slots(job) /\ s - at \notin 0 .. n - 1
    BY <1>2, <1>3
  <2> QED
    BY <1>8, <2>1
<1> QED
  BY <1>6, <1>7, <1>8, <1>9, <1>10, <1>11

\* A window with new executions: what a call goes on with.
LEMMA FilledExact ==
  ASSUME SVInv, Exact, pc = "window", job.memopt, NEW n \in Nat \ {0},
         Writes(WindowStart + FilledSlots, n, FilledSlots, COM1_BATCH + FilledSlots),
         FilledSlots \in Nat, FilledSlots + n <= BatchOf(job), WindowStart + FilledSlots + n <= TAU,
         job' = job, p' = p, alpha0' = alpha0, alpha1' = alpha1, absorbed' = absorbed,
         WindowStart' = WindowStart, FilledSlots' = FilledSlots + n, Bounds',
         pc' \in {"window", "piop"}, Inputs'
  PROVE  Exact'
<1> DEFINE W == WindowStart
           F == FilledSlots
           C == COM1_BATCH
<1>1. /\ Bounds /\ LinesReady /\ ComsReady /\ AlphasReady(W + p) /\ p = 0
      /\ job \in AllCalls /\ e \in 0 .. TAU - 1
  BY DEF Exact, WindowReady, Bounds, SVInv, Bookkeeping
<1>2. /\ W \in Nat /\ C \in Nat /\ (job.stream => C = 0) /\ (~job.stream => C = W) /\ TAU \in Nat
      /\ BatchOf(job) \in Nat
  BY <1>1, WindowFacts
<1>3. C + F + n <= IF job.stream THEN BatchOf(job) ELSE TAU
  BY <1>2
<1>4. Signing' = Signing /\ ALPHA_ALIASED' = ALPHA_ALIASED /\ Slots(job)' = Slots(job) /\ ComSlots(job)' = ComSlots(job)
  BY CallUnchanged
<1>5. COM1_BATCH' = C /\ WindowStart' = W /\ FilledSlots' = F + n
  BY DEF COM1_BATCH
<1>6. /\ ws' = [x |-> ws'.x, u |-> ws'.u, v |-> ws'.v]
      /\ DOMAIN ws'.x = Slots(job) /\ DOMAIN ws'.u = Slots(job) /\ DOMAIN ws'.v = Slots(job)
      /\ DOMAIN com1' = ComSlots(job)
  BY <1>2, <1>3, WritesExact
<1>7. /\ \A s \in F .. F + n - 1 : /\ com1'[C + s] = ComOf(job, W + s)
                                   /\ ws'.x[s] = XOf(job, W + s)
                                   /\ ws'.u[s] = UOf(job, W + s)
                                   /\ Signing => ws'.v[s] = VOf(job, W + s)
      /\ \A c \in 0 .. C + F - 1 : com1'[c] = com1[c]
      /\ \A s \in 0 .. F - 1 : /\ ws'.x[s] = ws.x[s] /\ ws'.u[s] = ws.u[s]
                               /\ Signing => ws'.v[s] = ws.v[s]
  BY <1>2, <1>3, WritesExact
<1>8. Arrays'
  <2>1. DOMAIN alpha0 = Execs /\ DOMAIN alpha1 = Execs
    BY DEF Exact, Arrays
  <2> QED
    BY <1>4, <1>6, <2>1 DEF Arrays
<1>9. \A s \in 0 .. F - 1 :
        /\ ws.x[s] = XOf(job, W + s) /\ com1[C + s] = ComOf(job, W + s)
        /\ ws.u[s] = UOf(job, W + s) /\ (Signing => ws.v[s] = VOf(job, W + s))
  <2> SUFFICES ASSUME NEW s \in 0 .. F - 1
               PROVE  /\ ws.x[s] = XOf(job, W + s) /\ com1[C + s] = ComOf(job, W + s)
                      /\ ws.u[s] = UOf(job, W + s) /\ (Signing => ws.v[s] = VOf(job, W + s))
    OBVIOUS
  <2>1. ~(s < p)
    BY <1>1
  <2> QED
    BY <1>1, <2>1 DEF LinesReady
<1>10. ComsReady /\ AlphasReady(W + p) /\ p = 0
  BY <1>1
<1>11. \A k \in 0 .. W + F - 1 : ~job.stream => com1[k] = ComOf(job, k)
  BY <1>1 DEF ComsReady
<1>12. F \in Nat /\ n \in Nat
  OBVIOUS
<1>13. job.stream => absorbed = ComsOf(job, W)
  BY <1>1 DEF ComsReady
<1>14. Bounds
  BY <1>1
<1> HIDE DEF W, F, C
<1>15. \A s \in 0 .. F + n - 1 :
         /\ ws'.x[s] = XOf(job, W + s) /\ com1'[C + s] = ComOf(job, W + s)
         /\ ws'.u[s] = UOf(job, W + s) /\ (Signing => ws'.v[s] = VOf(job, W + s))
  <2> SUFFICES ASSUME NEW s \in 0 .. F + n - 1
               PROVE  /\ ws'.x[s] = XOf(job, W + s) /\ com1'[C + s] = ComOf(job, W + s)
                      /\ ws'.u[s] = UOf(job, W + s) /\ (Signing => ws'.v[s] = VOf(job, W + s))
    OBVIOUS
  <2>1. CASE s >= F
    <3>1. s \in F .. F + n - 1
      BY <1>12, <2>1
    <3> QED
      BY <1>7, <3>1
  <2>2. CASE s < F
    <3>1. s \in 0 .. F - 1 /\ C + s \in 0 .. C + F - 1
      BY <1>2, <1>12, <2>2
    <3> QED
      BY <1>7, <1>9, <3>1
  <2> QED
    BY <1>12, <2>1, <2>2
<1>16. LinesReady'
  <2> SUFFICES ASSUME NEW s \in 0 .. FilledSlots' - 1
               PROVE  /\ ws'.x[s] = XOf(job', WindowStart' + s)
                      /\ com1'[COM1_BATCH' + s] = ComOf(job', WindowStart' + s)
                      /\ ws'.u[s] = UOf(job', WindowStart' + s)
                      /\ Signing' => ws'.v[s] = VOf(job', WindowStart' + s)
    BY DEF LinesReady
  <2>1. s \in 0 .. (F + n) - 1
    BY <1>5
  <2>2. s \in 0 .. F + n - 1
    BY <1>12, <2>1
  <2> QED
    BY <1>4, <1>5, <1>15, <2>2
<1>17. ASSUME ~job.stream PROVE \A k \in 0 .. W + (F + n) - 1 : com1'[k] = ComOf(job, k)
  <2> SUFFICES ASSUME NEW k \in 0 .. W + (F + n) - 1 PROVE com1'[k] = ComOf(job, k)
    OBVIOUS
  <2>1. CASE k >= W + F
    <3> DEFINE s == k - W
    <3>1. s \in F .. F + n - 1 /\ W + s = k /\ C + s = k
      BY <1>2, <1>12, <1>17, <2>1
    <3> HIDE DEF s
    <3> QED
      BY <1>7, <3>1
  <2>2. CASE k < W + F
    <3>1. k \in 0 .. W + F - 1 /\ k \in 0 .. C + F - 1
      BY <1>2, <1>12, <1>17, <2>2
    <3> QED
      BY <1>7, <1>11, <1>17, <3>1
  <2> QED
    BY <1>2, <1>12, <2>1, <2>2
<1>18. ComsReady'
  BY <1>5, <1>13, <1>17 DEF ComsReady
<1>19. AlphasReady(WindowStart + p)'
  <2>1. WindowStart' + p' = W
    BY <1>2, <1>5, <1>10
  <2> SUFFICES ASSUME NEW k \in 0 .. W - 1
               PROVE  /\ Signing' => Alpha0'[k] = Alpha0Of(job', k) /\ Alpha1'[k] = Alpha1Of(job', k)
                      /\ ~Signing' => alpha0'[k] = Alpha0Of(job', k)
    BY <2>1 DEF AlphasReady
  <2>2. ~ALPHA_ALIASED
    <3> SUFFICES ASSUME ALPHA_ALIASED PROVE FALSE
      OBVIOUS
    <3>1. e = 0 /\ job.ot
      BY <1>14 DEF Bounds, ALPHA_ALIASED
    <3>2. W = 0
      BY <3>1 DEF W, WindowStart
    <3> QED
      BY <3>2
  <2>3. Alpha0' = Alpha0 /\ Alpha1' = Alpha1
    BY <1>4, <2>2 DEF Alpha0, Alpha1
  <2>4. k \in 0 .. (W + p) - 1
    BY <1>2, <1>10
  <2>5. /\ Signing => Alpha0[k] = Alpha0Of(job, k) /\ Alpha1[k] = Alpha1Of(job, k)
        /\ ~Signing => alpha0[k] = Alpha0Of(job, k)
    BY <1>10, <2>4 DEF AlphasReady
  <2> QED
    BY <1>4, <2>3, <2>5
<1>20. WindowReady'
  BY <1>16, <1>18, <1>19 DEF WindowReady
<1>21. job'.memopt
  OBVIOUS
<1> QED
  BY <1>8, <1>20, <1>21 DEF Exact, Untouched, AllReady, Parsed, HashReady, OpenReady, Finished,
     SignatureExact, VerdictExact

\* One pass of the large tree.
LEMMA LinesOfPassExact == ASSUME SVInv, Exact, LinesOfPass PROVE Exact'
<1>1. /\ pc = "window" /\ job.memopt /\ job.ot /\ job' = job /\ e' = e /\ p' = p /\ alpha0' = alpha0
      /\ alpha1' = alpha1 /\ absorbed' = absorbed /\ i_star' = i_star /\ sig' = sig
      /\ pc' \in {"piop", "err"} /\ Writes(e, Blc_batch, 0, COM1_BATCH)
  BY DEF LinesOfPass, Reaches
<1>2. Inputs'
  BY <1>1, InputsStay
<1>3. CASE pc' = "err"
  BY <1>2, <1>3, FailsExact
<1>4. CASE pc' = "piop"
  <2>1. job \in AllCalls /\ Bounds
    BY <1>1 DEF SVInv, Bookkeeping, Exact, WindowReady
  <2>2. /\ WindowStart = e /\ FilledSlots = 0 /\ InWindow = Blc_batch
        /\ e \in Nat /\ Blc_batch \in Nat \ {0} /\ Blc_batch <= BatchOf(job) /\ e + Blc_batch <= TAU
        /\ COM1_BATCH \in Nat /\ e \in 0 .. TAU - 1 /\ p = 0
    <3>1. FilledSlots = 0 /\ InWindow = Blc_batch /\ e \in 0 .. TAU - 1 /\ p = 0
      BY <1>1, <2>1 DEF FilledSlots, InWindow, Bounds
    <3> QED
      BY <1>1, <2>1, <3>1, WindowFacts
  <2>3. WindowStart' = e /\ FilledSlots' = Blc_batch /\ InWindow' = Blc_batch /\ ALPHA_ALIASED' = ALPHA_ALIASED
    BY <1>1, <1>4, CallUnchanged DEF WindowStart, FilledSlots, InWindow, Blc_batch
  <2>4. Bounds'
    BY <1>1, <1>4, <2>1, <2>2, <2>3 DEF Bounds
  <2> DEFINE n == Blc_batch
             W == WindowStart
             F == FilledSlots
             C == COM1_BATCH
  <2>5. n \in Nat \ {0} /\ F \in Nat /\ F + n <= BatchOf(job) /\ W + F + n <= TAU
        /\ WindowStart' = W /\ FilledSlots' = F + n
    <3>1. BatchOf(job) \in Nat /\ TAU \in Nat
      BY <1>1, <2>1, <2>2, WindowFacts
    <3> QED
      BY <2>2, <2>3, <3>1
  <2>6. Writes(W + F, n, F, C + F)
    <3>1. W + F = e /\ F = 0 /\ C + F = C
      BY <2>2
    <3> QED
      BY <1>1, <3>1
  <2> HIDE DEF n
  <2> QED
    BY <1>1, <1>2, <1>4, <2>4, <2>5, <2>6, FilledExact
<1> QED
  BY <1>1, <1>3, <1>4

\* One execution of the small trees.
LEMMA LinesOfExecutionExact == ASSUME SVInv, Exact, LinesOfExecution PROVE Exact'
<1> DEFINE last == e - WindowStart = job.piop_batch - 1 \/ e = TAU - 1
<1>1. /\ pc = "window" /\ job.memopt /\ ~job.ot /\ job' = job /\ p' = p /\ alpha0' = alpha0
      /\ alpha1' = alpha1 /\ absorbed' = absorbed /\ i_star' = i_star /\ sig' = sig
      /\ Writes(e, 1, e - WindowStart, COM1_BATCH + (e - WindowStart))
      /\ last => pc' \in {"piop", "err"} /\ e' = e
      /\ ~last => pc' \in {"window", "err"} /\ e' = e + 1
  BY DEF LinesOfExecution, Reaches
<1>2. Inputs'
  BY <1>1, InputsStay
<1>3. CASE pc' = "err"
  BY <1>2, <1>3, FailsExact
<1>4. CASE pc' # "err"
  <2>1. job \in AllCalls /\ Bounds
    BY <1>1 DEF SVInv, Bookkeeping, Exact, WindowReady
  <2>2. /\ e \in 0 .. TAU - 1 /\ p = 0 /\ FilledSlots = e - WindowStart
    BY <1>1, <2>1 DEF FilledSlots, Bounds
  <2>3. /\ e \in Nat /\ TAU \in Nat /\ e < TAU /\ BatchOf(job) \in Nat \ {0} /\ BatchOf(job) = job.piop_batch
        /\ job.piop_batch \in Nat \ {0} /\ WindowStart \in 0 .. e
        /\ e - WindowStart \in 0 .. job.piop_batch - 1 /\ COM1_BATCH \in Nat
    BY <1>1, <2>1, <2>2, WindowFacts DEF BatchOf
  <2>4. WindowStart = e - (e % job.piop_batch)
    BY <1>1 DEF WindowStart
  <2>5. e % job.piop_batch \in Nat /\ e % job.piop_batch = e - WindowStart
    <3>1. e % job.piop_batch \in 0 .. job.piop_batch - 1
      BY <2>3, Remainders
    <3>2. e % job.piop_batch \in Nat
      BY <2>3, <3>1
    <3> QED
      BY <2>3, <2>4, <3>2
  <2>6. ~ALPHA_ALIASED /\ ALPHA_ALIASED' = ALPHA_ALIASED
    BY <1>1, CallUnchanged DEF ALPHA_ALIASED
  <2>7. WindowStart' = WindowStart /\ FilledSlots' = FilledSlots + 1 /\ Bounds'
    <3>1. CASE last
      <4>1. pc' = "piop" /\ e' = e
        BY <1>1, <1>4, <3>1
      <4>2. WindowStart' = WindowStart
        BY <1>1, <4>1 DEF WindowStart
      <4>3. FilledSlots' = FilledSlots + 1 /\ InWindow' = (e - WindowStart) + 1
        BY <1>1, <2>2, <4>1, <4>2 DEF FilledSlots, InWindow
      <4>4. 0 < (e - WindowStart) + 1 /\ 0 \in Nat
        BY <2>3
      <4> QED
        BY <1>1, <2>2, <2>6, <3>1, <4>1, <4>2, <4>3, <4>4 DEF Bounds
    <3>2. CASE ~last
      <4>1. pc' = "window" /\ e' = e + 1 /\ e # TAU - 1 /\ e % job.piop_batch # job.piop_batch - 1
        BY <1>1, <1>4, <2>5, <3>2
      <4>2. WindowStart' = WindowStart
        <5>1. (e + 1) - ((e + 1) % job.piop_batch) = e - (e % job.piop_batch)
          BY <2>3, <4>1, Remainders
        <5> QED
          BY <1>1, <2>4, <4>1, <5>1 DEF WindowStart
      <4>3. FilledSlots' = (e + 1) - WindowStart
        BY <1>1, <4>1, <4>2 DEF FilledSlots
      <4>4. FilledSlots' = FilledSlots + 1 /\ e + 1 \in 0 .. TAU - 1
        BY <2>2, <2>3, <4>1, <4>3
      <4> QED
        BY <1>1, <2>2, <2>6, <4>1, <4>2, <4>4 DEF Bounds
    <3> QED
      BY <3>1, <3>2
  <2> DEFINE n == 1
             W == WindowStart
             F == FilledSlots
             C == COM1_BATCH
  <2>8. n \in Nat \ {0} /\ F \in Nat /\ F + n <= BatchOf(job) /\ W + F + n <= TAU
        /\ WindowStart' = W /\ FilledSlots' = F + n
    BY <2>2, <2>3, <2>7
  <2>9. Writes(W + F, n, F, C + F)
    <3>1. W + F = e /\ F = e - WindowStart
      BY <2>2, <2>3
    <3> QED
      BY <1>1, <3>1
  <2>10. pc' \in {"window", "piop"}
    BY <1>1, <1>4
  <2> HIDE DEF n, last
  <2> QED
    BY <1>1, <1>2, <2>7, <2>8, <2>9, <2>10, FilledExact
<1> QED
  BY <1>3, <1>4

\* What was absorbed, and the commitments of a window.
LEMMA AbsorbedExact ==
  ASSUME NEW j, NEW w \in Nat, NEW n \in Nat,
         NEW part, part = [i \in 1 .. n |-> ComOf(j, w + (i - 1))]
  PROVE  ComsOf(j, w) \o part = ComsOf(j, w + n)
<1>1. \A k \in Int : ComOf(j, k) \in Int
  BY DEF ComOf
<1>2. ComsOf(j, w) \in Seq(Int) /\ Len(ComsOf(j, w)) = w /\ \A i \in 1 .. w : ComsOf(j, w)[i] = ComOf(j, i - 1)
  BY <1>1 DEF ComsOf
<1>3. part \in Seq(Int) /\ Len(part) = n /\ \A i \in 1 .. n : part[i] = ComOf(j, w + (i - 1))
  BY <1>1
<1>4. /\ ComsOf(j, w + n) \in Seq(Int) /\ Len(ComsOf(j, w + n)) = w + n
      /\ \A i \in 1 .. w + n : ComsOf(j, w + n)[i] = ComOf(j, i - 1)
  BY <1>1 DEF ComsOf
<1> DEFINE taken == ComsOf(j, w)
           c == taken \o part
           all == ComsOf(j, w + n)
<1>5. /\ taken \in Seq(Int) /\ Len(taken) = w /\ \A i \in 1 .. w : taken[i] = ComOf(j, i - 1)
      /\ all \in Seq(Int) /\ Len(all) = w + n /\ \A i \in 1 .. w + n : all[i] = ComOf(j, i - 1)
      /\ c = taken \o part
  BY <1>2, <1>4
<1> HIDE DEF taken, c, all
<1>6. /\ taken \o part \in Seq(Int)
      /\ Len(taken \o part) = Len(taken) + Len(part)
      /\ \A i \in 1 .. Len(taken) + Len(part) :
           (taken \o part)[i] = IF i <= Len(taken) THEN taken[i] ELSE part[i - Len(taken)]
  BY <1>3, <1>5, ConcatProperties
<1>7. c \in Seq(Int) /\ Len(c) = w + n /\ \A i \in 1 .. w + n : c[i] = IF i <= w THEN taken[i] ELSE part[i - w]
  BY <1>3, <1>5, <1>6
<1>8. ASSUME NEW i \in 1 .. w + n PROVE c[i] = all[i]
  <2>1. CASE i <= w
    BY <1>5, <1>7, <2>1
  <2>2. CASE i > w
    <3>1. c[i] = part[i - w] /\ i - w \in 1 .. n
      BY <1>7, <2>2
    <3>2. w + ((i - w) - 1) = i - 1
      BY <2>2
    <3> QED
      BY <1>3, <1>5, <3>1, <3>2
  <2> QED
    BY <2>1, <2>2
<1>9. c = all
  BY <1>5, <1>7, <1>8, SeqEqual
<1> QED
  BY <1>9 DEF taken, c, all

\* A call in a window, and the next batch of it.
LEMMA BatchFacts ==
  ASSUME SVInv, Exact, pc = "piop", job.memopt
  PROVE  /\ job \in AllCalls /\ Bounds /\ LinesReady /\ ComsReady /\ AlphasReady(First)
         /\ e \in 0 .. TAU - 1 /\ FilledSlots = InWindow /\ InWindow \in Nat \ {0} /\ InWindow <= BatchOf(job)
         /\ WindowStart \in Nat /\ WindowStart + InWindow <= TAU /\ TAU \in Nat /\ BatchOf(job) \in Nat
         /\ p \in Nat /\ p < InWindow /\ Piop_batch \in Nat \ {0} /\ p + Piop_batch <= InWindow
         /\ First = WindowStart + p /\ First \in Nat /\ COM1_BATCH \in Nat
<1>1. /\ job \in AllCalls /\ Bounds /\ LinesReady /\ ComsReady /\ AlphasReady(First)
      /\ e \in 0 .. TAU - 1 /\ FilledSlots = InWindow /\ p \in Nat /\ p < InWindow
  BY DEF SVInv, Bookkeeping, Exact, WindowReady, Bounds, FilledSlots, First
<1>2. /\ InWindow \in Nat \ {0} /\ InWindow <= BatchOf(job) /\ WindowStart \in 0 .. e /\ e \in Nat
      /\ WindowStart + InWindow <= TAU /\ TAU \in Nat /\ BatchOf(job) \in Nat /\ job.piop_batch \in Nat \ {0}
      /\ COM1_BATCH \in Nat
  BY <1>1, WindowFacts
<1>3. Piop_batch \in Nat \ {0} /\ p + Piop_batch <= InWindow
  BY <1>1, <1>2 DEF Piop_batch, Min2
<1>4. First = WindowStart + p /\ WindowStart \in Nat
  BY <1>2 DEF First
<1> QED
  BY <1>1, <1>2, <1>3, <1>4

\* A step that computes alpha0, and a signer's alpha1, of the next batch; where
\* they are written over u0 and u1, those of the batches to come stay.
BatchDone ==
  /\ job' = job /\ com1' = com1 /\ i_star' = i_star /\ sig' = sig
  /\ ws' = [x |-> ws.x, u |-> ws'.u, v |-> ws'.v]
  /\ DOMAIN ws'.u = Slots(job) /\ DOMAIN ws'.v = Slots(job)
  /\ DOMAIN alpha0' = Execs /\ DOMAIN alpha1' = Execs
  /\ \A s \in Slots(job) : ~(Signing /\ ALPHA_ALIASED /\ s < p + Piop_batch) =>
       /\ ws'.u[s] = ws.u[s]
       /\ Signing => ws'.v[s] = ws.v[s]
  /\ \A k \in 0 .. (First + Piop_batch) - 1 :
       /\ Signing => Alpha0'[k] = Alpha0Of(job, k) /\ Alpha1'[k] = Alpha1Of(job, k)
       /\ ~Signing => alpha0'[k] = Alpha0Of(job, k)

\* The window has another batch.
LEMMA NextBatchExact ==
  ASSUME SVInv, Exact, pc = "piop", job.memopt, BatchDone, Inputs',
         pc' = "piop", p' = p + Piop_batch, e' = e, absorbed' = absorbed, p + Piop_batch < InWindow
  PROVE  Exact'
<1>1. /\ job \in AllCalls /\ Bounds /\ LinesReady /\ ComsReady
      /\ e \in 0 .. TAU - 1 /\ FilledSlots = InWindow /\ InWindow \in Nat \ {0} /\ InWindow <= BatchOf(job)
      /\ WindowStart \in Nat /\ p \in Nat /\ Piop_batch \in Nat /\ First = WindowStart + p
      /\ BatchOf(job) \in Nat
  BY BatchFacts
<1>2. /\ Signing' = Signing /\ ALPHA_ALIASED' = ALPHA_ALIASED /\ Slots(job)' = Slots(job)
      /\ ComSlots(job)' = ComSlots(job) /\ job' = job
  BY CallUnchanged DEF BatchDone
<1>3. WindowStart' = WindowStart /\ InWindow' = InWindow /\ COM1_BATCH' = COM1_BATCH
  BY <1>2 DEF WindowStart, InWindow, Blc_batch, COM1_BATCH
<1>4. FilledSlots' = InWindow /\ p' \in Nat
  BY <1>1, <1>3 DEF FilledSlots
<1>5. /\ ws' = [x |-> ws.x, u |-> ws'.u, v |-> ws'.v] /\ ws'.x = ws.x /\ com1' = com1
      /\ DOMAIN ws'.u = Slots(job) /\ DOMAIN ws'.v = Slots(job)
      /\ DOMAIN alpha0' = Execs /\ DOMAIN alpha1' = Execs
  BY DEF BatchDone
<1>6. Arrays'
  <2>1. DOMAIN ws.x = Slots(job) /\ DOMAIN com1 = ComSlots(job)
    BY DEF Exact, Arrays
  <2>2. ws' = [x |-> ws'.x, u |-> ws'.u, v |-> ws'.v]
    BY <1>5
  <2> QED
    BY <1>2, <1>5, <2>1, <2>2 DEF Arrays
<1>7. Bounds'
  <2>1. ~job.ot => e - WindowStart = job.piop_batch - 1 \/ e = TAU - 1
    BY <1>1 DEF Bounds
  <2>2. ALPHA_ALIASED => e = 0
    BY <1>1 DEF Bounds
  <2> QED
    BY <1>1, <1>2, <1>3, <1>4, <2>1, <2>2 DEF Bounds
<1>8. LinesReady'
  <2> SUFFICES ASSUME NEW s \in 0 .. FilledSlots' - 1
               PROVE  /\ ws'.x[s] = XOf(job', WindowStart' + s)
                      /\ com1'[COM1_BATCH' + s] = ComOf(job', WindowStart' + s)
                      /\ ~(Signing' /\ ALPHA_ALIASED' /\ s < p') =>
                           /\ ws'.u[s] = UOf(job', WindowStart' + s)
                           /\ Signing' => ws'.v[s] = VOf(job', WindowStart' + s)
    BY DEF LinesReady
  <2>1. s \in 0 .. FilledSlots - 1 /\ s \in Nat
    BY <1>1, <1>4
  <2>2. /\ ws.x[s] = XOf(job, WindowStart + s)
        /\ com1[COM1_BATCH + s] = ComOf(job, WindowStart + s)
        /\ ~(Signing /\ ALPHA_ALIASED /\ s < p) =>
             /\ ws.u[s] = UOf(job, WindowStart + s)
             /\ Signing => ws.v[s] = VOf(job, WindowStart + s)
    BY <1>1, <2>1 DEF LinesReady
  <2>3. s \in Slots(job)
    BY <1>1, <2>1 DEF Slots
  <2>4. ~(Signing /\ ALPHA_ALIASED /\ s < p + Piop_batch) =>
          /\ ws'.u[s] = ws.u[s]
          /\ Signing => ws'.v[s] = ws.v[s]
    BY <2>3 DEF BatchDone
  <2>5. s < p => s < p + Piop_batch
    BY <1>1, <2>1
  <2> QED
    BY <1>2, <1>3, <1>5, <2>2, <2>4, <2>5
<1>9. ComsReady'
  <2>1. FilledSlots' = FilledSlots
    BY <1>1, <1>4
  <2> QED
    BY <1>1, <1>2, <1>3, <1>5, <2>1 DEF ComsReady
<1>10. AlphasReady(WindowStart + p)'
  <2>1. WindowStart' + p' = First + Piop_batch
    BY <1>1, <1>3
  <2> SUFFICES ASSUME NEW k \in 0 .. (WindowStart' + p') - 1
               PROVE  /\ Signing' => Alpha0'[k] = Alpha0Of(job', k) /\ Alpha1'[k] = Alpha1Of(job', k)
                      /\ ~Signing' => alpha0'[k] = Alpha0Of(job', k)
    BY DEF AlphasReady
  <2>2. k \in 0 .. (First + Piop_batch) - 1
    BY <2>1
  <2> QED
    BY <1>2, <2>2 DEF BatchDone
<1>11. job'.memopt
  BY <1>2
<1> QED
  BY <1>6, <1>7, <1>8, <1>9, <1>10, <1>11 DEF Exact, Untouched, WindowReady, AllReady, Parsed, HashReady, OpenReady, Finished,
     SignatureExact, VerdictExact

\* The window is done: another one, or the hashes.
LEMMA EndOfWindowExact ==
  ASSUME SVInv, Exact, pc = "piop", job.memopt, BatchDone, Inputs',
         p' = 0, e' = WindowStart + InWindow, pc' = IF e' < TAU THEN "window" ELSE "hash",
         absorbed' = IF job.stream THEN absorbed \o AsSeq(Slice(com1, 0, InWindow)) ELSE absorbed,
         p + Piop_batch = InWindow
  PROVE  Exact'
<1>1. /\ job \in AllCalls /\ Bounds /\ LinesReady /\ ComsReady
      /\ e \in 0 .. TAU - 1 /\ FilledSlots = InWindow /\ InWindow \in Nat \ {0} /\ InWindow <= BatchOf(job)
      /\ WindowStart \in Nat /\ WindowStart + InWindow <= TAU /\ TAU \in Nat
      /\ p \in Nat /\ Piop_batch \in Nat /\ First = WindowStart + p /\ BatchOf(job) \in Nat
  BY BatchFacts
<1>2. /\ Signing' = Signing /\ ALPHA_ALIASED' = ALPHA_ALIASED /\ Slots(job)' = Slots(job)
      /\ ComSlots(job)' = ComSlots(job) /\ job' = job
  BY CallUnchanged DEF BatchDone
<1>3. /\ ws' = [x |-> ws.x, u |-> ws'.u, v |-> ws'.v] /\ ws'.x = ws.x /\ com1' = com1
      /\ DOMAIN ws'.u = Slots(job) /\ DOMAIN ws'.v = Slots(job)
      /\ DOMAIN alpha0' = Execs /\ DOMAIN alpha1' = Execs
      /\ DOMAIN ws.x = Slots(job) /\ DOMAIN com1 = ComSlots(job)
  BY DEF BatchDone, Exact, Arrays
<1>4. First + Piop_batch = e' /\ e' \in Nat \ {0} /\ e' <= TAU
  BY <1>1
<1>5. AlphasReady(e)'
  <2> SUFFICES ASSUME NEW k \in 0 .. e' - 1
               PROVE  /\ Signing' => Alpha0'[k] = Alpha0Of(job', k) /\ Alpha1'[k] = Alpha1Of(job', k)
                      /\ ~Signing' => alpha0'[k] = Alpha0Of(job', k)
    BY DEF AlphasReady
  <2>1. k \in 0 .. (First + Piop_batch) - 1
    BY <1>4
  <2> QED
    BY <1>2, <2>1 DEF BatchDone
<1>6. ASSUME job.stream PROVE absorbed' = ComsOf(job, e')
  <2> DEFINE part == Slice(com1, 0, InWindow)
             w == WindowStart
             n == InWindow
  <2>1. absorbed = ComsOf(job, w) /\ COM1_BATCH = 0
    BY <1>1, <1>6 DEF ComsReady, COM1_BATCH
  <2>2. part = [k \in 0 .. n - 1 |-> com1[0 + k]]
    BY DEF Slice
  <2>3. AsSeq(part) = [i \in 1 .. n |-> part[i - 1]]
    BY <1>1, <2>2, AsSeqExact
  <2>4. ASSUME NEW i \in 1 .. n PROVE part[i - 1] = ComOf(job, w + (i - 1))
    <3>1. i - 1 \in 0 .. n - 1 /\ 0 + (i - 1) = i - 1
      BY <1>1
    <3>2. com1[COM1_BATCH + (i - 1)] = ComOf(job, w + (i - 1))
      BY <1>1, <3>1 DEF LinesReady
    <3> QED
      BY <2>1, <2>2, <3>1, <3>2
  <2> HIDE DEF part
  <2>5. AsSeq(part) = [i \in 1 .. n |-> ComOf(job, w + (i - 1))]
    BY <2>3, <2>4
  <2>6. absorbed' = absorbed \o AsSeq(part)
    BY <1>6 DEF part
  <2>7. w \in Nat /\ n \in Nat /\ w + n = e'
    BY <1>1
  <2>8. absorbed = ComsOf(job, w)
    BY <2>1
  <2> DEFINE q == AsSeq(part)
  <2>9. q = [i \in 1 .. n |-> ComOf(job, w + (i - 1))] /\ absorbed' = absorbed \o q
    BY <2>5, <2>6
  <2> HIDE DEF q, w, n
  <2>10. ComsOf(job, w) \o q = ComsOf(job, w + n)
    BY <2>7, <2>9, AbsorbedExact
  <2> QED
    BY <2>7, <2>8, <2>9, <2>10
<1>7. ASSUME ~job.stream PROVE \A k \in 0 .. e' - 1 : com1'[k] = ComOf(job, k)
  BY <1>1, <1>3, <1>7 DEF ComsReady
<1>8. CASE e' < TAU
  <2>1. pc' = "window" /\ e' \in 0 .. TAU - 1
    BY <1>1, <1>4, <1>8
  <2>2. WindowStart' = e' /\ FilledSlots' = 0
    <3>1. CASE job.ot
      BY <1>2, <2>1, <3>1 DEF WindowStart, FilledSlots
    <3>2. CASE ~job.ot
      <4>1. /\ job.piop_batch \in Nat \ {0} /\ e \in Nat /\ InWindow = (e - WindowStart) + 1
            /\ e - WindowStart \in Nat
        BY <1>1, <3>2, WindowFacts
      <4>2. e' = e + 1
        BY <1>1, <4>1
      <4>3. e - WindowStart = job.piop_batch - 1
        BY <1>1, <1>8, <3>2, <4>1, <4>2 DEF Bounds
      <4>4. e % job.piop_batch \in 0 .. job.piop_batch - 1 /\ WindowStart = e - (e % job.piop_batch)
        BY <3>2, <4>1, Remainders DEF WindowStart
      <4>5. e % job.piop_batch \in Nat
        BY <4>1, <4>4
      <4>6. e % job.piop_batch = job.piop_batch - 1
        BY <4>1, <4>3, <4>4, <4>5
      <4>7. (e + 1) - ((e + 1) % job.piop_batch) = e + 1
        BY <4>1, <4>6, Remainders
      <4>8. WindowStart' = e'
        BY <1>2, <3>2, <4>2, <4>7 DEF WindowStart
      <4>9. FilledSlots' = e' - e'
        BY <1>2, <2>1, <3>2, <4>8 DEF FilledSlots
      <4> QED
        BY <1>4, <4>8, <4>9
    <3> QED
      BY <3>1, <3>2
  <2>3. ~ALPHA_ALIASED
    <3> SUFFICES ASSUME ALPHA_ALIASED PROVE FALSE
      OBVIOUS
    <3>1. e = 0 /\ job.ot /\ job.blc_batch >= TAU /\ job.blc_batch \in Nat
      BY <1>1, WindowFacts DEF ALPHA_ALIASED, Bounds
    <3>2. WindowStart = 0 /\ InWindow = Min2(TAU - 0, job.blc_batch)
      BY <3>1 DEF WindowStart, InWindow, Blc_batch
    <3> QED
      BY <1>1, <1>8, <3>1, <3>2 DEF Min2
  <2>4. Bounds'
    BY <1>2, <2>1, <2>3 DEF Bounds
  <2>5. LinesReady'
    BY <2>2 DEF LinesReady
  <2>6. ComsReady'
    <3>1. WindowStart' + FilledSlots' = e'
      BY <1>4, <2>2
    <3> QED
      BY <1>2, <1>6, <1>7, <2>2, <3>1 DEF ComsReady
  <2>7. AlphasReady(WindowStart + p)'
    <3>1. WindowStart' + p' = e'
      BY <1>4, <2>2
    <3> SUFFICES ASSUME NEW k \in 0 .. (WindowStart' + p') - 1
                 PROVE  /\ Signing' => Alpha0'[k] = Alpha0Of(job', k) /\ Alpha1'[k] = Alpha1Of(job', k)
                        /\ ~Signing' => alpha0'[k] = Alpha0Of(job', k)
      BY DEF AlphasReady
    <3>2. k \in 0 .. e' - 1
      BY <3>1
    <3> QED
      BY <1>5, <3>2 DEF AlphasReady
  <2>8. Arrays' /\ job'.memopt
    <3>1. ws' = [x |-> ws'.x, u |-> ws'.u, v |-> ws'.v]
      BY <1>3
    <3> QED
      BY <1>2, <1>3, <3>1 DEF Arrays
  <2> QED
    BY <2>1, <2>4, <2>5, <2>6, <2>7, <2>8 DEF Exact, Untouched, WindowReady, AllReady, Parsed, HashReady, OpenReady, Finished,
       SignatureExact, VerdictExact
<1>9. CASE ~(e' < TAU)
  <2>1. pc' = "hash" /\ e' = TAU
    BY <1>1, <1>4, <1>9
  <2>2. AlphasReady(TAU)'
    <3>1. e' = TAU
      BY <2>1
    <3> SUFFICES ASSUME NEW k \in 0 .. TAU - 1
                 PROVE  /\ Signing' => Alpha0'[k] = Alpha0Of(job', k) /\ Alpha1'[k] = Alpha1Of(job', k)
                        /\ ~Signing' => alpha0'[k] = Alpha0Of(job', k)
      BY DEF AlphasReady
    <3>2. k \in 0 .. e' - 1
      BY <3>1
    <3> QED
      BY <1>5, <3>2 DEF AlphasReady
  <2>3. Committed' = ComsOf(job', TAU)
    <3>1. CASE job.stream
      BY <1>2, <1>6, <2>1, <3>1 DEF Committed
    <3>2. CASE ~job.stream
      <4>1. Committed' = AsSeq(com1)
        BY <1>2, <1>3, <3>2 DEF Committed
      <4>2. DOMAIN com1 = 0 .. TAU - 1
        BY <1>3, <3>2 DEF ComSlots
      <4>3. AsSeq(com1) = [i \in 1 .. TAU |-> com1[i - 1]]
        BY <1>1, <4>2, AsSeqExact
      <4>4. \A i \in 1 .. TAU : com1[i - 1] = ComOf(job, i - 1)
        <5> TAKE i \in 1 .. TAU
        <5>1. i - 1 \in 0 .. e' - 1
          BY <1>1, <2>1
        <5> QED
          BY <1>3, <1>7, <3>2, <5>1
      <4> QED
        BY <1>2, <4>1, <4>3, <4>4 DEF ComsOf
    <3> QED
      BY <3>1, <3>2
  <2>4. HashReady' /\ job'.memopt
    BY <1>2, <2>2, <2>3 DEF HashReady
  <2> QED
    BY <2>1, <2>4 DEF Exact, Arrays, Untouched, WindowReady, AllReady, Parsed, OpenReady, Finished,
       SignatureExact, VerdictExact
<1> QED
  BY <1>8, <1>9

\* A batch, whatever comes after it.
LEMMA BatchExact ==
  ASSUME SVInv, Exact, pc = "piop", job.memopt, BatchDone, EndOfBatch
  PROVE  Exact'
<1>1. Inputs'
  BY InputsStay DEF BatchDone
<1>2. CASE pc' = "err"
  BY <1>1, <1>2, FailsExact
<1>3. CASE pc' # "err"
  <2>1. p \in Nat /\ Piop_batch \in Nat /\ InWindow \in Nat /\ p + Piop_batch <= InWindow
    BY BatchFacts
  <2>2. CASE p + Piop_batch < InWindow
    <3>1. p' = p + Piop_batch /\ pc' = "piop" /\ e' = e /\ absorbed' = absorbed
      BY <1>3, <2>2 DEF EndOfBatch, Reaches
    <3> QED
      BY <1>1, <2>2, <3>1, NextBatchExact
  <2>3. CASE ~(p + Piop_batch < InWindow)
    <3>1. /\ p' = 0 /\ e' = WindowStart + InWindow
          /\ pc' = IF e' < TAU THEN "window" ELSE "hash"
          /\ absorbed' = IF job.stream THEN absorbed \o AsSeq(Slice(com1, 0, InWindow)) ELSE absorbed
      BY <1>3, <2>3 DEF EndOfBatch, Reaches
    <3>2. p + Piop_batch = InWindow
      BY <2>1, <2>3
    <3> QED
      BY <1>1, <3>1, <3>2, EndOfWindowExact
  <2> QED
    BY <2>2, <2>3
<1> QED
  BY <1>2, <1>3

\* The executions of a batch, out of the window.
LEMMA BatchOfWindow ==
  ASSUME SVInv, Exact, pc = "piop", job.memopt, NEW s \in 0 .. Piop_batch - 1
  PROVE  /\ p + s \in Slots(job) /\ First + s \in Execs /\ First + s = WindowStart + (p + s)
         /\ Slice(com1, COM1_BATCH + p, Piop_batch)[s] = ComOf(job, First + s)
         /\ Slice(ws.x, p, Piop_batch)[s] = XOf(job, First + s)
         /\ Slice(ws.u, p, Piop_batch)[s] = UOf(job, First + s)
         /\ Signing => Slice(ws.v, p, Piop_batch)[s] = VOf(job, First + s)
<1> DEFINE n == Piop_batch
           k == First + s
           slot == p + s
           c == COM1_BATCH + p
<1>1. /\ LinesReady /\ FilledSlots = InWindow /\ InWindow \in Nat /\ InWindow <= BatchOf(job)
      /\ WindowStart \in Nat /\ WindowStart + InWindow <= TAU /\ TAU \in Nat /\ BatchOf(job) \in Nat
      /\ p \in Nat /\ n \in Nat /\ p + n <= InWindow /\ First = WindowStart + p /\ COM1_BATCH \in Nat
  BY BatchFacts
<1>2. /\ slot \in 0 .. FilledSlots - 1 /\ slot \in Nat /\ ~(slot < p) /\ k = WindowStart + slot
      /\ c + s = COM1_BATCH + slot
  BY <1>1
<1>3. slot \in Slots(job) /\ k \in Execs
  BY <1>1, <1>2 DEF Slots, Execs
<1>4. /\ Slice(com1, c, n)[s] = com1[c + s] /\ Slice(ws.x, p, n)[s] = ws.x[slot]
      /\ Slice(ws.u, p, n)[s] = ws.u[slot] /\ Slice(ws.v, p, n)[s] = ws.v[slot]
  BY DEF Slice
<1> HIDE DEF slot, k, c
<1>5. /\ ws.x[slot] = XOf(job, k) /\ com1[COM1_BATCH + slot] = ComOf(job, k)
      /\ ws.u[slot] = UOf(job, k) /\ (Signing => ws.v[slot] = VOf(job, k))
  BY <1>1, <1>2 DEF LinesReady
<1> QED
  BY <1>2, <1>3, <1>4, <1>5 DEF slot, k, c

\* A signer's batch.
LEMMA SignPAlphaOfBatchExact == ASSUME SVInv, Exact, SignPAlphaOfBatch PROVE Exact'
<1> DEFINE n == Piop_batch
           com == Slice(com1, COM1_BATCH + p, n)
           x0 == Slice(ws.x, p, n)
           u0 == Slice(ws.u, p, n)
           u1 == Slice(ws.v, p, n)
           a == ComputePAlpha_partial_memopt(K, n, com, x0, u0, u1)
<1>1. /\ pc = "piop" /\ job.memopt /\ Signing /\ EndOfBatch /\ job' = job /\ com1' = com1
      /\ i_star' = i_star /\ sig' = sig
      /\ ALPHA_ALIASED =>
           /\ ws' = [ws EXCEPT !.u = Overwrite(@, First, a.alpha0), !.v = Overwrite(@, First, a.alpha1)]
           /\ alpha0' = alpha0 /\ alpha1' = alpha1
      /\ ~ALPHA_ALIASED =>
           /\ alpha0' = Overwrite(alpha0, First, a.alpha0)
           /\ alpha1' = Overwrite(alpha1, First, a.alpha1)
           /\ ws' = ws
  BY DEF SignPAlphaOfBatch
<1>2. /\ job \in AllCalls /\ TAU \in Nat /\ n \in Nat \ {0} /\ First \in Nat /\ p \in Nat /\ InWindow \in Nat
      /\ WindowStart \in Nat /\ First = WindowStart + p /\ p + n <= InWindow /\ WindowStart + InWindow <= TAU
      /\ InWindow <= BatchOf(job) /\ BatchOf(job) \in Nat /\ AlphasReady(First) /\ Bounds
  BY <1>1, BatchFacts
<1>3. /\ ws = [x |-> ws.x, u |-> ws.u, v |-> ws.v]
      /\ DOMAIN ws.u = Slots(job) /\ DOMAIN ws.v = Slots(job)
      /\ DOMAIN alpha0 = Execs /\ DOMAIN alpha1 = Execs /\ Execs = 0 .. TAU - 1
      /\ Slots(job) = 0 .. BatchOf(job) - 1 /\ job.role = "sign"
  BY <1>1 DEF Exact, Arrays, Execs, Slots, Signing
<1>4. a = AlphasOf(K, n, com, x0, u0, u1)
  <2>1. IsKey(Keys[job.key]) /\ K = Keys[job.key].K
    BY <1>2, KeyOfCall DEF K, Key
  <2> HIDE DEF n, com, x0, u0, u1
  <2> QED
    BY <1>2, <2>1, MemoptSigns
<1>5. /\ DOMAIN a.alpha0 = 0 .. n - 1 /\ DOMAIN a.alpha1 = 0 .. n - 1
      /\ \A s \in 0 .. n - 1 : /\ a.alpha0[s] = AlphaOf(K, com[s], x0[s], u0[s], u1[s]).alpha0
                               /\ a.alpha1[s] = AlphaOf(K, com[s], x0[s], u0[s], u1[s]).alpha1
  <2> HIDE DEF a, n, com, x0, u0, u1
  <2>1. a = [alpha0 |-> [s \in 0 .. n - 1 |-> AlphaOf(K, com[s], x0[s], u0[s], u1[s]).alpha0],
             alpha1 |-> [s \in 0 .. n - 1 |-> AlphaOf(K, com[s], x0[s], u0[s], u1[s]).alpha1]]
    BY <1>4 DEF AlphasOf
  <2> QED
    BY <2>1
<1>6. ASSUME NEW s \in 0 .. n - 1
      PROVE  a.alpha0[s] = Alpha0Of(job, First + s) /\ a.alpha1[s] = Alpha1Of(job, First + s)
  <2>1. /\ com[s] = ComOf(job, First + s) /\ x0[s] = XOf(job, First + s)
        /\ u0[s] = UOf(job, First + s) /\ u1[s] = VOf(job, First + s)
    BY <1>1, BatchOfWindow
  <2> DEFINE k == First + s
  <2> HIDE DEF k
  <2>2. com[s] = k /\ x0[s] = Key.x0[k] /\ u0[s] = Key.u0[k] /\ u1[s] = Key.u1[k]
    BY <1>3, <2>1 DEF ComOf, XOf, UOf, VOf, Key, k
  <2> HIDE DEF a, com, x0, u0, u1
  <2>3. a.alpha0[s] = Alpha0Of(job, k) /\ a.alpha1[s] = Alpha1Of(job, k)
    BY <1>3, <1>5, <2>2 DEF Alpha0Of, Alpha1Of, LineOfKey, Key, K
  <2> QED
    BY <2>3 DEF k
<1>7. \A k \in 0 .. First - 1 : Alpha0[k] = Alpha0Of(job, k) /\ Alpha1[k] = Alpha1Of(job, k)
  BY <1>1, <1>2 DEF AlphasReady
<1>8. ALPHA_ALIASED' = ALPHA_ALIASED
  BY <1>1, CallUnchanged
<1> HIDE DEF n, com, x0, u0, u1, a
<1>9. ASSUME NEW f0, NEW f1, NEW len \in Nat, DOMAIN f0 = 0 .. len - 1, DOMAIN f1 = 0 .. len - 1,
             First + n <= len,
             \A k \in 0 .. First - 1 : f0[k] = Alpha0Of(job, k) /\ f1[k] = Alpha1Of(job, k),
             NEW k \in 0 .. (First + n) - 1
      PROVE  /\ Overwrite(f0, First, a.alpha0)[k] = Alpha0Of(job, k)
             /\ Overwrite(f1, First, a.alpha1)[k] = Alpha1Of(job, k)
  <2>1. k \in 0 .. len - 1
    BY <1>2, <1>9
  <2>2. /\ Overwrite(f0, First, a.alpha0)[k] = IF k - First \in 0 .. n - 1 THEN a.alpha0[k - First] ELSE f0[k]
        /\ Overwrite(f1, First, a.alpha1)[k] = IF k - First \in 0 .. n - 1 THEN a.alpha1[k - First] ELSE f1[k]
    BY <1>5, <1>9, <2>1 DEF Overwrite
  <2>3. CASE k >= First
    <3>1. k - First \in 0 .. n - 1 /\ First + (k - First) = k
      BY <1>2, <2>3
    <3> QED
      BY <1>6, <2>2, <3>1
  <2>4. CASE k < First
    <3>1. k - First \notin 0 .. n - 1 /\ k \in 0 .. First - 1
      BY <1>2, <2>4
    <3> QED
      BY <1>9, <2>2, <3>1
  <2> QED
    BY <1>2, <2>3, <2>4
<1>10. CASE ALPHA_ALIASED
  <2>1. WindowStart = 0 /\ First = p /\ BatchOf(job) >= TAU
    BY <1>2, <1>10 DEF Bounds, ALPHA_ALIASED, WindowStart, BatchOf
  <2>2. /\ ws' = [x |-> ws.x, u |-> Overwrite(ws.u, First, a.alpha0), v |-> Overwrite(ws.v, First, a.alpha1)]
        /\ alpha0' = alpha0 /\ alpha1' = alpha1
    BY <1>1, <1>3, <1>10
  <2>3. /\ ws'.u = Overwrite(ws.u, First, a.alpha0) /\ ws'.v = Overwrite(ws.v, First, a.alpha1)
        /\ ws' = [x |-> ws.x, u |-> ws'.u, v |-> ws'.v]
    BY <2>2
  <2>4. DOMAIN ws'.u = Slots(job) /\ DOMAIN ws'.v = Slots(job)
    BY <1>3, <2>3 DEF Overwrite
  <2>5. ASSUME NEW s \in Slots(job), ~(s < p + n) PROVE ws'.u[s] = ws.u[s] /\ ws'.v[s] = ws.v[s]
    <3>1. s \in Nat /\ s - First \notin 0 .. n - 1
      BY <1>2, <1>3, <2>1, <2>5
    <3> QED
      BY <1>3, <1>5, <2>3, <3>1 DEF Overwrite
  <2>6. ASSUME NEW k \in 0 .. (First + n) - 1
        PROVE  Alpha0'[k] = Alpha0Of(job, k) /\ Alpha1'[k] = Alpha1Of(job, k)
    <3>1. Alpha0 = ws.u /\ Alpha1 = ws.v /\ Alpha0' = ws'.u /\ Alpha1' = ws'.v
      BY <1>8, <1>10 DEF Alpha0, Alpha1
    <3>2. First + n <= BatchOf(job)
      BY <1>2, <2>1
    <3>3. \A j \in 0 .. First - 1 : ws.u[j] = Alpha0Of(job, j) /\ ws.v[j] = Alpha1Of(job, j)
      BY <1>7, <3>1
    <3>4. DOMAIN ws.u = 0 .. BatchOf(job) - 1 /\ DOMAIN ws.v = 0 .. BatchOf(job) - 1 /\ BatchOf(job) \in Nat
      BY <1>2, <1>3
    <3> DEFINE f0 == ws.u
               f1 == ws.v
               len == BatchOf(job)
    <3>5. /\ len \in Nat /\ DOMAIN f0 = 0 .. len - 1 /\ DOMAIN f1 = 0 .. len - 1 /\ First + n <= len
          /\ \A j \in 0 .. First - 1 : f0[j] = Alpha0Of(job, j) /\ f1[j] = Alpha1Of(job, j)
      BY <3>2, <3>3, <3>4
    <3> HIDE DEF f0, f1, len
    <3>6. /\ Overwrite(f0, First, a.alpha0)[k] = Alpha0Of(job, k)
          /\ Overwrite(f1, First, a.alpha1)[k] = Alpha1Of(job, k)
      BY <1>9, <3>5
    <3> QED
      BY <2>3, <3>1, <3>6 DEF f0, f1
  <2>7. BatchDone
    BY <1>1, <1>3, <1>10, <2>2, <2>3, <2>4, <2>5, <2>6 DEF BatchDone, n
  <2> QED
    BY <1>1, <2>7, BatchExact
<1>11. CASE ~ALPHA_ALIASED
  <2>1. /\ ws' = ws /\ alpha0' = Overwrite(alpha0, First, a.alpha0) /\ alpha1' = Overwrite(alpha1, First, a.alpha1)
    BY <1>1, <1>11
  <2>2. DOMAIN alpha0' = Execs /\ DOMAIN alpha1' = Execs
    BY <1>3, <2>1 DEF Overwrite
  <2>3. ASSUME NEW k \in 0 .. (First + n) - 1
        PROVE  Alpha0'[k] = Alpha0Of(job, k) /\ Alpha1'[k] = Alpha1Of(job, k)
    <3>1. Alpha0 = alpha0 /\ Alpha1 = alpha1 /\ Alpha0' = alpha0' /\ Alpha1' = alpha1'
      BY <1>8, <1>11 DEF Alpha0, Alpha1
    <3>2. First + n <= TAU
      BY <1>2
    <3>3. \A j \in 0 .. First - 1 : alpha0[j] = Alpha0Of(job, j) /\ alpha1[j] = Alpha1Of(job, j)
      BY <1>7, <3>1
    <3>4. DOMAIN alpha0 = 0 .. TAU - 1 /\ DOMAIN alpha1 = 0 .. TAU - 1 /\ TAU \in Nat
      BY <1>2, <1>3
    <3>5. /\ Overwrite(alpha0, First, a.alpha0)[k] = Alpha0Of(job, k)
          /\ Overwrite(alpha1, First, a.alpha1)[k] = Alpha1Of(job, k)
      BY <1>9, <3>2, <3>3, <3>4
    <3> QED
      BY <2>1, <3>1, <3>5
  <2>4. ws' = [x |-> ws.x, u |-> ws'.u, v |-> ws'.v] /\ DOMAIN ws'.u = Slots(job) /\ DOMAIN ws'.v = Slots(job)
    BY <1>3, <2>1
  <2>5. BatchDone
    BY <1>1, <1>3, <2>1, <2>2, <2>3, <2>4 DEF BatchDone, n
  <2> QED
    BY <1>1, <2>5, BatchExact
<1> QED
  BY <1>10, <1>11

\* A verifier's batch.
LEMMA VerifyPAlphaOfBatchExact == ASSUME SVInv, Exact, VerifyPAlphaOfBatch PROVE Exact'
<1> DEFINE n == Piop_batch
           com == Slice(com1, COM1_BATCH + p, n)
           a1 == Slice(sig.opening.alpha1, First, n)
           points == Slice(i_star, First, n)
           v_x == Slice(ws.x, p, n)
           u == Slice(ws.u, p, n)
           a == RecomputePAlpha_partial_memopt(K, n, com, a1, points, v_x, u)
<1>1. /\ pc = "piop" /\ job.memopt /\ ~Signing /\ EndOfBatch /\ job' = job /\ com1' = com1
      /\ i_star' = i_star /\ sig' = sig /\ alpha1' = alpha1
      /\ ws' = [ws EXCEPT !.v = Overwrite(@, p, a1)]
      /\ alpha0' = Overwrite(alpha0, First, a)
  BY DEF VerifyPAlphaOfBatch
<1>2. /\ job \in AllCalls /\ TAU \in Nat /\ n \in Nat \ {0} /\ First \in Nat /\ p \in Nat /\ InWindow \in Nat
      /\ WindowStart \in Nat /\ First = WindowStart + p /\ p + n <= InWindow /\ WindowStart + InWindow <= TAU
      /\ AlphasReady(First)
  BY <1>1, BatchFacts
<1>3. /\ ws = [x |-> ws.x, u |-> ws.u, v |-> ws.v]
      /\ DOMAIN ws.u = Slots(job) /\ DOMAIN ws.v = Slots(job)
      /\ DOMAIN alpha0 = Execs /\ DOMAIN alpha1 = Execs /\ Execs = 0 .. TAU - 1
      /\ job.role # "sign" /\ sig = SigGiven(job) /\ i_star = PointsOf(job)
  BY <1>1 DEF Exact, Arrays, Execs, Signing, Inputs
<1>4. a = AlphasFrom(K, n, com, a1, points, v_x, u)
  <2> HIDE DEF n, com, a1, points, v_x, u
  <2> QED
    BY <1>2, MemoptVerifies
<1>5. /\ DOMAIN a = 0 .. n - 1
      /\ \A s \in 0 .. n - 1 :
           a[s] = AlphaFrom(K, com[s], a1[s], get_evaluation_point(points[s]), v_x[s], u[s])
  BY <1>4 DEF AlphasFrom
<1>6. ASSUME NEW s \in 0 .. n - 1 PROVE a[s] = Alpha0Of(job, First + s)
  <2>1. /\ com[s] = ComOf(job, First + s) /\ v_x[s] = XOf(job, First + s) /\ u[s] = UOf(job, First + s)
    BY <1>1, BatchOfWindow
  <2>2. a1[s] = SigGiven(job).opening.alpha1[First + s] /\ points[s] = PointsOf(job)[First + s]
    BY <1>3 DEF Slice
  <2> DEFINE k == First + s
  <2>3. /\ com[s] = ComOf(job, k) /\ v_x[s] = XOf(job, k) /\ u[s] = UOf(job, k)
        /\ a1[s] = SigGiven(job).opening.alpha1[k] /\ points[s] = PointsOf(job)[k]
    BY <2>1, <2>2
  <2> HIDE DEF k, a, com, a1, points, v_x, u
  <2>4. a[s] = Alpha0Of(job, k)
    BY <1>3, <1>5, <2>3 DEF Alpha0Of, Key, K
  <2> QED
    BY <2>4 DEF k
<1>7. \A k \in 0 .. First - 1 : alpha0[k] = Alpha0Of(job, k)
  BY <1>1, <1>2 DEF AlphasReady
<1>8. DOMAIN a1 = 0 .. n - 1
  BY DEF Slice
<1> HIDE DEF n, com, a1, points, v_x, u, a
<1>9. DOMAIN alpha0' = Execs /\ DOMAIN alpha1' = Execs
  BY <1>1, <1>3 DEF Overwrite
<1>10. ASSUME NEW k \in 0 .. (First + n) - 1 PROVE alpha0'[k] = Alpha0Of(job, k)
  <2>1. k \in Execs
    BY <1>2, <1>3
  <2>2. alpha0'[k] = IF k - First \in 0 .. n - 1 THEN a[k - First] ELSE alpha0[k]
    BY <1>1, <1>3, <1>5, <2>1 DEF Overwrite
  <2>3. CASE k >= First
    <3>1. k - First \in 0 .. n - 1 /\ First + (k - First) = k
      BY <1>2, <2>3
    <3> QED
      BY <1>6, <2>2, <3>1
  <2>4. CASE k < First
    <3>1. k - First \notin 0 .. n - 1 /\ k \in 0 .. First - 1
      BY <1>2, <2>4
    <3> QED
      BY <1>7, <2>2, <3>1
  <2> QED
    BY <1>2, <2>3, <2>4
<1>11. /\ ws' = [x |-> ws.x, u |-> ws.u, v |-> Overwrite(ws.v, p, a1)]
  BY <1>1, <1>3
<1>12. ws'.u = ws.u /\ DOMAIN ws'.v = Slots(job) /\ ws' = [x |-> ws.x, u |-> ws'.u, v |-> ws'.v]
  BY <1>3, <1>11 DEF Overwrite
<1>13. BatchDone
  BY <1>1, <1>3, <1>9, <1>10, <1>12 DEF BatchDone, n
<1> QED
  BY <1>1, <1>13, BatchExact

\* From the first step to the last, whatever the build, its windows and its
\* batches, a call has what it is to have: the executions of the window, the
\* commitments kept or absorbed, alpha0 and alpha1 of the executions before, and
\* in the end the signature of the definition, or the verdict.
THEOREM SignVerifyExact == SignVerifySpec => []Exact
<1>1. SVInit(AllCalls, "enter") => Exact
  BY ExactAtFirst
<1>2. SVInv /\ Exact /\ [SVNext]_sv_vars => Exact'
  <2> SUFFICES ASSUME SVInv, Exact, [SVNext]_sv_vars PROVE Exact'
    OBVIOUS
  <2>1. CASE KeyIsNull
    BY <2>1, KeyIsNullExact
  <2>2. CASE EnterSign \/ EnterVerify
    BY <2>2, EntersExact
  <2>3. CASE LinesOfAll
    BY <2>3, LinesOfAllExact
  <2>4. CASE LinesOfPass
    BY <2>4, LinesOfPassExact
  <2>5. CASE LinesOfExecution
    BY <2>5, LinesOfExecutionExact
  <2>6. CASE SignPAlphaOfAll
    BY <2>6, SignPAlphaOfAllExact
  <2>7. CASE VerifyPAlphaOfAll
    BY <2>7, VerifyPAlphaOfAllExact
  <2>8. CASE SignPAlphaOfBatch
    BY <2>8, SignPAlphaOfBatchExact
  <2>9. CASE VerifyPAlphaOfBatch
    BY <2>9, VerifyPAlphaOfBatchExact
  <2>10. CASE HashSign
    BY <2>10, HashSignExact
  <2>11. CASE HashVerify
    BY <2>11, HashVerifyExact
  <2>12. CASE Sample
    BY <2>12, SampleExact
  <2>13. CASE Open
    BY <2>13, OpenExact
  <2>14. CASE ExitSign \/ ExitVerify
    BY <2>14, ExitsExact
  <2>15. CASE UNCHANGED sv_vars
    BY <2>15, StutterExact
  <2> QED
    BY <2>1, <2>2, <2>3, <2>4, <2>5, <2>6, <2>7, <2>8, <2>9, <2>10, <2>11, <2>12, <2>13, <2>14, <2>15 DEF SVNext
<1> QED
  BY <1>1, <1>2, SignVerifyInvariant, PTL DEF SignVerifySpec

\* Every build signs what the definition says, for every key and every set of
\* lines: windows of any size, commitments streamed or kept, u0 and alpha0 in one
\* place or in two, lanes or none; and all zero when a call failed (Sign_default
\* of sign.c, Sign_memopt of sign_memopt.c).
THEOREM SignaturesExact == SignVerifySpec => []SignatureExact
<1>1. Exact => SignatureExact
  BY DEF Exact
<1> QED
  BY <1>1, SignVerifyExact, PTL

\* Every build accepts a signature if and only if neither it nor the message was
\* changed, out of one point of each line (Verify_default of sign.c,
\* Verify_memopt of sign_memopt.c).
THEOREM VerdictsExact == SignVerifySpec => []VerdictExact
<1>1. Exact => VerdictExact
  BY DEF Exact
<1> QED
  BY <1>1, SignVerifyExact, PTL

-----------------------------------------------------------------------------
(***************************************************************************)
(* crypto_sign and crypto_sign_open: the message, then the signed message, *)
(* is in memory, but for the cell that was changed on the way.             *)
(***************************************************************************)
CryptoSignSpec == CSInit(Bufs, "sign") /\ [][CSNext]_cs_vars

\* The message is in memory at a place, but for the cells of S.
MessageAt(memory, at, S) ==
  \A k \in 1 .. buf.len : at + k - 1 \notin S => memory[at + k - 1] = Byte(k)

\* The signed message is in sm, but for the cells of S.
SignedMessage(memory, S) ==
  /\ MessageAt(memory, SM, S)
  /\ \A k \in 1 .. SIG_SIZE :
       SM + buf.len + k - 1 \notin S => memory[SM + buf.len + k - 1] = SigByte(Message, k)

CSTypeOK ==
  /\ buf \in Bufs
  /\ cs_pc \in {"sign", "signature", "signed", "between", "open", "opened"}
  /\ cs_ret \in {0, -1}
  /\ DOMAIN mem = Cells

BeforeSigning ==
  /\ cs_pc = "sign" => MessageAt(mem, buf.m, {})
  /\ cs_pc = "signature" => MessageAt(mem, SM, {})
  /\ cs_pc \in {"sign", "signature"} => smlen = -1

\* What crypto_sign returns.
Signed ==
  /\ cs_pc = "signed" => smlen = IF buf.smlen_null THEN -1 ELSE IF cs_ret = 0 THEN SIG_SIZE ELSE 0
  /\ cs_pc = "between" =>
       smlen = IF buf.smlen_null THEN -1 ELSE IF cs_ret = 0 THEN buf.len + SIG_SIZE ELSE 0
  /\ cs_pc \in {"signed", "between"} /\ cs_ret = 0 => SignedMessage(mem, {})

\* What crypto_sign_open is given.
DeliveredAs(how) ==
  CASE how = "nothing" -> \/ smlen = 0
                          \/ smlen = buf.len + SIG_SIZE /\ SignedMessage(mem, {})
    [] how = "cell" -> /\ smlen = buf.len + SIG_SIZE
                       /\ \E a \in SM .. SM + buf.len + SIG_SIZE - 1 :
                            mem[a] = Other /\ SignedMessage(mem, {a})
    [] how = "length" -> smlen \in 0 .. buf.len + SIG_SIZE - 1 /\ SignedMessage(mem, {})

Delivered ==
  cs_pc = "open" => /\ before = mem
                    /\ changed \in {"nothing", "cell", "length"}
                    /\ DeliveredAs(changed)

CSInv == CSTypeOK /\ BeforeSigning /\ Signed /\ Delivered /\ OpenReturnsMessage

-----------------------------------------------------------------------------
\* The buffers of the caller are in memory, and so are the message and the
\* signature in sm.
LEMMA BufFacts ==
  ASSUME buf \in Bufs
  PROVE  /\ buf.len \in Nat /\ buf.len <= MaxLen
         /\ \A k \in 1 .. buf.len : buf.m + k - 1 \in Cells /\ SM + k - 1 \in Cells /\ buf.out + k - 1 \in Cells
         /\ \A k \in 1 .. SIG_SIZE : SM + buf.len + k - 1 \in Cells
         /\ buf.m \in Nat /\ buf.out \in Nat
<1>1. /\ buf.len \in 0 .. MaxLen /\ buf.m \in Cells /\ buf.out \in Cells
      /\ buf.m + buf.len - 1 \in Cells \cup {-1} /\ buf.out + buf.len - 1 \in Cells \cup {-1}
  BY DEF Bufs
<1>2. SM \in Nat /\ MaxLen \in Nat /\ SIG_SIZE \in Nat \ {0}
  BY CryptoSignAssumption
<1>3. buf.len \in Nat /\ buf.len <= MaxLen /\ buf.m \in Nat /\ buf.out \in Nat
  BY <1>1, <1>2 DEF Cells
<1>4. ASSUME NEW k \in 1 .. buf.len
      PROVE  buf.m + k - 1 \in Cells /\ SM + k - 1 \in Cells /\ buf.out + k - 1 \in Cells
  <2>1. k \in Int /\ 1 <= k /\ k <= buf.len
    BY <1>3
  <2>2. buf.m + buf.len - 1 \in Cells /\ buf.out + buf.len - 1 \in Cells
    BY <1>1, <1>3, <2>1
  <2> QED
    BY <1>2, <1>3, <2>1, <2>2 DEF Cells
<1>5. ASSUME NEW k \in 1 .. SIG_SIZE PROVE SM + buf.len + k - 1 \in Cells
  BY <1>2, <1>3 DEF Cells
<1> QED
  BY <1>3, <1>4, <1>5

\* A memory with these n cells at a place, and one that is another but there.
HasAt(w, at, bytes, n) == \A k \in 1 .. n : at + k - 1 \in Cells => w[at + k - 1] = bytes[k]
AsBefore(w, memory, at, n) == \A a \in Cells : a < at \/ a >= at + n => w[a] = memory[a]

\* What is written is there, and the rest is as it was.
LEMMA WriteExact ==
  ASSUME NEW memory, NEW at \in Nat, NEW bytes, NEW n \in Nat, DOMAIN bytes = 1 .. n,
         NEW w, w = Write(memory, at, bytes)
  PROVE  /\ DOMAIN w = Cells
         /\ HasAt(w, at, bytes, n)
         /\ AsBefore(w, memory, at, n)
<1>1. DOMAIN w = Cells /\ \A a \in Cells : w[a] = IF a - at + 1 \in DOMAIN bytes THEN bytes[a - at + 1] ELSE memory[a]
  BY DEF Write
<1>2. ASSUME NEW k \in 1 .. n, at + k - 1 \in Cells PROVE w[at + k - 1] = bytes[k]
  <2>1. (at + k - 1) - at + 1 = k
    OBVIOUS
  <2> QED
    BY <1>1, <1>2, <2>1
<1>3. ASSUME NEW a \in Cells, a < at \/ a >= at + n PROVE w[a] = memory[a]
  <2>1. a \in Int
    BY CryptoSignAssumption DEF Cells
  <2>2. a - at + 1 \notin 1 .. n
    BY <1>3, <2>1
  <2> QED
    BY <1>1, <2>2
<1> QED
  BY <1>1, <1>2, <1>3 DEF HasAt, AsBefore

\* A message that is there is what is read.
LEMMA MessageRead ==
  ASSUME buf \in Bufs, NEW memory, NEW at \in Nat, MessageAt(memory, at, {})
  PROVE  Read(memory, at, buf.len) = Message
<1>1. buf.len \in Nat
  BY BufFacts
<1> QED
  BY <1>1 DEF MessageAt, Read, Message

\* memmove moves the message, wherever it goes.
LEMMA MessageMoved ==
  ASSUME buf \in Bufs, NEW from \in Nat, NEW to \in Nat, MessageAt(mem, from, {}),
         \A k \in 1 .. buf.len : to + k - 1 \in Cells
  PROVE  /\ MessageAt(memmove(mem, to, from, buf.len), to, {})
         /\ DOMAIN memmove(mem, to, from, buf.len) = Cells
<1> DEFINE bytes == Read(mem, from, buf.len)
<1>1. buf.len \in Nat
  BY BufFacts
<1>2. bytes = Message
  BY MessageRead
<1>3. DOMAIN bytes = 1 .. buf.len /\ \A k \in 1 .. buf.len : bytes[k] = Byte(k)
  BY <1>2 DEF Message
<1>4. memmove(mem, to, from, buf.len) = Write(mem, to, bytes)
  BY DEF memmove
<1> HIDE DEF bytes
<1> DEFINE w == Write(mem, to, bytes)
<1>6. w = Write(mem, to, bytes)
  OBVIOUS
<1> HIDE DEF w
<1>5. DOMAIN w = Cells /\ HasAt(w, to, bytes, buf.len)
  BY <1>1, <1>3, <1>6, WriteExact
<1> QED
  BY <1>3, <1>4, <1>5, <1>6 DEF MessageAt, HasAt

\* The message is where the caller put it.
LEMMA CSInitEstablishes == CSInit(Bufs, "sign") => CSInv
<1> SUFFICES ASSUME CSInit(Bufs, "sign") PROVE CSInv
  OBVIOUS
<1>1. /\ buf \in Bufs /\ cs_pc = "sign" /\ cs_ret = -1 /\ smlen = -1
      /\ mem = Write([a \in Cells |-> Other], buf.m, Message)
  BY DEF CSInit
<1>2. buf.len \in Nat /\ buf.m \in Nat /\ \A k \in 1 .. buf.len : buf.m + k - 1 \in Cells
  BY <1>1, BufFacts
<1>3. DOMAIN Message = 1 .. buf.len /\ \A k \in 1 .. buf.len : Message[k] = Byte(k)
  BY DEF Message
<1>4. /\ DOMAIN mem = Cells
      /\ HasAt(mem, buf.m, Message, buf.len)
  BY <1>1, <1>2, <1>3, WriteExact
<1>5. MessageAt(mem, buf.m, {})
  BY <1>2, <1>3, <1>4 DEF MessageAt, HasAt
<1> QED
  BY <1>1, <1>4, <1>5
     DEF CSInv, CSTypeOK, BeforeSigning, Signed, Delivered, OpenReturnsMessage

\* A length that is refused: nothing is signed, and the length that comes back is 0.
LEMMA SignRefusedPreserves ==
  ASSUME CSInv, SignRefused
  PROVE  CSInv'
<1>1. cs_pc = "sign" /\ buf \in Bufs /\ smlen = -1 /\ DOMAIN mem = Cells
  BY DEF SignRefused, CSInv, CSTypeOK, BeforeSigning
<1>2. /\ cs_ret' = -1 /\ cs_pc' = "between"
      /\ smlen' = IF buf.smlen_null THEN smlen ELSE 0
      /\ UNCHANGED <<buf, mem, mlen, before, changed>>
  BY DEF SignRefused
<1> QED
  BY <1>1, <1>2
     DEF CSInv, CSTypeOK, BeforeSigning, Signed, Delivered, OpenReturnsMessage

\* crypto_sign moves it to sm, over what may overlap.
LEMMA MoveMessagePreserves ==
  ASSUME CSInv, MoveMessage
  PROVE  CSInv'
<1>1. /\ cs_pc = "sign" /\ buf \in Bufs /\ smlen = -1 /\ MessageAt(mem, buf.m, {}) /\ cs_ret \in {0, -1}
  BY DEF MoveMessage, CSInv, CSTypeOK, BeforeSigning
<1>2. /\ mem' = memmove(mem, SM, buf.m, buf.len) /\ cs_pc' = "signature"
      /\ UNCHANGED <<buf, cs_ret, smlen, mlen, before, changed>>
  BY DEF MoveMessage
<1>3. MessageAt(mem', SM, {}) /\ DOMAIN mem' = Cells
  BY <1>1, <1>2, BufFacts, MessageMoved, CryptoSignAssumption
<1>4. MessageAt(mem, SM, {})'
  BY <1>2, <1>3 DEF MessageAt
<1> QED
  BY <1>1, <1>2, <1>3, <1>4
     DEF CSInv, CSTypeOK, BeforeSigning, Signed, Delivered, OpenReturnsMessage

\* Signing writes the signature behind the message that it read there.
LEMMA SignatureWritten ==
  ASSUME buf \in Bufs, MessageAt(mem, SM, {}), NEW w,
         w = Write(mem, SM + buf.len, SignatureBytes(Read(mem, SM, buf.len)))
  PROVE  DOMAIN w = Cells /\ SignedMessage(w, {})
<1>1. SM \in Nat /\ SIG_SIZE \in Nat /\ buf.len \in Nat /\ SM + buf.len \in Nat
  BY BufFacts, CryptoSignAssumption
<1>2. Read(mem, SM, buf.len) = Message
  BY <1>1, MessageRead
<1> DEFINE bytes == SignatureBytes(Message)
           at == SM + buf.len
<1>3. /\ w = Write(mem, at, bytes)
      /\ DOMAIN bytes = 1 .. SIG_SIZE
      /\ \A k \in 1 .. SIG_SIZE : bytes[k] = SigByte(Message, k)
      /\ at \in Nat
  BY <1>1, <1>2 DEF SignatureBytes
<1> HIDE DEF bytes, at
<1>4. /\ DOMAIN w = Cells
      /\ HasAt(w, at, bytes, SIG_SIZE)
      /\ AsBefore(w, mem, at, SIG_SIZE)
  BY <1>1, <1>3, WriteExact
<1>5. \A k \in 1 .. SIG_SIZE : w[SM + buf.len + k - 1] = SigByte(Message, k)
  BY <1>3, <1>4, BufFacts DEF HasAt, at
<1>6. ASSUME NEW k \in 1 .. buf.len PROVE w[SM + k - 1] = Byte(k)
  <2>1. SM + k - 1 \in Cells
    BY BufFacts
  <2>2. SM + k - 1 < at
    BY <1>1 DEF at
  <2>3. w[SM + k - 1] = mem[SM + k - 1]
    BY <1>4, <2>1, <2>2 DEF AsBefore
  <2> QED
    BY <2>3 DEF MessageAt
<1> QED
  BY <1>4, <1>5, <1>6 DEF SignedMessage, MessageAt

\* Signing with success, or not.
LEMMA SignAtPreserves ==
  ASSUME CSInv, SignAt
  PROVE  CSInv'
<1>1. /\ cs_pc = "signature" /\ buf \in Bufs /\ smlen = -1 /\ MessageAt(mem, SM, {}) /\ DOMAIN mem = Cells
  BY DEF SignAt, CSInv, CSTypeOK, BeforeSigning
<1>2. /\ smlen' = IF buf.smlen_null THEN smlen ELSE IF cs_ret' = 0 THEN SIG_SIZE ELSE 0
      /\ cs_pc' = "signed"
      /\ UNCHANGED <<buf, mlen, before, changed>>
  BY DEF SignAt
<1>3. /\ cs_ret' \in {0, -1}
      /\ DOMAIN mem' = Cells
      /\ cs_ret' = 0 => SignedMessage(mem', {})
  <2>1. CASE cs_ret' = 0 /\ mem' = Write(mem, SM + buf.len, SignatureBytes(Read(mem, SM, buf.len)))
    BY <1>1, <2>1, SignatureWritten
  <2>2. CASE /\ cs_ret' = -1
             /\ mem' \in {mem, Write(mem, SM + buf.len, [k \in 1 .. SIG_SIZE |-> Zero])}
    <3>1. DOMAIN mem' = Cells
      BY <1>1, <2>2 DEF Write
    <3> QED
      BY <2>2, <3>1
  <2> QED
    BY <2>1, <2>2 DEF SignAt
<1>4. cs_ret' = 0 => SignedMessage(mem, {})'
  BY <1>2, <1>3 DEF SignedMessage, MessageAt, Message
<1> QED
  BY <1>1, <1>2, <1>3, <1>4
     DEF CSInv, CSTypeOK, BeforeSigning, Signed, Delivered, OpenReturnsMessage

\* *smlen counts the message and the signature.
LEMMA ReturnSignedPreserves ==
  ASSUME CSInv, ReturnSigned
  PROVE  CSInv'
<1>1. /\ cs_pc = "signed" /\ buf \in Bufs /\ cs_ret \in {0, -1} /\ DOMAIN mem = Cells
      /\ smlen = IF buf.smlen_null THEN -1 ELSE IF cs_ret = 0 THEN SIG_SIZE ELSE 0
      /\ cs_ret = 0 => SignedMessage(mem, {})
  BY DEF ReturnSigned, CSInv, CSTypeOK, Signed
<1>2. /\ smlen' = IF buf.smlen_null THEN smlen ELSE IF cs_ret = 0 THEN smlen + buf.len ELSE 0
      /\ cs_pc' = "between"
      /\ UNCHANGED <<buf, cs_ret, mem, mlen, before, changed>>
  BY DEF ReturnSigned
<1>3. smlen' = IF buf.smlen_null THEN -1 ELSE IF cs_ret = 0 THEN buf.len + SIG_SIZE ELSE 0
  BY <1>1, <1>2, BufFacts, CryptoSignAssumption
<1>4. cs_ret' = 0 => SignedMessage(mem, {})'
  BY <1>1, <1>2 DEF SignedMessage, MessageAt, Message
<1> QED
  BY <1>1, <1>2, <1>3, <1>4
     DEF CSInv, CSTypeOK, BeforeSigning, Signed, Delivered, OpenReturnsMessage

\* The length that the caller knows is that of what was signed, or 0.
LEMMA KnownExact ==
  ASSUME CSInv, cs_pc = "between"
  PROVE  /\ Known = IF cs_ret = 0 THEN buf.len + SIG_SIZE ELSE 0
         /\ cs_ret = 0 => SignedMessage(mem, {})
         /\ buf.len \in Nat /\ SIG_SIZE \in Nat \ {0} /\ SM \in Nat
BY BufFacts, CryptoSignAssumption DEF CSInv, CSTypeOK, Signed, Known

\* What is given to crypto_sign_open is the signed message, but for one cell, or
\* shorter.
LEMMA DeliverPreserves ==
  ASSUME CSInv, Deliver
  PROVE  CSInv'
<1>1. cs_pc = "between" /\ buf \in Bufs /\ cs_ret \in {0, -1} /\ DOMAIN mem = Cells
  BY DEF Deliver, CSInv, CSTypeOK
<1>2. before' = mem' /\ cs_pc' = "open" /\ UNCHANGED <<buf, cs_ret, mlen>>
  BY DEF Deliver
<1>3. /\ Known = IF cs_ret = 0 THEN buf.len + SIG_SIZE ELSE 0
      /\ cs_ret = 0 => SignedMessage(mem, {})
      /\ buf.len \in Nat /\ SIG_SIZE \in Nat \ {0} /\ SM \in Nat
  BY <1>1, KnownExact
<1>4. ASSUME NEW S, SignedMessage(mem', S) PROVE SignedMessage(mem, S)'
  BY <1>2, <1>4 DEF SignedMessage, MessageAt, Message
<1>5. /\ changed' \in {"nothing", "cell", "length"}
      /\ DOMAIN mem' = Cells
      /\ DeliveredAs(changed)'
  <2>1. CASE changed' = "nothing" /\ smlen' = Known /\ UNCHANGED mem
    <3>1. CASE cs_ret = 0
      <4>1. SignedMessage(mem, {})'
        BY <1>3, <1>4, <2>1, <3>1
      <4> QED
        BY <1>1, <1>2, <1>3, <2>1, <3>1, <4>1 DEF DeliveredAs
    <3>2. CASE cs_ret # 0
      BY <1>1, <1>3, <2>1, <3>2 DEF DeliveredAs
    <3> QED
      BY <3>1, <3>2
  <2>2. CASE /\ changed' = "cell" /\ smlen' = Known
             /\ \E a \in SM .. SM + Known - 1 : mem' = [mem EXCEPT ![a] = Other]
    <3>1. PICK a \in SM .. SM + Known - 1 : mem' = [mem EXCEPT ![a] = Other]
      BY <2>2
    <3>2. cs_ret = 0 /\ Known = buf.len + SIG_SIZE
      BY <1>3, <3>1
    <3>3. a \in SM .. SM + buf.len + SIG_SIZE - 1
      <4>1. SM + Known - 1 = SM + buf.len + SIG_SIZE - 1
        BY <1>3, <3>2
      <4> QED
        BY <3>1, <4>1
    <3>4. a \in Cells
      <4>1. a \in Nat /\ a <= SM + buf.len + SIG_SIZE - 1
        BY <1>3, <3>3
      <4>2. buf.len <= MaxLen /\ MaxLen \in Nat
        BY <1>1, BufFacts, CryptoSignAssumption
      <4> QED
        BY <1>3, <4>1, <4>2 DEF Cells
    <3>5. mem'[a] = Other
      BY <1>1, <3>1, <3>4
    <3>6. SignedMessage(mem', {a})
      <4>1. \A b : b \notin {a} => mem'[b] = mem[b]
        BY <1>1, <3>1
      <4> QED
        BY <1>3, <3>2, <4>1 DEF SignedMessage, MessageAt
    <3>7. SignedMessage(mem, {a})'
      BY <1>4, <3>6
    <3>8. DOMAIN mem' = Cells
      BY <1>1, <3>1
    <3>9. DeliveredAs(changed)'
      <4>1. /\ smlen' = buf'.len + SIG_SIZE
            /\ \E b \in SM .. SM + buf'.len + SIG_SIZE - 1 : mem'[b] = Other /\ SignedMessage(mem, {b})'
        BY <1>2, <2>2, <3>2, <3>3, <3>5, <3>7
      <4> QED
        BY <2>2, <4>1 DEF DeliveredAs
    <3> QED
      BY <2>2, <3>8, <3>9
  <2>3. CASE changed' = "length" /\ smlen' \in 0 .. Known - 1 /\ UNCHANGED mem
    <3>1. cs_ret = 0 /\ Known = buf.len + SIG_SIZE
      BY <1>3, <2>3
    <3>2. SignedMessage(mem, {})'
      BY <1>3, <1>4, <2>3, <3>1
    <3>3. smlen' \in 0 .. buf'.len + SIG_SIZE - 1
      <4>1. smlen' \in 0 .. buf.len + SIG_SIZE - 1
        BY <1>3, <2>3, <3>1
      <4> QED
        BY <1>2, <4>1
    <3>4. DeliveredAs(changed)'
      BY <2>3, <3>2, <3>3 DEF DeliveredAs
    <3> QED
      BY <1>1, <2>3, <3>4
  <2> QED
    BY <2>1, <2>2, <2>3 DEF Deliver
<1> QED
  BY <1>1, <1>2, <1>5
     DEF CSInv, CSTypeOK, BeforeSigning, Signed, Delivered, OpenReturnsMessage

\* Nothing that is refused at once was signed and unchanged.
LEMMA OpenRefusedPreserves ==
  ASSUME CSInv, OpenRefused
  PROVE  CSInv'
<1>1. /\ cs_pc = "open" /\ buf \in Bufs /\ DOMAIN mem = Cells
      /\ before = mem /\ changed \in {"nothing", "cell", "length"} /\ DeliveredAs(changed)
  BY DEF OpenRefused, CSInv, CSTypeOK, Delivered
<1>2. /\ buf.mlen_null \/ smlen < SIG_SIZE
      /\ mlen' = IF buf.mlen_null THEN mlen ELSE 0
      /\ cs_ret' = -1 /\ cs_pc' = "opened"
      /\ UNCHANGED <<buf, mem, smlen, before, changed>>
  BY DEF OpenRefused
<1>3. changed # "nothing" \/ buf.mlen_null \/ smlen = 0
  <2>1. changed = "nothing" => smlen = 0 \/ smlen = buf.len + SIG_SIZE
    BY <1>1 DEF DeliveredAs
  <2> QED
    BY <1>1, <1>2, <2>1, BufFacts, CryptoSignAssumption
<1>4. OpenReturnsMessage'
  BY <1>1, <1>2, <1>3 DEF OpenReturnsMessage
<1> QED
  BY <1>1, <1>2, <1>4
     DEF CSInv, CSTypeOK, BeforeSigning, Signed, Delivered

\* What was signed is accepted.
LEMMA SignedIsAccepted ==
  ASSUME buf \in Bufs, NEW memory, SignedMessage(memory, {})
  PROVE  Read(memory, SM + buf.len, SIG_SIZE) = SignatureBytes(Read(memory, SM, buf.len))
<1>1. Read(memory, SM, buf.len) = Message
  BY MessageRead, CryptoSignAssumption DEF SignedMessage
<1>2. \A k \in 1 .. SIG_SIZE : memory[SM + buf.len + k - 1] = SigByte(Message, k)
  BY DEF SignedMessage
<1> QED
  BY <1>1, <1>2 DEF Read, SignatureBytes

\* A changed cell is not: the signature is that of another message, or is itself
\* another.
LEMMA ChangedCellIsRefused ==
  ASSUME buf \in Bufs, NEW memory, NEW a \in SM .. SM + buf.len + SIG_SIZE - 1,
         memory[a] = Other, SignedMessage(memory, {a})
  PROVE  Read(memory, SM + buf.len, SIG_SIZE) # SignatureBytes(Read(memory, SM, buf.len))
<1> DEFINE msg == Read(memory, SM, buf.len)
<1>1. SM \in Nat /\ SIG_SIZE \in Nat \ {0} /\ buf.len \in Nat
  BY BufFacts, CryptoSignAssumption
<1>2. \A k \in 1 .. SIG_SIZE : Read(memory, SM + buf.len, SIG_SIZE)[k] = memory[SM + buf.len + k - 1]
  BY DEF Read
<1>3. \A k \in 1 .. SIG_SIZE : SignatureBytes(msg)[k] = SigByte(msg, k)
  BY DEF SignatureBytes
<1>4. CASE a < SM + buf.len
  <2> DEFINE k == a - SM + 1
  <2>1. k \in 1 .. buf.len /\ SM + k - 1 = a
    BY <1>1, <1>4
  <2>2. msg[k] = Other /\ Message[k] = Byte(k)
    BY <2>1 DEF Read, Message
  <2>3. msg # Message
    BY <2>2 DEF Other, Byte
  <2>4. 1 \in 1 .. SIG_SIZE /\ SM + buf.len + 1 - 1 \notin {a}
    BY <1>1, <1>4
  <2>5. memory[SM + buf.len + 1 - 1] = SigByte(Message, 1)
    BY <2>4 DEF SignedMessage
  <2>6. SigByte(Message, 1) # SigByte(msg, 1)
    BY <2>3 DEF SigByte
  <2> QED
    BY <1>2, <1>3, <2>4, <2>5, <2>6
<1>5. CASE a >= SM + buf.len
  <2> DEFINE k == a - SM - buf.len + 1
  <2>1. k \in 1 .. SIG_SIZE /\ SM + buf.len + k - 1 = a
    BY <1>1, <1>5
  <2>2. Other # SigByte(msg, k)
    BY DEF Other, SigByte
  <2> QED
    BY <1>2, <1>3, <2>1, <2>2
<1> QED
  BY <1>1, <1>4, <1>5

\* Neither is a shorter one: its signature would begin in the message.
LEMMA ShorterIsRefused ==
  ASSUME buf \in Bufs, NEW memory, NEW len \in Nat, len < buf.len, SignedMessage(memory, {})
  PROVE  Read(memory, SM + len, SIG_SIZE) # SignatureBytes(Read(memory, SM, len))
<1> DEFINE msg == Read(memory, SM, len)
<1>1. SM \in Nat /\ SIG_SIZE \in Nat \ {0} /\ buf.len \in Nat
  BY BufFacts, CryptoSignAssumption
<1>2. 1 \in 1 .. SIG_SIZE /\ len + 1 \in 1 .. buf.len /\ SM + len + 1 - 1 = SM + (len + 1) - 1
  BY <1>1
<1>3. Read(memory, SM + len, SIG_SIZE)[1] = memory[SM + (len + 1) - 1]
  BY <1>2 DEF Read
<1>4. memory[SM + (len + 1) - 1] = Byte(len + 1)
  BY <1>2 DEF SignedMessage, MessageAt
<1>5. SignatureBytes(msg)[1] = SigByte(msg, 1)
  BY <1>2 DEF SignatureBytes
<1>6. Byte(len + 1) # SigByte(msg, 1)
  BY DEF Byte, SigByte
<1> QED
  BY <1>3, <1>4, <1>5, <1>6

\* What is accepted was signed and unchanged, and is moved as the message.
LEMMA OpenVerifiedPreserves ==
  ASSUME CSInv, OpenVerified
  PROVE  CSInv'
<1> DEFINE len == smlen - SIG_SIZE
           accepted == Read(mem, SM + len, SIG_SIZE) = SignatureBytes(Read(mem, SM, len))
<1>1. /\ cs_pc = "open" /\ buf \in Bufs /\ DOMAIN mem = Cells
      /\ before = mem /\ changed \in {"nothing", "cell", "length"} /\ DeliveredAs(changed)
  BY DEF OpenVerified, CSInv, CSTypeOK, Delivered
<1>2. /\ ~buf.mlen_null /\ smlen >= SIG_SIZE
      /\ accepted => /\ cs_ret' = 0 /\ mlen' = len
                     /\ mem' = memmove(mem, buf.out, SM, len)
      /\ ~accepted => cs_ret' = -1 /\ mlen' = 0 /\ mem' = mem
      /\ cs_pc' = "opened"
      /\ UNCHANGED <<buf, smlen, before, changed>>
  BY DEF OpenVerified
<1>3. buf.len \in Nat /\ SIG_SIZE \in Nat \ {0} /\ SM \in Nat /\ buf.out \in Nat
  BY <1>1, BufFacts, CryptoSignAssumption
<1>4. CASE changed = "nothing"
  <2>1. smlen = buf.len + SIG_SIZE /\ SignedMessage(mem, {})
    BY <1>1, <1>2, <1>3, <1>4 DEF DeliveredAs
  <2>2. len = buf.len
    BY <1>3, <2>1
  <2>3. accepted
    BY <1>1, <2>1, <2>2, SignedIsAccepted
  <2>4. MessageAt(mem', buf.out, {}) /\ DOMAIN mem' = Cells
    <3>1. MessageAt(mem, SM, {})
      BY <2>1 DEF SignedMessage
    <3>2. \A k \in 1 .. buf.len : buf.out + k - 1 \in Cells
      BY <1>1, BufFacts
    <3> QED
      BY <1>1, <1>2, <1>3, <2>2, <2>3, <3>1, <3>2, MessageMoved
  <2>5. Read(mem', buf.out, buf.len) = Message
    BY <1>1, <1>3, <2>4, MessageRead
  <2>6. OpenReturnsMessage'
    <3>1. cs_ret' = 0 /\ mlen' = buf.len /\ changed' = "nothing" /\ buf' = buf
      BY <1>2, <1>4, <2>2, <2>3
    <3>2. Read(mem', buf'.out, buf'.len) = Message'
      BY <1>2, <2>5 DEF Message
    <3> QED
      BY <1>2, <3>1, <3>2 DEF OpenReturnsMessage
  <2> QED
    BY <1>1, <1>2, <2>3, <2>4, <2>6
       DEF CSInv, CSTypeOK, BeforeSigning, Signed, Delivered
<1>5. CASE changed \in {"cell", "length"}
  <2>1. ~accepted
    <3>1. CASE changed = "cell"
      <4>1. /\ smlen = buf.len + SIG_SIZE
            /\ \E a \in SM .. SM + buf.len + SIG_SIZE - 1 : mem[a] = Other /\ SignedMessage(mem, {a})
        BY <1>1, <3>1 DEF DeliveredAs
      <4>2. len = buf.len
        BY <1>3, <4>1
      <4> QED
        BY <1>1, <4>1, <4>2, ChangedCellIsRefused
    <3>2. CASE changed = "length"
      <4>1. smlen \in 0 .. buf.len + SIG_SIZE - 1 /\ SignedMessage(mem, {})
        BY <1>1, <3>2 DEF DeliveredAs
      <4>2. len \in Nat /\ len < buf.len
        BY <1>2, <1>3, <4>1
      <4> QED
        BY <1>1, <4>1, <4>2, ShorterIsRefused
    <3> QED
      BY <1>5, <3>1, <3>2
  <2>2. OpenReturnsMessage'
    BY <1>1, <1>2, <1>5, <2>1 DEF OpenReturnsMessage
  <2> QED
    BY <1>1, <1>2, <2>1, <2>2
       DEF CSInv, CSTypeOK, BeforeSigning, Signed, Delivered
<1> QED
  BY <1>1, <1>4, <1>5

\* Nothing happens.
LEMMA CSStutters ==
  ASSUME CSInv, UNCHANGED cs_vars
  PROVE  CSInv'
<1>1. UNCHANGED <<buf, cs_pc, cs_ret, mem, smlen, mlen, before, changed>>
  BY DEF cs_vars
<1>2. UNCHANGED Message
  BY <1>1 DEF Message
<1> QED
  BY <1>1, <1>2
     DEF CSInv, CSTypeOK, BeforeSigning, Signed, Delivered, OpenReturnsMessage, DeliveredAs,
         SignedMessage, MessageAt, Read

-----------------------------------------------------------------------------
\* Memory is as described in every state of a signing and an opening.
THEOREM CryptoSignInvariant == CryptoSignSpec => []CSInv
<1>1. CSInit(Bufs, "sign") => CSInv
  BY CSInitEstablishes
<1>2. CSInv /\ [CSNext]_cs_vars => CSInv'
  <2> SUFFICES ASSUME CSInv, [CSNext]_cs_vars PROVE CSInv'
    OBVIOUS
  <2> QED
    BY SignRefusedPreserves, MoveMessagePreserves, SignAtPreserves, ReturnSignedPreserves,
       DeliverPreserves, OpenRefusedPreserves, OpenVerifiedPreserves, CSStutters DEF CSNext
<1> QED
  BY <1>1, <1>2, PTL DEF CryptoSignSpec

\* What crypto_sign_open returns is the message that crypto_sign was given, when
\* nothing was changed, and no message otherwise (crypto_sign_open).
THEOREM OpenCorrect == CryptoSignSpec => []OpenReturnsMessage
<1>1. CSInv => OpenReturnsMessage
  BY DEF CSInv
<1> QED
  BY <1>1, CryptoSignInvariant, PTL

=============================================================================
