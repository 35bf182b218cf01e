------------------------------ MODULE MCSignature -----------------------------
(***************************************************************************)
(* Signing and verifying by every build, and the calls over them.  One of  *)
(* the two runs, the other stays off.                                      *)
(*                                                                         *)
(* Five executions make windows of one to five, the last one partial or    *)
(* not, and fill words of two to eight lanes in every way: none, leftover  *)
(* executions alone, x in a word of its own, x in the last lane of a word. *)
(* Two keys with lines that differ in every execution.                     *)
(***************************************************************************)
EXTENDS SignVerify, CryptoSign

KeyOf(s) ==
  LET a == [i \in Eqs |-> [j \in 0 .. N - 1 |-> [k \in 0 .. j |-> (s + 3 * i + 2 * j + k) % 4]]]
      b == [i \in Eqs |-> [j \in 0 .. N - 1 |-> (s + i + 3 * j + 1) % 4]]
      x == [j \in 0 .. N - 1 |-> (s + 2 * j + 1) % 4]
      k0 == [A |-> a, b |-> b, x |-> x]
      y == [i \in Eqs |-> VectMult(T1(k0, i), x, N)]
      rows(len, c) == [k \in Execs |-> [j \in 0 .. len - 1 |-> ((c + 1) * k + c + j * (s + 1) + (k \div 4)) % 4]]
  IN  [K |-> [A |-> a, b |-> b, x |-> x, y |-> y],
       x0 |-> rows(N, s), u0 |-> rows(ETA, s + 1), u1 |-> rows(ETA, s + 2)]

MCKeys == <<KeyOf(0), KeyOf(3)>>

Tamperings == {"nothing", "message", "nonce", "alpha1", "path"}

None == [kind |-> "none"]
Job(role, memopt, ot, blc, nb, stream, piop, x0_in_sig, keep, how, key) ==
  [role |-> role, memopt |-> memopt, ot |-> ot, blc_batch |-> blc, piop_batch |-> nb,
   stream |-> stream, piop |-> piop, x0_in_sig |-> x0_in_sig, keep |-> keep,
   tampered |-> how, key |-> key]

PIOPs ==
  [kind : {"default"}, gamma_batch : {1, 4, 8}, cached : BOOLEAN]
  \cup [kind : {"memopt"}, nb : 1 .. TAU]
  \cup {b \in [kind : {"bitslice"}, word : {2, 3, 4, 6, 8}, limit : 0 .. 8,
               composite : BOOLEAN, factored : BOOLEAN] : b.limit <= b.word}

SignJobs ==
  {Job("sign", TRUE, TRUE, blc, nb, s, None, FALSE, FALSE, "nothing", k) :
     blc \in 1 .. TAU + 1, nb \in 1 .. TAU, s \in BOOLEAN, k \in 1 .. 2}
  \cup {Job("sign", TRUE, FALSE, 0, nb, s, None, FALSE, FALSE, "nothing", k) :
     nb \in 1 .. TAU, s \in BOOLEAN, k \in 1 .. 2}
  \cup {Job("sign", FALSE, FALSE, 0, 0, FALSE, piop, z, z, "nothing", k) :
     piop \in PIOPs, z \in BOOLEAN, k \in 1 .. 2}

VerifyJobs ==
  {Job("verify", TRUE, TRUE, blc, nb, s, None, FALSE, FALSE, how, k) :
     blc \in 1 .. TAU + 1, nb \in 1 .. TAU, s \in BOOLEAN, how \in Tamperings, k \in 1 .. 2}
  \cup {Job("verify", TRUE, FALSE, 0, nb, s, None, FALSE, FALSE, how, k) :
     nb \in 1 .. TAU, s \in BOOLEAN, how \in Tamperings, k \in 1 .. 2}
  \cup {Job("verify", FALSE, FALSE, 0, 0, FALSE, piop, FALSE, FALSE, how, k) :
     piop \in PIOPs, how \in Tamperings, k \in 1 .. 2}

SVOff == SVInit({CHOOSE j \in SignJobs : TRUE}, "off")
CSOff == CSInit({CHOOSE b \in Bufs : TRUE}, "off")

Init == \/ SVInit(SignJobs \cup VerifyJobs, "enter") /\ CSOff
        \/ CSInit(Bufs, "sign") /\ SVOff

Next == \/ SVNext /\ UNCHANGED cs_vars
        \/ CSNext /\ UNCHANGED sv_vars

Spec == Init /\ [][Next]_<<sv_vars, cs_vars>>

=============================================================================
