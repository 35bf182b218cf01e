----------------------------- MODULE VerifyOnce -----------------------------
(***************************************************************************)
(* What the streaming verifier promises, whichever family (CT or OT) it is *)
(* built for: fed the bytes of a signature in parts of any size, it gives  *)
(* the verdict the one-shot Verify would give on the whole signature.      *)
(* Nothing is said here of chunks, batches or buffers: only how many bytes *)
(* were taken, and what each call of the API answered.                     *)
(***************************************************************************)
EXTENDS Naturals

CONSTANTS
  SigSize,    \* MQOM3_SIG_SIZE, in abstract bytes
  Messages,   \* messages a caller may pass to Finalize
  SignedMsg   \* the message the genuine signature was produced for

VARIABLES
  live,       \* a context exists (between Init and Clean)
  sig,        \* which signature is being streamed
  fed,        \* bytes of it taken so far
  verdict,    \* "pending", "accepted" or "rejected"
  faulty,     \* an allocation, hash or cipher call failed in this session
  call,       \* the last call of the API
  ret         \* what it returned, "running" while it has not returned

vars == <<live, sig, fed, verdict, faulty, call, ret>>

\* "badheader": no challenge can be derived from its header.
\* "badbody": well formed, but its identifier is not the hash of its contents.
Sigs == {"genuine", "badheader", "badbody"}

Calls == {<<"none">>, <<"init">>, <<"update">>, <<"clean">>}
           \cup {<<"finalize", m>> : m \in Messages}

\* Type invariant.
TypeOK ==
  /\ live \in BOOLEAN
  /\ sig \in Sigs
  /\ fed \in 0..SigSize
  /\ verdict \in {"pending", "accepted", "rejected"}
  /\ faulty \in BOOLEAN
  /\ call \in Calls
  /\ ret \in {"ok", "fail", "running"}

Init ==
  /\ live = FALSE
  /\ sig \in Sigs
  /\ fed = 0
  /\ verdict = "pending"
  /\ faulty = FALSE
  /\ call = <<"none">>
  /\ ret = "ok"

Idle == live /\ ret # "running"

Open(s) ==
  /\ ~live
  /\ live' = TRUE
  /\ sig' = s
  /\ fed' = 0
  /\ verdict' = "pending"
  /\ faulty' = FALSE
  /\ call' = <<"init">>
  /\ ret' = "ok"

\* Init fails when an allocation does: no context is created.
OpenFails ==
  /\ ~live
  /\ call' = <<"init">>
  /\ ret' = "fail"
  /\ UNCHANGED <<live, sig, fed, verdict, faulty>>

\* Part of an Update: some bytes are taken, never beyond the signature.
Take ==
  /\ live
  /\ ret = "running" => call = <<"update">>
  /\ verdict = "pending"
  /\ fed' \in fed..SigSize
  /\ call' = <<"update">>
  /\ ret' \in {"running", "ok"}
  /\ UNCHANGED <<live, sig, verdict, faulty>>

\* An Update rejects only what one-shot verification rejects: a signature
\* that is not genuine, bytes past its end, or a failed internal call.
RefusePart ==
  /\ live
  /\ verdict = "pending"
  /\ ret = "running"
  /\ fed' \in fed..SigSize
  /\ faulty' \in {faulty, TRUE}
  /\ faulty' \/ sig # "genuine" \/ fed = SigSize
  /\ verdict' = "rejected"
  /\ ret' = "fail"
  /\ UNCHANGED <<live, sig, call>>

\* Finalize on a complete signature decides, once.
Judge(m) ==
  /\ Idle
  /\ verdict = "pending"
  /\ fed = SigSize
  /\ faulty' \in {faulty, TRUE}
  /\ verdict' = IF sig = "genuine" /\ m = SignedMsg /\ ~faulty'
                THEN "accepted" ELSE "rejected"
  /\ ret' = IF verdict' = "accepted" THEN "ok" ELSE "fail"
  /\ call' = <<"finalize", m>>
  /\ UNCHANGED <<live, sig, fed>>

\* Any call on a context that cannot serve it: refused, nothing changes.
Refused(c) ==
  /\ Idle
  /\ c # <<"update">> => (verdict # "pending" \/ fed < SigSize)
  /\ call' = c
  /\ ret' = "fail"
  /\ UNCHANGED <<live, sig, fed, verdict, faulty>>

Close ==
  /\ Idle
  /\ live' = FALSE
  /\ fed' = 0
  /\ verdict' = "pending"
  /\ faulty' = FALSE
  /\ call' = <<"clean">>
  /\ ret' = "ok"
  /\ UNCHANGED sig

Next ==
  \/ \E s \in Sigs : Open(s)
  \/ OpenFails
  \/ Take
  \/ RefusePart
  \/ \E m \in Messages : Judge(m)
  \/ \E c \in Calls \ {<<"none">>, <<"init">>, <<"clean">>} : Refused(c)
  \/ Close

Spec == Init /\ [][Next]_vars

=============================================================================
