---------------------------------- MODULE BLC ---------------------------------
(***************************************************************************)
(* A batch line commitment, its opening and its evaluation, by any build   *)
(* of the signer and any build of the verifier.  A call that failed is the *)
(* end of the exchange.                                                    *)
(***************************************************************************)
EXTENDS BLCDefault, BLCMemopt

vars == <<control, outputs, call, pc, exec, rc, held, dirty, work, pass>>

Init == StateInit /\ DefaultInit /\ MemoptInit

Open ==
  /\ StartOpen
  /\ pc' = "open"
  /\ UNCHANGED <<held, dirty>>

Next ==
  \/ DefaultNext /\ UNCHANGED pass
  \/ MemoptNext /\ UNCHANGED work
  \/ Open /\ UNCHANGED <<work, pass>>
  \/ OpenExec /\ UNCHANGED <<work, pass>>
  \/ OpenCleanup /\ UNCHANGED <<work, pass>>

Spec == Init /\ [][Next]_vars

-----------------------------------------------------------------------------
\* The reference: rows of all leaves, under the keys of their own execution.
ReferenceLine(e)  == LineOf(RowsOf(fam, e))
ReferenceComs(e)  == [k \in 1..NB_EVALS |-> SeedCommit(e, Seed(e, k - 1))]
ReferenceCom1(e)  == Hash_7(e, ReferenceComs(e), Sent(fam, ReferenceLine(e).delta_x))

\* Whatever build commits, the commitments and the line of every execution are
\* those of the definition: each leaf under its own index, its own keys, and in
\* its own Gray-code bucket, through groups, batches, caches and passes.
CommitIsLine ==
  Returned("commit") /\ ~oom =>
    \A e \in Execs : /\ com1[e] = ReferenceCom1(e)
                     /\ line[e] = ReferenceLine(e)

\* Whatever build made the opening and whatever build evaluates it, Eval returns
\* the commitments and the line's value at the point of the challenge: the rows
\* of the leaves that it has, and delta_x, stand for those of all.
EvalIsOnLine ==
  Returned("eval") =>
    \A e \in Execs : /\ com1_v[e] = com1[e]
                     /\ evals[e] = LineAt(line[e], i_star[e])
                     /\ alpha1_v[e] = Alpha1[e]

\* A call that has returned, with 0 or with an error at any point, holds no heap
\* buffer and no context, and has left no secret on the heap or on its stack.
NothingLeft == pc = "done" => held = {} /\ dirty = {} /\ contexts = {}

\* api.h, 49: the signature is there when the call "Returns 0 (success)".
SuccessMeansWritten == Returned("commit") => DOMAIN com1 = Execs

=============================================================================
