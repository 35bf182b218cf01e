------------------------------ MODULE LeafStream ------------------------------
(***************************************************************************)
(* What every leaf iterator promises: called over and over, it returns the *)
(* leaves in logical order, each exactly once and each with the seed it    *)
(* should have, then says that there are no more.  An internal failure may *)
(* end the enumeration early, but never makes it return a wrong leaf.      *)
(***************************************************************************)
EXTENDS Naturals

VARIABLES
  expected,   \* the seed each leaf must be returned with, from leaf 0 on
  num_leaf,   \* leaves returned so far
  lseed_out,  \* what the last successful call wrote
  ret         \* "ready", "running", "leaf", "done" or "error"

vars == <<expected, num_leaf, lseed_out, ret>>

\* Initialisation may be refused.
Init ==
  /\ num_leaf = 0
  /\ ret \in {"ready", "error"}

Call ==
  /\ ret \notin {"running", "error"}
  /\ ret' = "running"
  /\ UNCHANGED <<expected, num_leaf, lseed_out>>

Leaf ==
  /\ ret = "running"
  /\ num_leaf \in DOMAIN expected
  /\ lseed_out' = expected[num_leaf]
  /\ num_leaf' = num_leaf + 1
  /\ ret' = "leaf"
  /\ UNCHANGED expected

Done ==
  /\ ret = "running"
  /\ num_leaf \notin DOMAIN expected
  /\ ret' = "done"
  /\ UNCHANGED <<expected, num_leaf, lseed_out>>

\* What a failed call leaves behind is not to be used.
Fail ==
  /\ ret = "running"
  /\ ret' = "error"
  /\ UNCHANGED expected

\* The iterator is cleaned and initialised again, for another pass and perhaps
\* another buffer.
Restart ==
  /\ ret # "running"
  /\ \/ ret' = "ready" /\ num_leaf' = 0
     \/ ret' = "error"
  /\ UNCHANGED expected

Next == Call \/ Leaf \/ Done \/ Fail \/ Restart

Spec == Init /\ [][Next]_vars /\ WF_vars(Leaf \/ Done)

=============================================================================
