--------------------------------- MODULE MCBLC --------------------------------
(***************************************************************************)
(* Three executions of 16 leaves, in groups of 8, so that an execution     *)
(* takes two groups and a batch of two does not divide the three.          *)
(***************************************************************************)
EXTENDS BLC

Default(keep, cached, h7) ==
  [impl |-> "default", keep |-> keep, cache |-> cached, h7 |-> h7,
   par |-> 1, sim |-> 1, batch |-> 1, fast |-> TRUE]

Memopt(par, sim, batch, fast) ==
  [impl |-> "memopt", keep |-> FALSE, cache |-> FALSE, h7 |-> 1,
   par |-> par, sim |-> sim, batch |-> batch, fast |-> fast]

MCBuilds ==
  {Default(keep, cached, h7) : keep, cached \in BOOLEAN, h7 \in {1, 2}} \cup
  {Memopt(1, 4, 1, TRUE), Memopt(2, 2, 2, TRUE), Memopt(4, 8, 3, TRUE),
   Memopt(1, 2, 2, FALSE), Memopt(4, 4, 2, FALSE)}

\* The hidden leaves: the first and the last, the last of a group, the first of
\* the next, one in a middle.
MCChallenges ==
  {[e \in Execs |-> i[e + 1]] : i \in {<<0, 7, 15>>, <<8, 5, 0>>, <<15, 15, 6>>}}

=============================================================================
