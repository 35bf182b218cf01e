-------------------------------- MODULE ExpandMQ ------------------------------
(***************************************************************************)
(* The expansion of the quadratic equations (expand_mq.c).  Equation i is  *)
(* read from the PRG stream of its own seed: the rows 0 .. N - 1 of the    *)
(* lower triangular matrix, row j with j + 1 elements, then the N elements *)
(* of the linear part, which count as row N.                               *)
(*                                                                         *)
(* The seed of equation i is named by i.  A row is a buffer of bytes.      *)
(***************************************************************************)
EXTENDS PRGStream

CONSTANTS
  N,          \* MQOM3_PARAM_MQ_N
  NB_EQ,      \* MQOM3_PARAM_MQ_M / MQOM3_PARAM_MU
  ELT         \* sizeof(field_ext_elt)

ASSUME ExpandMQAssumption == N \in Nat \ {0} /\ NB_EQ \in Nat \ {0} /\ ELT \in Nat \ {0}

Eqs == 0 .. NB_EQ - 1

NoSeed == -3

-----------------------------------------------------------------------------
(***************************************************************************)
(* The streaming context: one row at each update.                          *)
(***************************************************************************)
NoCtx == [magic |-> FALSE, i |-> 0, j |-> 0, sched |-> NoSeed, leftover |-> JunkBlock]

ExpandEquations_memopt_init == [NoCtx EXCEPT !.magic = TRUE]

\* Where row j starts in the stream, and its length.
Start_nbytes(j) == ((j * (j + 1)) \div 2) * ELT
Nbytes(j) == IF j = N THEN j * ELT ELSE (j + 1) * ELT

Refuses(ctx) == ~ctx.magic \/ ctx.i >= NB_EQ \/ ctx.j > N

\* (wrong on purpose) The schedule of the first equation is kept.
Keyed_Once(ctx) == IF ctx.sched = NoSeed THEN [ctx EXCEPT !.sched = ctx.i] ELSE ctx

\* Row 0 of an equation derives its seed and schedules its key.
NeedsSeed(ctx) == ctx.j = 0
Keyed(ctx) == IF NeedsSeed(ctx) THEN [ctx EXCEPT !.sched = ctx.i] ELSE ctx

Advanced(ctx) ==
  LET next == (ctx.j + 1) % (N + 1)
  IN  [ctx EXCEPT !.j = next, !.i = IF next = 0 THEN @ + 1 ELSE @]

\* The row that an update returns, and the context after it.
ExpandEquations_memopt_update(ctx, aliasing) ==
  LET c == Keyed(ctx)
      s == PRG_memopt_with_ctx(c.sched, Start_nbytes(c.j), Nbytes(c.j), c.leftover, aliasing)
  IN  [row |-> s.out, ctx |-> Advanced([c EXCEPT !.leftover = s.leftover])]

ExpandEquations_memopt_final(ctx) ==
  IF ctx.magic THEN [ctx EXCEPT !.magic = FALSE, !.sched = NoSeed] ELSE ctx

-----------------------------------------------------------------------------
(***************************************************************************)
(* All equations at once, their seeds derived in batches of eight, four or *)
(* one.                                                                    *)
(***************************************************************************)

\* How many seeds the next XOF call derives when it has up to width lanes.
BatchAt(i, width) ==
  IF width = 8 /\ i + 8 <= NB_EQ THEN 8
  ELSE IF width >= 4 /\ i + 4 <= NB_EQ THEN 4
  ELSE 1

Nb_eq == (N + ((N * (N + 1)) \div 2)) * ELT

\* The running offset k of row j in the stream.
RowOffset[j \in 0 .. N] == IF j = 0 THEN 0 ELSE RowOffset[j - 1] + j * ELT

\* The rows of equation i, the linear part as row N.
ParsedEquation(i, aliasing) ==
  LET stream == PRG(i, Nb_eq, aliasing)
  IN  [j \in 0 .. N |-> [b \in 0 .. Nbytes(j) - 1 |-> stream[RowOffset[j] + b]]]

-----------------------------------------------------------------------------
\* The definition: byte b of row j of equation i.
RowByte(i, j, b) ==
  LET at == ((j * (j + 1)) \div 2) * ELT + b
  IN  <<i, at \div BlockSize, at % BlockSize>>

=============================================================================
