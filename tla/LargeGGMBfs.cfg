\* Twenty-four leaves at two depths, both widths of a batch, every opening set.
SPECIFICATION BfsSpec
CONSTANTS
  TAU = 2
  N = 12
  H = 5
  T_OPEN = 7
  Widths = {4, 8}
INVARIANTS
  LevelInvariant
  LeavesRecovered
CHECK_DEADLOCK FALSE
