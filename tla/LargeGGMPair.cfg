\* Twelve leaves at two depths, every opening set, iterators of one and of two
\* nodes per cipher call.
SPECIFICATION Spec
CONSTANTS
  TAU = 3
  N = 4
  H = 4
  T_OPEN = 5
INVARIANTS
  TypeOK
  OpeningExact
  HiddenLeavesKept
  EngineInvariant
  BulkExact
PROPERTIES
  LeavesInOrder
CHECK_DEADLOCK FALSE
