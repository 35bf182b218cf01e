\* Trees of 16 leaves: bulk derivations of up to four nodes, one cached key
\* schedule, iterators of one and of four leaves per call.
SPECIFICATION Spec
CONSTANTS
  LOG = 4
  NB_ENC_CTX = 1
  CHUNK = 4
  BatchLogs = {0, 2}
INVARIANTS
  KeptTreeOpens
  PathInvariant
PROPERTIES
  ReadsOnlyWritten
  LeavesInOrder
CHECK_DEADLOCK FALSE
