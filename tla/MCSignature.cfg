CONSTANTS
  TAU = 5
  N = 2
  NB_EQ = 2
  ETA = 2
  MSG = 1
  Keys <- MCKeys
  SIG_SIZE = 2
  MaxLen = 2
  SM = 1
SPECIFICATION Spec
INVARIANTS
  SignatureExact
  VerdictExact
  NothingKept
  OpenReturnsMessage
CHECK_DEADLOCK FALSE
