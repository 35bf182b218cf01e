SPECIFICATION Spec
CONSTANTS
  TAU = 5
  BATCH = 2
  HEADER_SIZE = 3
  CHUNK_SIZE = 2
  MaxPart = 14
  Messages = {m1, m2}
  SignedMsg = m1
INVARIANTS
  TypeOK
  BuffersHoldPending
  TranscriptIsPrefix
PROPERTIES
  RefinesOneShot
  UpdateReturns
