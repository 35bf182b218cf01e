SPECIFICATION Spec
CONSTANTS
  TAU = 5
  BATCH = 2
  OT_BATCH = 3
  HEADER_SIZE = 2
  PREFIX_SIZE = 4
  ALPHA1_SIZE = 2
  MaxPart = 17
  Messages = {m1, m2}
  SignedMsg = m1
INVARIANTS
  BufferInvariant
  TranscriptIsPrefix
PROPERTIES
  RefinesOneShot
