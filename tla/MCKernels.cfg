CONSTANTS
  Reg = 4
  Dword = 2
  Bits = 2
  Panel = 2
  Tile = 8
  MaxElements = 12
  BlockSize = 3
  InplaceChunk = 3
  N = 5
  NB_EQ = 13
  ELT = 2
SPECIFICATION Spec
INVARIANTS
  RowsAreSlices
  KeyPairExact
  ExpandsAlike
  VectorsExact
  CiphersExact
CHECK_DEADLOCK FALSE
