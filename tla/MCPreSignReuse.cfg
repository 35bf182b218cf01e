SPECIFICATION Spec
CONSTANTS
  b1 = b1
  b2 = b2
  m1 = m1
  m2 = m2
  k1 = k1
  k2 = k2
  Buf <- const_Buf
  Msg <- const_Msg
  Key <- const_Key
  MaxPrepares = 2
  MaxKept = 1
SYMMETRY Symmetric
INVARIANT ReusedBufferFails
