\* Every classification of eight nonces, tried one, two and four at a time.
SPECIFICATION Spec
CONSTANTS
  NbNonces = 8
  Ks = {1, 2, 4}
INVARIANTS
  TypeOK
  SearchExact
  SameChallenge
PROPERTIES
  SearchEnds
CHECK_DEADLOCK FALSE
