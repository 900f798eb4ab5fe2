CONSTANTS
  k = 4
  l = 3
  tail = 2
  bits = 3
  zero_weights <- MCZeroWeights
  one_weights <- MCOneWeights
  half <- MCHalf
SPECIFICATION Spec
INVARIANTS
  TypeOK
  NoiseBounded
  Decrypts
