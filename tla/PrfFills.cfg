CONSTANTS
  WORDS = 3
  BlockBits = 2
  Constructions = {alice, bob}
  LpnChoices <- MCWide
SPECIFICATION LpnSpec
INVARIANTS
  EveryBitRandom
