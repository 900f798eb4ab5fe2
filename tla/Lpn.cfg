CONSTANTS
  WORDS = 3
  BlockBits = 2
  Constructions = {alice, bob}
  LpnChoices <- MCParams
SPECIFICATION LpnSpec
INVARIANTS
  SameMatrices
  RowsProper
  Associative
PROPERTIES
  AllMade
