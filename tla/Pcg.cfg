CONSTANTS
  ParamSet <- MCParams
  Keys = {0, 1}
  PrimalMatrix <- MCPrimal
  DualMatrix <- MCDual
  SharedSeed = TRUE
SPECIFICATION Spec
INVARIANTS
  OneTimeMasks
  ErrorTerms
PROPERTIES
  ImplementsOle
