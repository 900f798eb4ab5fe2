CONSTANTS
  ParamSet <- MCTwoProcesses
  Keys = {0, 1}
  PrimalMatrix <- MCPrimal
  DualMatrix <- MCDual
  SharedSeed = FALSE
SPECIFICATION Spec
INVARIANTS
  SuccessMeansCorrelated
