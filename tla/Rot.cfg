CONSTANTS
  NumOTs = 4
  ElementSize = 2
  MaxCalls = 2
  Shapes <- MCShapes
SPECIFICATION Spec
INVARIANTS
  ChosenMessage
  PoolsAligned
PROPERTIES
  BothStop
  ImplementsIdeal
