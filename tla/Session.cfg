CONSTANTS
  Alice = alice
  Bob = bob
  Cap = 3
  COMM_SLEEP = 1
  COMM_TIMEOUT = 2
  KeyBits = 16
  PointBytes = 2
  MaxCrashes = 1
  ParamSet <- MCParams
SPECIFICATION Spec
INVARIANTS
  FramesAligned
  NothingLeftOver
  NoException
  ClosedHeardAll
  SameOTs
PROPERTIES
  BothStop
