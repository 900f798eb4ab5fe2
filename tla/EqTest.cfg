CONSTANTS
  ParamSet <- MCParams
  Draw <- MCDraw
SPECIFICATION Spec
INVARIANTS
  ReductionMasks
  EqualityKept
  OutputShares
  ThresholdMet
