CONSTANTS
  Calls <- MCCalls
  Byte = 2
  Jobs <- MCJobs
SPECIFICATION TransposeSpec
INVARIANTS
  NoRace
  AllDone
  InOrder
  NeverReversed
  Transposed
PROPERTIES
  Ends
