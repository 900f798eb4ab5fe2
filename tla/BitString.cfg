CONSTANTS
  Byte = 2
  MaxBits = 4
  Objects = {a, b}
SPECIFICATION BitStringSpec
INVARIANTS
  SpareBitsHidden
  OrderAgrees
  OneErrorCorrected
