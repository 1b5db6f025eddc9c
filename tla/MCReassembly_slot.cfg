SPECIFICATION Spec
CONSTANTS
  Key = {k1, k2}
  Data = {d1}
  Offset = {0, 8, 16, 65528}
  Length = {0, 4, 8, 16}
  MaxPackets = 1
  MaxFragments = 3
  Timeout = 2
  None = None
SYMMETRY KeySymmetry
INVARIANTS TypeOK NoByteTwice ReturnedExact CompleteNeverStored
