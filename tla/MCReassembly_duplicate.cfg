SPECIFICATION Spec
CONSTANTS
  Key = {k1}
  Data = {d1}
  Offset = {0, 8}
  Length = {8}
  MaxPackets = 1
  MaxFragments = 3
  Timeout = 1
  None = None
PROPERTY DuplicateDiscarded
