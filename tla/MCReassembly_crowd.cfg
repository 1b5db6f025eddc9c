SPECIFICATION FairSpec
CONSTANTS
  Key = {k1, k2, k3}
  Data = {d1}
  Offset = {0, 8, 65528}
  Length = {8}
  MaxPackets = 2
  MaxFragments = 2
  Timeout = 2
  None = None
INVARIANT WithinLimits
PROPERTIES VanishesOnlyForCause EveryPartialLeaves
