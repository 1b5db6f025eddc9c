SPECIFICATION Spec
CONSTANTS
  f1 = f1  f2 = f2  f3 = f3
  Frame = {f1, f2}
  FrameLength <- TwoLong
  Mtu = {70}
  IdSpace = 4
  MaxPackets = 2
  MaxFragments = 3
  Timeout = 1
  MaxCopies = 1
  MaxLost = 0
  MaxNear = 1
  FarRestarts = TRUE
  Prompt = FALSE
  Mangled = Mangled
  None = None

INVARIANTS TypeOK OriginalWithinEpoch NeverMixedWithinEpoch NoneHeldWhole
PROPERTIES ImplementsChannel FragmentsKept
