SPECIFICATION FairSpec
CONSTANTS
  f1 = f1
  f2 = f2
  f3 = f3
  Frame = {f1, f2, f3}
  FrameLength <- Mixed
  Mtu = {70, 80}
  IdSpace = 4
  MaxPackets = 2
  MaxFragments = 3
  Timeout = 1
  MaxCopies = 0
  MaxLost = 1
  MaxNear = 0
  FarRestarts = FALSE
  Prompt = TRUE
  Mangled = Mangled
  None = None
INVARIANT NoneMissing
PROPERTY EveryFrameArrives
