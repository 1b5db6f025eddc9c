SPECIFICATION Spec
CONSTANTS
  FrameLength <- Frames
  Mtu <- Mtus
  IdSpace = 2
  MaxFragments = 128
INVARIANTS TypeOK FitsPath ReadsBack PeerCanHold
CHECK_DEADLOCK FALSE
