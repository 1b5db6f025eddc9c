SPECIFICATION FairSpec
CONSTANTS
  w1 = w1  w2 = w2
  narrow = narrow  wide = wide  tiny = tiny
  peer1 = peer1  peer2 = peer2  peer3 = peer3
  Worker = {w1, w2}
  Tunnels = 3
  Remote <- Remotes
  Configured <- Mtus
  Router = {narrow, wide, tiny, peer1}
  LinkMtu <- Links
  Crossing <- Paths
  Queue <- Queues
  FrameLength <- Frames
  MaxWire = 1
  MaxNotices = 2
  MaxFaults = 1
INVARIANTS TypeOK Justified
PROPERTIES FallsOnOneQueue PathFollowed
