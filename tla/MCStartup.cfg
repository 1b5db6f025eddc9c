SPECIFICATION FairSpec
CONSTANTS
  Main = Main
  None = None
  Worker <- TwoWorkers
  Mbuf <- Mbufs3
  FirstFree <- LeastFree
  Config <- Configs
  LanFrame <- LanFrames
  WanFrame <- WanFrames
  Solicited <- Messages
  Descriptors = 3
  Pool <- Pools
  BurstStep = 2
  MaxArrivals <- Arrivals
  Address <- Addresses
  Local = "local"
  SolicitedNode = "solicitedNode"
  AllNodes = "allNodes"
  Unspecified = "unspecified"
  WordSum <- Sums
  MacSum = 100000
INVARIANTS TypeOK OneOwner InOrder OnlyForCause AnswersConvince OwnQueues EnoughLcores PortsServeWorkers PoolFreedLast
CHECK_DEADLOCK FALSE
PROPERTIES BacklogSent NoneOvertaken FirstFailureEnds ImplementsPool
