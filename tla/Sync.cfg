SPECIFICATION Spec
CONSTANTS
  Peers = {"p", "q"}
  Size = 3
  Rounds = 2
  Origins = {"p", "q"}
  Blocks <- MCBlocks
  Genesis <- MCGenesis
  Numbers = {1, 2}
  hashLimit = 2
  blockLimit = 1
  maxUncleDist = 1
  maxQueueDist = 2
  MaxAnnounces = 2
  MaxInjects = 2
  MaxAnswers = 2
  Sources = {"p", "q"}
  Syncs <- MCSyncs
  Top = 4
  CacheLimit = 3
  Capacity = 2
  ForceVerify = 1
  EmptyBody = {2}
  EmptyReceipts = {1}
  DropLimit = 1
  MaxSends = 4
  MaxJoins = 2
INVARIANTS FetcherIsConsistent EachPartOnce ForwardedInOrder
PROPERTIES FillEnds PeersAreKnown
CHECK_DEADLOCK FALSE
