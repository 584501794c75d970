SPECIFICATION Spec
CONSTANTS
  Reqs = {"r1", "r2", "r3"}
  Peers = {"p", "q"}
  Suits <- MCSuits
  Capacity = 2
  MaxQueued = 3
  DistPeers = {"p", "q"}
  EventsCap = 10
  MaxTries = 3
  Nodes = {"a", "b"}
  rcConst = 4
  rcRecharge = 3
  maxSimReq = 1
  maxRcSum = 2
  RcWord = 65536
  MaxTime = 2
INVARIANTS LoadIsCounted
PROPERTIES  AnswerIsFinal NobodyIsForgotten
CHECK_DEADLOCK FALSE
