SPECIFICATION Spec
CONSTANTS
  Genesis = {1, 2, 3}
  Subjects = {3, 4}
  Epoch = 4
  MaxBlocks = 5
  Accounts = {"acc"}
  Ripemd = "none"
  Keys = {"k"}
  Values = {1}
  Preimages = {}
  DeleteEmpty = TRUE
  Alloc <- MCAlloc
  MaxBalance = 1
  MaxOps = 3
  MaxSnapshots = 2
  MaxEpochs = 2
  Blocks <- Tree
  GenesisBlock = "g"
  Parent <- TreeParent
  Number <- TreeNumber
  Difficulty <- Equal
  Txs <- TreeTxs
  Mined = {"a2", "b2"}
  FastSync = FALSE
  MaxRewinds = 1
  MaxCrashes = 0
INVARIANTS CanonicalIsAncestry HeadIsComplete
PROPERTIES RevertsExactly CommitPersistsView PoolIsConsistent MajorityRules
CHECK_DEADLOCK FALSE
