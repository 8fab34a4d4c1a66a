SPECIFICATION OrderlySpec
CONSTANTS
  None = None
  Block <- MCBlock
  Parent <- MCParent
  Height <- MCHeight
  Chains <- MCTree
  BatchSize = 2
  ChunkSize = 2
  MaxHeight = 9
  MaxFailures = 2
  MaxPending = 1
  Env = {"reorg", "crash", "shutdown", "rpc", "db", "zmq"}
INVARIANTS
  StoreIsChain
PROPERTIES
  RollbackOnlyAtTip
  ImplementsStoredChain
CHECK_DEADLOCK FALSE
